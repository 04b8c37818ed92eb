----------------------------- MODULE MvpAwards -----------------------------
(***************************************************************************)
(* The award of the best player of a series: matchMvps() of                *)
(* competition/player-statistics.ts, sealMatchMvp() when an upload         *)
(* completes the series, and backfillMatchMvps() for the series that were  *)
(* completed before awards existed, run with or without --apply, and more  *)
(* than once at the same time.  Administrators reopen series and delete    *)
(* players meanwhile.                                                      *)
(*                                                                         *)
(* A map is a record of its winner ("one" or "two"), its length and the    *)
(* rows of its players: who, for which team, with what rating (the score   *)
(* of mapMvpScore(), a number).  The tie-breaks on kill participation,     *)
(* kills per death and damage are left out: victories stand for them.      *)
(***************************************************************************)
EXTENDS Integers, Sequences, FiniteSets, FiniteSetsExt, SequencesExt, Functions

CONSTANTS
    AwardedMatches, \* numbers: the order of their identifiers
    SeriesFormat, \* match -> 1, 3 or 5
    GameReplays, \* the maps an upload may bring
    Histories,  \* maps of the series completed before awards existed
    Applying, DryRuns, \* processes of the backfill
    Leaving     \* players that may be deleted

VARIABLES
    maps,       \* match -> its maps
    matchState, \* match -> "open" or "completed"
    award,      \* match -> mvp_player_id and mvp_score
    lock,       \* match -> the backfill that holds its row
    todo,       \* backfill -> matches left
    stage,      \* backfill -> where its transaction stands
    chosen      \* backfill -> the award it is about to write

mvpVars == <<maps, matchState, award, lock, todo, stage, chosen>>

Backfills == Applying \cup DryRuns
Unawarded == [player |-> -1, score |-> -1]
Deleted == -1
NotHeld == "free"

Rows(ms) ==
    UNION {{[row |-> r, map |-> i] : r \in ms[i].rows} : i \in DOMAIN ms}
Played(ms) == {e.row.player : e \in Rows(ms)}
RowsOf(ms, p) == {e \in Rows(ms) : e.row.player = p}
GamesWon(ms, team) == Cardinality({i \in DOMAIN ms : ms[i].winner = team})
WinnerOf(ms) ==
    CASE GamesWon(ms, "one") > GamesWon(ms, "two") -> "one"
      [] GamesWon(ms, "two") > GamesWon(ms, "one") -> "two"
      [] OTHER -> "none"
Needed(m) == (SeriesFormat[m] \div 2) + 1

-----------------------------------------------------------------------------
(* matchMvps() *)

\* At least half of the maps, always for the winning side, every length known.
Eligible(ms, p) ==
    /\ 2 * Cardinality(RowsOf(ms, p)) >= Len(ms)
    /\ \A e \in RowsOf(ms, p) :
        /\ WinnerOf(ms) = "none" \/ e.row.team = WinnerOf(ms)
        /\ ms[e.map].seconds > 0

\* matchMvpScore() is Points / Seconds: the ratings weighted by length.
Weighted(ms, p) ==
    MapThenSumSet(LAMBDA e : e.row.rating * ms[e.map].seconds, RowsOf(ms, p))
Seconds(ms, p) == MapThenSumSet(LAMBDA e : ms[e.map].seconds, RowsOf(ms, p))
Victories(ms, p) ==
    Cardinality({e \in RowsOf(ms, p) : e.row.team = ms[e.map].winner})

\* compareMvpRanking(): p before q.
Outranks(ms, p, q) ==
    LET here == Weighted(ms, p) * Seconds(ms, q)
        there == Weighted(ms, q) * Seconds(ms, p)
    IN \/ here > there
       \/ here = there /\ Victories(ms, p) > Victories(ms, q)
       \/ here = there /\ Victories(ms, p) = Victories(ms, q) /\ p < q

Candidates(ms) == {p \in Played(ms) : Eligible(ms, p)}

Best(ms) ==
    CHOOSE p \in Candidates(ms) :
        \A q \in Candidates(ms) \ {p} : Outranks(ms, p, q)

\* One decimal: tenths, rounded half up.
Tenths(ms, p) ==
    (20 * Weighted(ms, p) + Seconds(ms, p)) \div (2 * Seconds(ms, p))

AwardOf(ms) == [player |-> Best(ms), score |-> Tenths(ms, Best(ms))]

\* The winner of the series is among the candidates.
HasAward(ms, team) ==
    /\ Candidates(ms) # {}
    /\ \E e \in RowsOf(ms, Best(ms)) : e.row.team = team

-----------------------------------------------------------------------------

MvpInit ==
    /\ maps \in [AwardedMatches -> Histories \cup {<<>>}]
    /\ matchState = [m \in AwardedMatches |->
                    IF maps[m] = <<>> THEN "open" ELSE "completed"]
    /\ award = [m \in AwardedMatches |-> Unawarded]
    /\ lock = [m \in AwardedMatches |-> NotHeld]
    /\ todo = [b \in Backfills |-> {}]
    /\ stage = [b \in Backfills |-> "started"]
    /\ chosen = [b \in Backfills |-> Unawarded]

\* Mutant: the award is computed again.
SealsAgain(m, decided) == decided

\* Unless one of its fields is set already.
Seals(m, decided) == decided /\ award[m] = Unawarded

\* The commit of an upload that holds the match: a map, and with the deciding
\* one the award.  Without an eligible player the whole upload is rejected.
ImportMap(m, r) ==
    LET now == Append(maps[m], r)
        decided == GamesWon(now, r.winner) >= Needed(m)
    IN /\ lock[m] = NotHeld
       /\ matchState[m] = "open"
       /\ Len(maps[m]) < SeriesFormat[m]
       /\ Seals(m, decided) => HasAward(now, r.winner)
       /\ maps' = [maps EXCEPT ![m] = now]
       /\ matchState' = [matchState EXCEPT
                             ![m] = IF decided THEN "completed" ELSE @]
       /\ award' = [award EXCEPT ![m] =
                        IF Seals(m, decided) THEN AwardOf(now) ELSE @]
       /\ UNCHANGED <<lock, todo, stage, chosen>>

\* An administrator edits the state of the series; the award stays.
Reopen(m) ==
    /\ lock[m] = NotHeld
    /\ matchState[m] = "completed"
    /\ matchState' = [matchState EXCEPT ![m] = "open"]
    /\ UNCHANGED <<maps, award, lock, todo, stage, chosen>>

\* The foreign key of the award becomes null, the score stays.
DeletePlayer(p) ==
    /\ \E m \in AwardedMatches : p \in Played(maps[m])
    /\ maps' = [m \in AwardedMatches |->
                   [i \in DOMAIN maps[m] |->
                       [maps[m][i] EXCEPT !.rows =
                           {r \in @ : r.player # p}]]]
    /\ award' = [m \in AwardedMatches |->
                    IF award[m].player = p
                    THEN [award[m] EXCEPT !.player = Deleted] ELSE award[m]]
    /\ UNCHANGED <<matchState, lock, todo, stage, chosen>>

\* The list of completed series, under no lock.
ListCompleted(b) ==
    /\ stage[b] = "started"
    /\ todo' = [todo EXCEPT ![b] =
                    {m \in AwardedMatches : matchState[m] = "completed"}]
    /\ stage' = [stage EXCEPT ![b] = "idle"]
    /\ UNCHANGED <<maps, matchState, award, lock, chosen>>

InTurn(b) == Min(todo[b])

\* The end of the transaction of a series, whatever its entry says.
EndSeries(b) ==
    /\ todo' = [todo EXCEPT ![b] = @ \ {InTurn(b)}]
    /\ stage' = [stage EXCEPT ![b] = "idle"]
    /\ lock' = [m \in AwardedMatches |-> IF lock[m] = b THEN NotHeld ELSE lock[m]]
    /\ chosen' = [chosen EXCEPT ![b] = Unawarded]

\* The row, locked only with --apply: skipped unless still completed,
\* preserved or reported when a field of the award is set.
OpenSeries(b) ==
    /\ stage[b] = "idle"
    /\ todo[b] # {}
    /\ b \in Applying => lock[InTurn(b)] = NotHeld
    /\ IF matchState[InTurn(b)] = "completed" /\ award[InTurn(b)] = Unawarded
       THEN /\ stage' = [stage EXCEPT ![b] = "deciding"]
            /\ lock' = [lock EXCEPT ![InTurn(b)] =
                           IF b \in Applying THEN b ELSE @]
            /\ UNCHANGED <<todo, chosen>>
       ELSE EndSeries(b)
    /\ UNCHANGED <<maps, matchState, award>>

\* The result of a complete series and the rows of both sides on every map.
\* The scores and the winner of the match are those of its maps.
Complete(m, ms) ==
    /\ ms # <<>>
    /\ \A i \in DOMAIN ms : ms[i].seconds > 0
    /\ Len(ms) <= SeriesFormat[m]
    /\ Max({GamesWon(ms, "one"), GamesWon(ms, "two")}) = Needed(m)
    /\ \A i \in DOMAIN ms : {r.team : r \in ms[i].rows} = {"one", "two"}

\* The validations, then matchMvps(); a dry run ends with its plan.
DecideSeries(b) ==
    LET ms == maps[InTurn(b)]
    IN /\ stage[b] = "deciding"
       /\ IF b \in Applying /\ Complete(InTurn(b), ms)
             /\ HasAward(ms, WinnerOf(ms))
          THEN /\ chosen' = [chosen EXCEPT ![b] = AwardOf(ms)]
               /\ stage' = [stage EXCEPT ![b] = "writing"]
               /\ UNCHANGED <<todo, lock>>
          ELSE EndSeries(b)
       /\ UNCHANGED <<maps, matchState, award>>

\* UPDATE ... WHERE completed and both fields null.  The foreign key refuses a
\* player deleted meanwhile: the transaction fails and the series stays open
\* to the next run.
WriteAward(b) ==
    /\ stage[b] = "writing"
    /\ award' = [award EXCEPT ![InTurn(b)] =
                    IF /\ matchState[InTurn(b)] = "completed"
                       /\ @ = Unawarded
                       /\ chosen[b].player \in Played(maps[InTurn(b)])
                    THEN chosen[b] ELSE @]
    /\ EndSeries(b)
    /\ UNCHANGED <<maps, matchState>>

MvpNext ==
    \/ \E m \in AwardedMatches :
        \/ Reopen(m)
        \/ \E r \in GameReplays : ImportMap(m, r)
    \/ \E p \in Leaving : DeletePlayer(p)
    \/ \E b \in Backfills :
        \/ ListCompleted(b)
        \/ OpenSeries(b)
        \/ DecideSeries(b)
        \/ WriteAward(b)

MvpSpec == MvpInit /\ [][MvpNext]_mvpVars

-----------------------------------------------------------------------------

MvpTypeOK ==
    /\ \A m \in AwardedMatches :
        /\ Len(maps[m]) <= SeriesFormat[m]
        /\ award[m].player \in Int /\ award[m].score \in Int
    /\ matchState \in [AwardedMatches -> {"open", "completed"}]
    /\ lock \in [AwardedMatches -> Applying \cup {NotHeld}]
    /\ todo \in [Backfills -> SUBSET AwardedMatches]
    /\ stage \in [Backfills -> {"started", "idle", "deciding", "writing"}]

\* An award is written once: neither another backfill, nor an upload that
\* completes a reopened series, nor the deletion of the player replaces it
\* (the deletion leaves the score without a player).
AwardsAreFinal ==
    [][\A m \in AwardedMatches :
           award[m] # Unawarded =>
               /\ award'[m].score = award[m].score
               /\ award'[m].player \in {award[m].player, Deleted}]_mvpVars

\* Whoever gets an award played for the winner of a completed series in at
\* least half of its maps, and nobody who did has a better average, whatever
\* happened between the reading of the maps and the write.
AwardsAreEarned ==
    [][\A m \in AwardedMatches :
           award[m] = Unawarded /\ award'[m] # Unawarded =>
               /\ matchState'[m] = "completed"
               /\ LET ms == maps'[m]
                      p == award'[m].player
                      rivals == {q \in Played(ms) :
                          /\ 2 * Cardinality(RowsOf(ms, q)) >= Len(ms)
                          /\ \A e \in RowsOf(ms, q) :
                                 e.row.team = WinnerOf(ms)}
                  IN /\ p \in rivals
                     /\ \A q \in rivals :
                            Weighted(ms, p) * Seconds(ms, q) >=
                                Weighted(ms, q) * Seconds(ms, p)]_mvpVars
=============================================================================
