--------------------------- MODULE PlayoffBracket ---------------------------
(***************************************************************************)
(* The bracket of the playoff page: buildPlayoff() and outcome() of        *)
(* apps/web/src/site/pages/playoffs/playoff-model.ts.  The page is given   *)
(* the matches of a division in no special shape and finds the slot of     *)
(* each: a, b and u of the upper bracket, c, d and l of the lower one, the *)
(* lower final lf and the final f.                                         *)
(*                                                                         *)
(* An administrator publishes the matches as their teams become known,     *)
(* records results, with the winner or with the score only, and cancels a  *)
(* match to publish it again.  Teams may withdraw: the page leaves out     *)
(* their matches and seeds the others.  A team is its place in the         *)
(* standings.                                                              *)
(***************************************************************************)
EXTENDS Naturals, Sequences, FiniteSets, TLC

CONSTANTS
    ByScore,       \* slots whose result is entered as a score, with no winner
    Surprises,     \* bound: slots the away team may win
    MaxCancelled,  \* bound: matches cancelled
    MayWithdraw    \* bound: teams that may withdraw

NoTeamYet == 0
NoMatch == 0
Teams == 1..(6 + Cardinality(MayWithdraw))
Slots == {"a", "b", "u", "c", "d", "l", "lf", "f"}
Opening == {"a", "b"}
Sequence == [s \in Slots |->
    CASE s \in Opening -> 1 [] s \in {"u", "c", "d"} -> 2
      [] s = "l" -> 3 [] s = "lf" -> 4 [] OTHER -> 5]

VARIABLES
    published,   \* the matches, in the order of their identifiers
    withdrawn,   \* the teams that are no longer active
    reseeded     \* history variable: a seed withdrew after a match was published

playoffVars == <<published, withdrawn, reseeded>>

\* seed(): the active standings.
Active == Teams \ withdrawn
Seed(p) == CHOOSE t \in Active : Cardinality({o \in Active : o <= t}) = p

-----------------------------------------------------------------------------
(* outcome() *)

HasResult(m) == published[m].status \in {"completed", "forfeit"}
Other(m, t) == IF published[m].home = t THEN published[m].away ELSE published[m].home

WinningTeam(m) ==
    IF published[m].winner # NoTeamYet THEN published[m].winner
    ELSE IF published[m].status = "forfeit" THEN NoTeamYet
    ELSE published[m].ahead

Outcome(m, winner) ==
    IF m = NoMatch \/ ~HasResult(m) \/ WinningTeam(m) = NoTeamYet THEN NoTeamYet
    ELSE IF winner THEN WinningTeam(m) ELSE Other(m, WinningTeam(m))

-----------------------------------------------------------------------------
(* buildPlayoff() *)

Earlier(m, n) ==
    \/ published[m].sequence < published[n].sequence
    \/ published[m].sequence = published[n].sequence /\ m < n

\* The playoff matches of active teams that were not cancelled.
IsGame(m) ==
    /\ published[m].status # "cancelled"
    /\ {published[m].home, published[m].away} \subseteq Active

\* By round and identifier.
Games == SortSeq(SelectSeq([m \in DOMAIN published |-> m], IsGame), Earlier)

Has(m, t) == t # NoTeamYet /\ t \in {published[m].home, published[m].away}

\* Array.find().
Find(ms, Test(_)) ==
    LET found == SelectSeq(ms, Test) IN IF found = <<>> THEN NoMatch ELSE found[1]

IsUsed(m, slot) == m \in {slot[s] : s \in Slots}

FindPair(games, one, two, slot) ==
    Find(games, LAMBDA m : ~IsUsed(m, slot) /\ Has(m, one) /\ Has(m, two))

\* A lower match: a seed against the loser of an upper one.
FindLower(games, seed, slot) ==
    Find(games, LAMBDA m :
        ~IsUsed(m, slot) /\ Has(m, seed)
            /\ (Has(m, Outcome(slot["a"], FALSE)) \/ Has(m, Outcome(slot["b"], FALSE))))

\* The matches of the first round without the seeds that wait.
FirstRound(games) ==
    SelectSeq(games, LAMBDA m :
        /\ published[m].sequence = published[games[1]].sequence
        /\ ~Has(m, Seed(5)) /\ ~Has(m, Seed(6)))

FirstMatch(opening) ==
    LET seeded == Find(opening, LAMBDA m : Has(m, Seed(1)))
    IN IF seeded # NoMatch \/ opening = <<>> THEN seeded ELSE opening[1]

\* The match of a slot, after the slots before it.
MatchFor(s, games, slot) ==
    CASE s = "a" -> FirstMatch(FirstRound(games))
      [] s = "b" -> Find(FirstRound(games), LAMBDA m : m # slot["a"])
      [] s = "u" -> FindPair(games, Outcome(slot["a"], TRUE), Outcome(slot["b"], TRUE), slot)
      [] s = "c" -> FindLower(games, Seed(5), slot)
      [] s = "d" -> FindLower(games, Seed(6), slot)
      [] s = "l" -> FindPair(games, Outcome(slot["c"], TRUE), Outcome(slot["d"], TRUE), slot)
      [] s = "lf" -> FindPair(games, Outcome(slot["u"], FALSE), Outcome(slot["l"], TRUE), slot)
      [] s = "f" -> FindPair(games, Outcome(slot["u"], TRUE), Outcome(slot["lf"], TRUE), slot)

FillingOrder == <<"a", "b", "u", "c", "d", "l", "lf", "f">>

\* The slots are filled one after the other.
Bracket ==
    LET games == Games
        Filled[n \in 0..Len(FillingOrder)] ==
            IF n = 0 THEN [s \in Slots |-> NoMatch]
            ELSE LET slot == Filled[n - 1]
                 IN [slot EXCEPT ![FillingOrder[n]] = MatchFor(FillingOrder[n], games, slot)]
    IN Filled[Len(FillingOrder)]

-----------------------------------------------------------------------------
(* The administrator. *)

PlayoffInit == published = <<>> /\ withdrawn = {} /\ reseeded = FALSE

\* The match of a slot, as it was published for it.
MatchOf(s) ==
    LET ms == {m \in DOMAIN published :
                  published[m].slot = s /\ published[m].status # "cancelled"}
    IN IF ms = {} THEN NoMatch ELSE CHOOSE m \in ms : TRUE

Won(s) == Outcome(MatchOf(s), TRUE)
Lost(s) == Outcome(MatchOf(s), FALSE)

\* The pairings of the format, the free ones in either way.
Pairings(s) ==
    CASE s = "a" -> {<<Seed(1), Seed(3)>>, <<Seed(1), Seed(4)>>}
      [] s = "b" -> {<<Seed(2), Seed(3)>>, <<Seed(2), Seed(4)>>}
      [] s = "u" -> {<<Won("a"), Won("b")>>}
      [] s = "c" -> {<<Seed(5), Lost("a")>>, <<Seed(5), Lost("b")>>}
      [] s = "d" -> {<<Seed(6), Lost("a")>>, <<Seed(6), Lost("b")>>}
      [] s = "l" -> {<<Won("c"), Won("d")>>}
      [] s = "lf" -> {<<Lost("u"), Won("l")>>}
      [] s = "f" -> {<<Won("u"), Won("lf")>>}

\* Nobody plays two matches of a round.
FreeInRound(s, t) ==
    \A m \in DOMAIN published :
        published[m].sequence = Sequence[s] /\ published[m].status # "cancelled" =>
            ~Has(m, t)

Publish(s) ==
    /\ MatchOf(s) = NoMatch
    /\ \E p \in Pairings(s) :
        /\ {p[1], p[2]} \subseteq Active
        /\ FreeInRound(s, p[1]) /\ FreeInRound(s, p[2])
        /\ published' = Append(published,
               [slot |-> s, sequence |-> Sequence[s], home |-> p[1], away |-> p[2],
                status |-> "scheduled", winner |-> NoTeamYet, ahead |-> NoTeamYet])
    /\ UNCHANGED <<withdrawn, reseeded>>

RecordResult(m, t) ==
    /\ published[m].status = "scheduled"
    /\ t = published[m].home
           \/ (t = published[m].away /\ published[m].slot \in Surprises)
    /\ published' = [published EXCEPT ![m] =
           IF @.slot \in ByScore
           THEN [@ EXCEPT !.status = "completed", !.ahead = t]
           ELSE [@ EXCEPT !.status = "forfeit", !.winner = t]]
    /\ UNCHANGED <<withdrawn, reseeded>>

Cancel(m) ==
    /\ published[m].status = "scheduled"
    /\ Cardinality({n \in DOMAIN published : published[n].status = "cancelled"})
           < MaxCancelled
    /\ published' = [published EXCEPT ![m].status = "cancelled"]
    /\ UNCHANGED <<withdrawn, reseeded>>

\* Its role is taken away.
Withdraw(t) ==
    /\ t \in Active
    /\ withdrawn' = withdrawn \cup {t}
    /\ reseeded' = (reseeded \/ (published # <<>> /\ \E p \in 1..6 : Seed(p) = t))
    /\ UNCHANGED published

PlayoffNext ==
    \/ \E s \in Slots : Publish(s)
    \/ \E m \in DOMAIN published :
        \/ Cancel(m)
        \/ \E t \in Teams : RecordResult(m, t)
    \/ \E t \in MayWithdraw : Withdraw(t)

-----------------------------------------------------------------------------

PlayoffTypeOK ==
    /\ \A m \in DOMAIN published :
          published[m] \in [slot : Slots, sequence : 1..5, home : Teams, away : Teams,
                            status : {"scheduled", "completed", "forfeit", "cancelled"},
                            winner : Teams \cup {NoTeamYet}, ahead : Teams \cup {NoTeamYet}]
    /\ withdrawn \subseteq Teams /\ reseeded \in BOOLEAN

\* Where a match belongs on the page.  The first match of the upper bracket that
\* is published takes the first place until that of the first seed is.
PlaceOf(s) ==
    IF MatchOf("a") # NoMatch THEN MatchOf(s)
    ELSE CASE s = "a" -> MatchOf("b") [] s = "b" -> NoMatch [] OTHER -> MatchOf(s)

\* The page shows every match in its place, also when the two teams meet again in
\* a later round, and whatever order the matches were published and decided in,
\* unless a seed withdrew after the first was published; even then it shows no
\* match twice and none of a team that withdrew (playoff-model.ts:26-97).
BracketShowsEveryMatch ==
    LET shown == Bracket
    IN /\ ~ reseeded => \A s \in Slots : shown[s] = PlaceOf(s)
       /\ \A s, o \in Slots :
            shown[s] # NoMatch => IsGame(shown[s]) /\ (shown[s] = shown[o] => s = o)
=============================================================================
