-------------------------- MODULE MatchPredictions --------------------------
(***************************************************************************)
(* The votes on matches: predictions.repository.ts, prediction-policy.ts   *)
(* and predictions.router.ts, next to the writers of the rows they rely on: *)
(* an administrator who edits a match or a team (mutate() of               *)
(* postgres-crud-operations.repository.ts) and the import of replays.      *)
(*                                                                         *)
(* A step is a statement of a transaction.  SELECT ... FOR UPDATE takes    *)
(* rowLock; the FOR SHARE locks on the two teams last from CheckVote to    *)
(* WriteVote.  The unit of time is the hour.                               *)
(***************************************************************************)
EXTENDS Integers, FiniteSets, FiniteSetsExt

CONSTANTS Voters, Editors, Matches, Teams,
          Calendar,    \* the matches as first published
          Rounds,      \* the rounds of the division: their start, or Never
          BestOf,      \* format of every series
          WeekLength,  \* hours of a league week
          Horizon      \* bound on the clock

Never == -1
NoTeam == "none"
NoScore == <<Never, Never>>
NoPick == [team |-> NoTeam, score |-> NoScore]
Free == "free"
Wins == (BestOf \div 2) + 1

Statuses == {"scheduled", "live", "completed", "cancelled", "forfeit"}
Scores == {<<0, 0>>} \cup {s \in (0..Wins) \X (0..Wins) : (s[1] = Wins) # (s[2] = Wins)}
Match == [status: Statuses, at: (0..Horizon) \cup {Never}, home: Teams, away: Teams,
          score: Scores, winner: Teams \cup {NoTeam}]
\* A pick names a team and perhaps the score of the series.
Pick == [team: Teams, score: Scores \cup {NoScore}]

ASSUME PredictionsAssumption ==
  /\ BestOf \in {1, 3, 5} /\ WeekLength \in Nat \ {0} /\ Horizon \in Nat
  /\ Calendar \in [Matches -> Match]
  /\ Voters \cap Editors = {} /\ Free \notin Voters \cup Editors

VARIABLES clock, match, active, votes, voting, editing, rowLock

predictionVars == <<clock, match, active, votes, voting, editing, rowLock>>

Idle == [phase |-> "idle"]

PredictionsInit ==
  /\ clock = 0
  /\ match = Calendar
  /\ active = Teams
  /\ votes = [vm \in Voters \X Matches |-> NoPick]
  /\ voting = [v \in Voters |-> Idle]
  /\ editing = [e \in Editors |-> Idle]
  /\ rowLock = [m \in Matches |-> Free]

(***************************************************************************)
(* prediction-policy.ts.                                                   *)
(***************************************************************************)
LeagueWeek(t) == t \div WeekLength

Closed(m, now) == m.at # Never /\ (now + 1 >= m.at \/ m.status # "scheduled")

WindowOpen(m, now) ==
  /\ m.at # Never
  /\ LeagueWeek(m.at) = LeagueWeek(now)
  /\ m.status = "scheduled"
  /\ ~Closed(m, now)

Points(correct, exact) == IF correct THEN IF exact THEN 3 ELSE 1 ELSE 0

\* currentRoundId(): the rounds are visited in the order the database returns
\* them, and one replaces the best so far when it starts later, or at the same
\* time with a larger number.
Later(id, best) ==
  \/ best = Never
  \/ Rounds[id] > Rounds[best]
  \/ Rounds[id] = Rounds[best] /\ id > best

CurrentRound(now) ==
  LET Visit(id, best) ==
        IF Rounds[id] # Never /\ LeagueWeek(Rounds[id]) <= LeagueWeek(now) /\ Later(id, best)
          THEN id ELSE best
  IN FoldSet(Visit, Never, DOMAIN Rounds)

(***************************************************************************)
(* save().                                                                 *)
(***************************************************************************)
Unlock(m) == rowLock' = [rowLock EXCEPT ![m] = Free]

\* Mutant: no FOR UPDATE.
MatchFreeAlways(m) == TRUE

\* The row of the match, FOR UPDATE.
MatchFree(m) == rowLock[m] = Free

LockForVote(v, m, p) ==
  /\ voting[v] = Idle /\ MatchFree(m)
  /\ voting' = [voting EXCEPT ![v] = [phase |-> "locked", match |-> m, pick |-> p]]
  /\ rowLock' = [rowLock EXCEPT ![m] = v]
  /\ UNCHANGED <<clock, match, active, votes, editing>>

ValidScore(m, p) ==
  p.score # NoScore =>
    LET own == IF p.team = m.home THEN p.score[1] ELSE p.score[2]
        other == IF p.team = m.home THEN p.score[2] ELSE p.score[1]
    IN own = Wins /\ other < Wins

Accepts(m, p, now) ==
  /\ {m.home, m.away} \subseteq active
  /\ WindowOpen(m, now)
  /\ p.team \in {m.home, m.away}
  /\ ValidScore(m, p)

CheckVote(v) ==
  /\ voting[v].phase = "locked"
  /\ LET m == voting[v].match IN
       IF Accepts(match[m], voting[v].pick, clock)
         THEN /\ voting' = [voting EXCEPT ![v].phase = "checked"]
              /\ UNCHANGED rowLock
         ELSE /\ voting' = [voting EXCEPT ![v] = Idle]
              /\ Unlock(m)
  /\ UNCHANGED <<clock, match, active, votes, editing>>

WriteVote(v) ==
  /\ voting[v].phase = "checked"
  /\ votes' = [votes EXCEPT ![<<v, voting[v].match>>] = voting[v].pick]
  /\ voting' = [voting EXCEPT ![v] = Idle]
  /\ Unlock(voting[v].match)
  /\ UNCHANGED <<clock, match, active, editing>>

(***************************************************************************)
(* The other writers.                                                      *)
(***************************************************************************)
\* What the service accepts of a match.
ValidResult(m) ==
  /\ m.home # m.away
  /\ m.winner \in {NoTeam, m.home, m.away}
  /\ m.status = "completed" =>
       /\ Max({m.score[1], m.score[2]}) = Wins
       /\ m.winner = IF m.score[1] > m.score[2] THEN m.home ELSE m.away
  /\ m.status = "forfeit" => m.winner # NoTeam

LockForEdit(e, m, next) ==
  /\ editing[e] = Idle /\ MatchFree(m) /\ ValidResult(next) /\ next # match[m]
  /\ editing' = [editing EXCEPT ![e] = [phase |-> "locked", match |-> m, next |-> next]]
  /\ rowLock' = [rowLock EXCEPT ![m] = e]
  /\ UNCHANGED <<clock, match, active, votes, voting>>

\* assertNoDependents(): the teams of a match with votes stay.
KeepsTeams(m, next) == match[m].home = next.home /\ match[m].away = next.away
NoVotes(m) == \A v \in Voters : votes[<<v, m>>] = NoPick
MayEdit(m, next) == KeepsTeams(m, next) \/ NoVotes(m)

CheckEdit(e) ==
  /\ editing[e].phase = "locked"
  /\ IF MayEdit(editing[e].match, editing[e].next)
       THEN /\ editing' = [editing EXCEPT ![e].phase = "checked"]
            /\ UNCHANGED rowLock
       ELSE /\ editing' = [editing EXCEPT ![e] = Idle]
            /\ Unlock(editing[e].match)
  /\ UNCHANGED <<clock, match, active, votes, voting>>

WriteEdit(e) ==
  /\ editing[e].phase = "checked"
  /\ match' = [match EXCEPT ![editing[e].match] = editing[e].next]
  /\ editing' = [editing EXCEPT ![e] = Idle]
  /\ Unlock(editing[e].match)
  /\ UNCHANGED <<clock, active, votes, voting>>

\* A team gets or loses its Discord role; the update waits for FOR SHARE locks.
Shared(t) == \E v \in Voters : /\ voting[v].phase = "checked"
                               /\ t \in {match[voting[v].match].home, match[voting[v].match].away}

EditTeam(t) ==
  /\ ~Shared(t)
  /\ active' = IF t \in active THEN active \ {t} ELSE active \cup {t}
  /\ UNCHANGED <<clock, match, votes, voting, editing, rowLock>>

\* The import completes the series under the same row lock.
ImportSeries(m, score) ==
  /\ MatchFree(m) /\ match[m].status \in {"scheduled", "live"} /\ score # <<0, 0>>
  /\ match' = [match EXCEPT ![m].status = "completed", ![m].score = score,
                            ![m].winner = IF score[1] > score[2] THEN match[m].home
                                                                 ELSE match[m].away]
  /\ UNCHANGED <<clock, active, votes, voting, editing, rowLock>>

Tick == /\ clock < Horizon
        /\ clock' = clock + 1
        /\ UNCHANGED <<match, active, votes, voting, editing, rowLock>>

PredictionsNext(Picks, Edits) ==
  \/ \E v \in Voters : \/ \E m \in Matches, p \in Picks : LockForVote(v, m, p)
                       \/ CheckVote(v) \/ WriteVote(v)
  \/ \E e \in Editors : \/ \E m \in Matches, n \in Edits : LockForEdit(e, m, n)
                        \/ CheckEdit(e) \/ WriteEdit(e)
  \/ \E t \in Teams : EditTeam(t)
  \/ \E m \in Matches, s \in Scores : ImportSeries(m, s)
  \/ Tick

PredictionsSpec == PredictionsInit /\ [][PredictionsNext(Pick, Match)]_predictionVars

(***************************************************************************)
(* overview(): the ranking is computed from four counts per user.          *)
(***************************************************************************)
Decided(m) == match[m].status \in {"completed", "forfeit"} /\ match[m].winner # NoTeam
Judged(v) == {m \in Matches : votes[<<v, m>>] # NoPick /\ Decided(m)}
Correct(v, m) == votes[<<v, m>>].team = match[m].winner
\* A pick without a score is never exact: NULL comparisons are not true.
Exact(v, m) == votes[<<v, m>>].score = match[m].score

RankingPoints(v) ==
  LET total == Cardinality(Judged(v))
      correct == Cardinality({m \in Judged(v) : Correct(v, m)})
      correctExact == Cardinality({m \in Judged(v) : Correct(v, m) /\ Exact(v, m)})
      wrongExact == Cardinality({m \in Judged(v) : ~Correct(v, m) /\ Exact(v, m)})
  IN correctExact * Points(TRUE, TRUE)
       + (correct - correctExact) * Points(TRUE, FALSE)
       + wrongExact * Points(FALSE, TRUE)
       + (total - correct - wrongExact) * Points(FALSE, FALSE)

(***************************************************************************)
(* Properties.                                                             *)
(***************************************************************************)
PredictionsTypeOK ==
  /\ clock \in 0..Horizon /\ match \in [Matches -> Match] /\ active \subseteq Teams
  /\ votes \in [Voters \X Matches -> Pick \cup {NoPick}]
  /\ voting \in [Voters -> {Idle} \cup
       [phase: {"locked", "checked"}, match: Matches, pick: Pick]]
  /\ editing \in [Editors -> {Idle} \cup
       [phase: {"locked", "checked"}, match: Matches, next: Match]]
  /\ rowLock \in [Matches -> {Free} \cup Voters \cup Editors]

\* A vote names a team that plays its match, though matches are edited while
\* votes are saved (mutate() refuses to change the teams of a match with votes).
VotesNamePlayers ==
  \A v \in Voters, m \in Matches :
    votes[<<v, m>>] # NoPick => votes[<<v, m>>].team \in {match[m].home, match[m].away}

\* No vote is written once the match is no longer scheduled or one of its teams
\* is inactive, whatever happened since the request was read (save()).
VotesWhileOpen ==
  [][\A v \in Voters, m \in Matches :
       votes'[<<v, m>>] # votes[<<v, m>>] =>
         match[m].status = "scheduled" /\ {match[m].home, match[m].away} \subseteq active]_votes

\* Votes are written only while they are open, and they name a team of their
\* match however it is edited (predictions.repository.ts).
VotesStand == VotesWhileOpen /\ []VotesNamePlayers

\* The points that overview() derives from its four counts are those of the
\* single votes, and the current round is the last one whose week has begun.
OverviewIsRight ==
  /\ \A v \in Voters :
       RankingPoints(v) =
         MapThenSumSet(LAMBDA m : Points(Correct(v, m), Exact(v, m)), Judged(v))
  /\ LET begun == {id \in DOMAIN Rounds :
                     Rounds[id] # Never /\ LeagueWeek(Rounds[id]) <= LeagueWeek(clock)}
     IN CurrentRound(clock) =
          IF begun = {} THEN Never
          ELSE Max({id \in begun : \A o \in begun : Rounds[o] <= Rounds[id]})
=============================================================================
