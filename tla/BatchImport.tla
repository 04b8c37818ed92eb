---------------------------- MODULE BatchImport ----------------------------
(***************************************************************************)
(* The import of a batch of replays into the competition                   *)
(* (executeBatchInsert() and findMatchForTeams() of                        *)
(* apps/api/src/modules/rofl-upload/persistence/                           *)
(* postgres-rofl-upload.repository.ts): several uploads at once, each one  *)
(* a READ COMMITTED transaction of PostgreSQL.                             *)
(*                                                                         *)
(* Every query of a transaction is a step, except that what follows the    *)
(* row lock of a match is one step with it: nobody else touches a locked   *)
(* match or its games.  A statement that waits (a row lock, a unique key   *)
(* written by an open transaction) is a step that is not enabled yet.      *)
(*                                                                         *)
(* Games are numbered in the order of their externalGameId.  The players,  *)
(* the roster rules and the statistics only decide whether a game finds    *)
(* its two teams: a game that breaks a rule has no fixture.                *)
(***************************************************************************)
EXTENDS Naturals, Sequences, FiniteSets, FiniteSetsExt

CONSTANTS
    Uploads,  \* executions of executeBatchInsert()
    Games,    \* replays, by externalGameId: a set of numbers
    Matches,  \* rows of matches
    Batches,  \* the assignments of batches to uploads to consider
    Fixture,  \* of a game: the matches between its two teams
    Closest,  \* of a game: the match of its league week nearest to its date, or
              \* NoMatch when there is none or the replay carries no date
    Winner,   \* of a game: the side of its match (1 or 2) that won it
    Needed,   \* of a match: floor(bestOf / 2) + 1
    NoMatch, NoUpload

ASSUME ImportAssumption ==
    /\ Games \subseteq Nat \ {0} /\ IsFiniteSet(Games)
    /\ NoMatch \notin Matches /\ NoUpload \notin Uploads
    /\ \A b \in Batches : b \in [Uploads -> Seq(Games)]
    /\ Fixture \in [Games -> SUBSET Matches]
    /\ Closest \in [Games -> Matches \cup {NoMatch}]
    /\ \A g \in Games : Closest[g] \in Fixture[g] \cup {NoMatch}
    /\ Winner \in [Games -> {1, 2}]
    /\ Needed \in [Matches -> {1, 2, 3}]

VARIABLES
    row,     \* committed matches: status, score of either side, winner
    place,   \* committed match_games: the match and number of each game
    owner,   \* the transaction that holds the row lock of each match
    pc,      \* the next statement of each upload, or how it ended
    tx,      \* the local variables and uncommitted writes of each upload
    batch    \* the games of each upload, sorted; a game may come twice

vars == <<row, place, owner, pc, tx, batch>>

Sides == {1, 2}
Open == {"scheduled", "live"}
Ended == {"done", "rejected", "failed"}
Active == {"next", "search", "recheck", "lock", "insert"}
Nowhere == [match |-> NoMatch, number |-> 0]
ZeroScore == [s \in Sides |-> 0]

Fresh == [rest |-> <<>>, known |-> {}, target |-> NoMatch, tracked |-> {},
          score |-> [m \in Matches |-> ZeroScore], last |-> [m \in Matches |-> 0],
          draft |-> [g \in Games |-> Nowhere], skipped |-> {}]

Init ==
    /\ row \in [Matches -> {[status |-> s, score |-> ZeroScore, winner |-> 0] :
                              s \in {"scheduled", "forfeit"}}]
    /\ place = [g \in Games |-> Nowhere]
    /\ owner = [m \in Matches |-> NoUpload]
    /\ pc = [u \in Uploads |-> "idle"]
    /\ tx = [u \in Uploads |-> Fresh]
    /\ batch \in Batches

Game(u) == Head(tx[u].rest)
Registered(g) == place[g] # Nowhere
GamesOf(m, where) == {g \in Games : where[g].match = m}

Goto(u, label) == pc' = [pc EXCEPT ![u] = label]

\* Mutant: the connection goes back to the pool with its transaction open.
ReleaseForgotten(u) == UNCHANGED owner

\* The transaction ends: its locks are released.
Release(u) == owner' = [m \in Matches |-> IF owner[m] = u THEN NoUpload ELSE owner[m]]

\* Nothing of a transaction that is rolled back remains.
Rollback(u, how) ==
    /\ Goto(u, how)
    /\ Release(u)
    /\ tx' = [tx EXCEPT ![u] = Fresh]
    /\ UNCHANGED <<row, place>>

\* The game is reported as a duplicate.
SkipGame(u) ==
    /\ tx' = [tx EXCEPT ![u].rest = Tail(@), ![u].skipped = @ \cup {Game(u)},
                        ![u].known = @ \cup {Game(u)}]
    /\ Goto(u, "next")

-----------------------------------------------------------------------------
\* The identifiers already registered are read inside the transaction.
Begin(u) ==
    /\ pc[u] = "idle"
    /\ tx' = [tx EXCEPT ![u].rest = batch[u], ![u].known = {g \in Games : Registered(g)}]
    /\ Goto(u, "next")
    /\ UNCHANGED <<row, place, owner>>

SkipKnown(u) ==
    /\ pc[u] = "next" /\ tx[u].rest # <<>> /\ Game(u) \in tx[u].known
    /\ SkipGame(u)
    /\ UNCHANGED <<row, place, owner>>

\* The match is locked once per transaction.
Choose(u, m) ==
    /\ tx' = [tx EXCEPT ![u].target = m]
    /\ Goto(u, IF m \in tx[u].tracked THEN "insert" ELSE "lock")

\* findMatchForTeams(): any open match between the teams.
FindOpen(u) ==
    /\ pc[u] = "next" /\ tx[u].rest # <<>> /\ Game(u) \notin tx[u].known
    /\ \E m \in Fixture[Game(u)] : row[m].status \in Open /\ Choose(u, m)
    /\ UNCHANGED <<row, place, owner>>

FindNoneOpen(u) ==
    /\ pc[u] = "next" /\ tx[u].rest # <<>> /\ Game(u) \notin tx[u].known
    /\ \A m \in Fixture[Game(u)] : row[m].status \notin Open
    /\ Goto(u, "search")
    /\ UNCHANGED <<row, place, owner, tx>>

\* findMatchForTeams(): else the closest match of the league week, if any.
SearchWeek(u) ==
    /\ pc[u] = "search" /\ Closest[Game(u)] # NoMatch
    /\ IF row[Closest[Game(u)]].status = "completed"
       THEN Goto(u, "recheck") /\ UNCHANGED tx
       ELSE Choose(u, Closest[Game(u)])
    /\ UNCHANGED <<row, place, owner>>

SearchFails(u) ==
    /\ pc[u] = "search" /\ Closest[Game(u)] = NoMatch
    /\ Rollback(u, "rejected")

\* Mutant: a completed match always rejects the batch.
RegisteredMeanwhileForgotten(g) == FALSE

RegisteredMeanwhile(g) == Registered(g)

Recheck(u) ==
    /\ pc[u] = "recheck"
    /\ \/ RegisteredMeanwhile(Game(u)) /\ SkipGame(u) /\ UNCHANGED <<row, place, owner>>
       \/ ~RegisteredMeanwhile(Game(u)) /\ Rollback(u, "rejected")

\* Mutant: the match is read without FOR UPDATE.
LockFreeAlways(u, m) == TRUE

LockFree(u, m) == owner[m] \in {NoUpload, u}

\* Mutant: the row read before the lock is trusted.
ClosedUnchecked(m) == FALSE

Closed(m) == row[m].status = "completed"

\* Mutant: the last number is read without its match.
HighestNumberAnywhere(m) == Max({0} \cup {place[g].number : g \in Games})

HighestNumber(m) == Max({0} \cup {place[g].number : g \in GamesOf(m, place)})

\* SELECT ... FOR UPDATE on the match, then its scores and its last map number.
Lock(u) ==
    LET m == tx[u].target IN
    /\ pc[u] = "lock" /\ LockFree(u, m)
    /\ owner' = [owner EXCEPT ![m] = u]
    /\ IF Closed(m)
       THEN Goto(u, "recheck") /\ UNCHANGED tx
       ELSE /\ Goto(u, "insert")
            /\ tx' = [tx EXCEPT ![u].tracked = @ \cup {m},
                                ![u].score[m] = row[m].score,
                                ![u].last[m] = HighestNumber(m)]
    /\ UNCHANGED <<row, place>>

-----------------------------------------------------------------------------
\* Another open transaction has written the same externalGameId.
Conflicting(u, g) == {v \in Uploads \ {u} : pc[v] \in Active /\ tx[v].draft[g] # Nowhere}

\* Mutant: the conflict on externalGameId goes unnoticed.
AlreadyThereUnnoticed(g) == FALSE

AlreadyThere(g) == Registered(g)

NextNumber(u, m) == tx[u].last[m] + 1

\* INSERT ... ON CONFLICT (external_game_id) DO NOTHING, the rows of the
\* players, and the score kept in memory.
Insert(u) ==
    LET g == Game(u)
        m == tx[u].target
    IN
    /\ pc[u] = "insert" /\ Conflicting(u, g) = {}
    /\ \/ AlreadyThere(g) /\ SkipGame(u)
       \/ /\ ~AlreadyThere(g)
          /\ tx' = [tx EXCEPT ![u].rest = Tail(@), ![u].known = @ \cup {g},
                              ![u].draft[g] = [match |-> m, number |-> NextNumber(u, m)],
                              ![u].last[m] = NextNumber(u, m),
                              ![u].score[m][Winner[g]] = @ + 1]
          /\ Goto(u, "next")
    /\ UNCHANGED <<row, place, owner>>

Written(u) == [g \in Games |-> IF tx[u].draft[g] # Nowhere THEN tx[u].draft[g] ELSE place[g]]

\* Mutant: the maps keep the numbers of their insertion.
Unordered(where) == where

\* orderImportedGames(): the games of a match share out its map numbers in the
\* order of their identifiers.  MapOrder models how the rows are moved.
InOrder(where) ==
    [g \in Games |->
        LET S == GamesOf(where[g].match, where)
            rank == Cardinality({h \in S : h < g})
        IN  IF where[g] = Nowhere THEN Nowhere
            ELSE [match |-> where[g].match,
                  number |-> CHOOSE n \in {where[h].number : h \in S} :
                      /\ Cardinality({h \in S : where[h].number < n}) <= rank
                      /\ Cardinality({h \in S : where[h].number <= n}) > rank]]

Reaches(score, m, s) == score[s] >= Needed[m]

\* The series as the last statements of the transaction leave it.
Scored(score, m) ==
    [status |-> IF \E s \in Sides : Reaches(score, m, s) THEN "completed" ELSE "live",
     score  |-> score,
     winner |-> IF Reaches(score, m, 1) THEN 1 ELSE IF Reaches(score, m, 2) THEN 2 ELSE 0]

Commit(u) ==
    /\ pc[u] = "next" /\ tx[u].rest = <<>>
    /\ row' = [m \in Matches |->
                 IF m \in tx[u].tracked THEN Scored(tx[u].score[m], m) ELSE row[m]]
    /\ place' = InOrder(Written(u))
    /\ Release(u)
    /\ Goto(u, "done")
    /\ UNCHANGED tx

\* sealMatchMvp(): a completed series without an eligible MVP.
NoMvp(u) ==
    /\ pc[u] = "next" /\ tx[u].rest = <<>>
    /\ \E m \in tx[u].tracked : Scored(tx[u].score[m], m).status = "completed"
    /\ Rollback(u, "rejected")

\* The database or the process fails.
Fail(u) == pc[u] \in Active /\ Rollback(u, "failed")

\* PostgreSQL breaks a deadlock: it rolls back a transaction of a cycle of waits.
WaitsFor(u) ==
    CASE pc[u] = "lock"   -> {owner[tx[u].target]} \ {NoUpload, u}
      [] pc[u] = "insert" -> Conflicting(u, Game(u))
      [] OTHER            -> {}

Deadlocked(S) ==
    /\ S # {}
    /\ \A u \in S : (\E v \in S : v \in WaitsFor(u)) /\ (\E v \in S : u \in WaitsFor(v))

Victim(u) ==
    /\ \E S \in SUBSET Uploads : u \in S /\ Deadlocked(S)
    /\ Rollback(u, "failed")

Statement(u) ==
    \/ Begin(u)
    \/ SkipKnown(u) \/ FindOpen(u) \/ FindNoneOpen(u)
    \/ SearchWeek(u) \/ SearchFails(u)
    \/ Recheck(u) \/ Lock(u) \/ Insert(u)
    \/ Commit(u) \/ NoMvp(u)
    \/ Victim(u)

Next == \E u \in Uploads : (Statement(u) \/ Fail(u)) /\ UNCHANGED batch

Spec == Init /\ [][Next]_vars

\* Queries are answered, released locks are handed on, deadlocks are detected.
Fairness == \A u \in Uploads : WF_vars(Statement(u) /\ UNCHANGED batch)

FairSpec == Spec /\ Fairness

-----------------------------------------------------------------------------
(* Properties.                                                             *)

\* A map number is at most the number of games the match can receive.
Places == {Nowhere} \cup
    UNION {[match : {m}, number : 1..Cardinality({g \in Games : m \in Fixture[g]})] : m \in Matches}

Scores == [Sides -> 0..Cardinality(Games)]

TypeOK ==
    /\ row \in [Matches -> [status : Open \cup {"completed", "forfeit"},
                            score : Scores, winner : {0, 1, 2}]]
    /\ place \in [Games -> Places]
    /\ owner \in [Matches -> Uploads \cup {NoUpload}]
    /\ pc \in [Uploads -> {"idle"} \cup Active \cup Ended]
    /\ \A u \in Uploads :
        /\ tx[u].rest \in Seq(Games) /\ tx[u].known \in SUBSET Games
        /\ tx[u].target \in Matches \cup {NoMatch} /\ tx[u].tracked \in SUBSET Matches
        /\ tx[u].score \in [Matches -> Scores] /\ tx[u].last \in [Matches -> 0..Cardinality(Games)]
        /\ tx[u].draft \in [Games -> Places] /\ tx[u].skipped \in SUBSET Games

\* docs/api/rofl-upload/README.md: uploads at the same time never give two games
\* of a series the same map number, and the numbers leave no gap.
NumbersAreConsecutive ==
    \A m \in Matches :
        {place[g].number : g \in GamesOf(m, place)} = 1..Cardinality(GamesOf(m, place))

\* Nor do they put the score of a series out of step with its games: every game
\* counts once, for the side that won it.
ScoresCountGames ==
    \A m \in Matches, s \in Sides :
        row[m].score[s] = Cardinality({g \in GamesOf(m, place) : Winner[g] = s})

\* Whatever the uploads and their order, the maps of a series are numbered in the
\* order of their replays.
MapsFollowReplays ==
    \A g, h \in Games :
        Registered(g) /\ Registered(h) /\ place[g].match = place[h].match /\ g < h =>
            place[g].number < place[h].number

\* A successful upload has registered its whole batch: a game it reports as a
\* duplicate was committed by someone else, and no other upload claims its games.
SuccessIsComplete ==
    \A u \in Uploads : pc[u] = "done" =>
        \A i \in DOMAIN batch[u] :
            LET g == batch[u][i] IN
            /\ Registered(g)
            /\ g \in tx[u].skipped \/ tx[u].draft[g] # Nowhere
            /\ tx[u].draft[g] # Nowhere =>
                 \A v \in Uploads \ {u} : pc[v] = "done" => tx[v].draft[g] = Nowhere

\* A completed series is closed to imports that were already on their way: its
\* result, its score and its maps never change again.
CompletedIsFinal ==
    [][\A m \in Matches : row[m].status = "completed" =>
         /\ row'[m] = row[m]
         /\ \A g \in Games : place[g].match = m \/ place'[g].match = m => place'[g] = place[g]]_vars

\* Upload u is rejected for a game that another upload has registered by now.
RejectedForDuplicate(u) ==
    /\ pc[u] \in Active /\ pc'[u] = "rejected"
    /\ tx[u].rest # <<>> /\ Registered(Game(u))

\* An upload is never rejected for a game that another upload has registered in
\* the meantime, if the date of the game leads to a match.
DatedDuplicatesNeverReject ==
    [][\A u \in Uploads : RejectedForDuplicate(u) => Closest[Game(u)] = NoMatch]_vars

\* docs/api/rofl-upload/persistence.md (4.2) promises it of every game.
AnyDuplicateNeverRejects == [][\A u \in Uploads : ~RejectedForDuplicate(u)]_vars

\* Locks, unique keys and deadlocks included, every upload comes to an end.
EveryUploadEnds == \A u \in Uploads : <>(pc[u] \in Ended)
=============================================================================
