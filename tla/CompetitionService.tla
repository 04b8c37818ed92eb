------------------------- MODULE CompetitionService -------------------------
(***************************************************************************)
(* What competition.service.ts computes at every request: the tables of a  *)
(* division, the featured lineup of a team and the public references of    *)
(* teams, players and series.                                              *)
(***************************************************************************)
EXTENDS Integers, Sequences, FiniteSets, FiniteSetsExt, SequencesExt, Functions

-----------------------------------------------------------------------------
(***************************************************************************)
(* The tables of a division, computed at every request from its matches:   *)
(* standings() and calculateStandings() of competition.service.ts with the *)
(* teams(), rounds() and matches() of postgres-competition.repository.ts,  *)
(* and calculateChampionStats() of champion-stats.ts over championPicks(). *)
(* The matches change under the tables: imports add maps, administrators   *)
(* record forfeits and results, reopen series and change their round.      *)
(* Names are numbers in their order.                                       *)
(***************************************************************************)
CONSTANTS
    Division,   \* of the division, by name
    Fixtures,   \* match -> <<home, away>>; a team may be of another division
    StageOf,    \* round -> its stage; NoRound is in none
    NoRound,
    Champions,  \* champions the maps are played with, by name
    TableFormat

VARIABLES
    playedMaps, \* match -> its maps: [winner, home, away], the champions
    result,     \* match -> "scheduled", "completed" or "forfeit"
    winner,     \* match -> winnerTeamId or Nobody
    round       \* match -> idRound

tableVars == <<playedMaps, result, winner, round>>

NoWinner == 0
MatchIds == DOMAIN Fixtures
Home(m) == Fixtures[m][1]
Away(m) == Fixtures[m][2]
MapsOf(m, t) ==
    Cardinality({i \in DOMAIN playedMaps[m] : playedMaps[m][i].winner = t})

TablesInit ==
    /\ playedMaps = [m \in MatchIds |-> <<>>]
    /\ result = [m \in MatchIds |-> "scheduled"]
    /\ winner = [m \in MatchIds |-> NoWinner]
    /\ round \in [MatchIds -> DOMAIN StageOf]

\* An import adds a map, and the series ends with the deciding one.
PlayMap(m, t, h, a) ==
    LET decided == MapsOf(m, t) + 1 = (TableFormat \div 2) + 1
    IN /\ result[m] = "scheduled"
       /\ t \in {Home(m), Away(m)}
       /\ playedMaps' = [playedMaps EXCEPT ![m] =
                       Append(@, [winner |-> t, home |-> h, away |-> a])]
       /\ result' = [result EXCEPT ![m] = IF decided THEN "completed" ELSE @]
       /\ winner' = [winner EXCEPT ![m] = IF decided THEN t ELSE @]
       /\ UNCHANGED round

\* An administrator gives the series to one side, or takes the winner away.
RecordForfeit(m, t) ==
    /\ result[m] = "scheduled"
    /\ t \in {Home(m), Away(m), NoWinner}
    /\ result' = [result EXCEPT ![m] = "forfeit"]
    /\ winner' = [winner EXCEPT ![m] = t]
    /\ UNCHANGED <<playedMaps, round>>

MoveToRound(m, r) ==
    /\ round' = [round EXCEPT ![m] = r]
    /\ UNCHANGED <<playedMaps, result, winner>>

TablesNext ==
    \E m \in MatchIds :
        \/ \E t \in {Home(m), Away(m)}, h, a \in Champions : PlayMap(m, t, h, a)
        \/ \E t \in {Home(m), Away(m), NoWinner} : RecordForfeit(m, t)
        \/ \E r \in DOMAIN StageOf : MoveToRound(m, r)

-----------------------------------------------------------------------------
(* standings() *)

\* The matches of the stage that count: closed, with a winner, between two
\* teams of the division.
Counted(stage) ==
    {m \in MatchIds :
        /\ round[m] # NoRound /\ StageOf[round[m]] = stage
        /\ result[m] \in {"completed", "forfeit"}
        /\ winner[m] # NoWinner
        /\ Home(m) \in Division /\ Away(m) \in Division}

PlayedBy(t, stage) == {m \in Counted(stage) : t \in {Home(m), Away(m)}}
Rival(m, t) == IF Home(m) = t THEN Away(m) ELSE Home(m)

Row(t, stage) ==
    LET ms == PlayedBy(t, stage)
        won == MapThenSumSet(LAMBDA m : MapsOf(m, t), ms)
        lost == MapThenSumSet(LAMBDA m : MapsOf(m, Rival(m, t)), ms)
    IN [team |-> t,
        played |-> Cardinality(ms),
        wins |-> Cardinality({m \in ms : winner[m] = t}),
        losses |-> Cardinality({m \in ms : winner[m] # t}),
        mapDifference |-> won - lost]

\* Series won, then map difference, fewer series lost and the name.
Above(a, b) ==
    \/ a.wins > b.wins
    \/ a.wins = b.wins /\ a.mapDifference > b.mapDifference
    \/ /\ a.wins = b.wins /\ a.mapDifference = b.mapDifference
       /\ a.losses < b.losses
    \/ /\ a.wins = b.wins /\ a.mapDifference = b.mapDifference
       /\ a.losses = b.losses /\ a.team < b.team

Standings(stage) ==
    SetToSortSeq({Row(t, stage) : t \in Division}, Above)

-----------------------------------------------------------------------------
(* championPicks() and calculateChampionStats() *)

ClosedMaps ==
    UNION {{<<m, i>> : i \in DOMAIN playedMaps[m]} :
              m \in {n \in MatchIds : result[n] \in {"completed", "forfeit"}}}
GameAt(g) == playedMaps[g[1]][g[2]]

ChampionRow(c) ==
    LET played == {g \in ClosedMaps : c \in {GameAt(g).home, GameAt(g).away}}
        sides(g) == (IF GameAt(g).home = c THEN {Home(g[1])} ELSE {})
                        \cup (IF GameAt(g).away = c THEN {Away(g[1])} ELSE {})
        won == {g \in played : GameAt(g).winner \in sides(g)}
    IN [champion |-> c,
        games |-> Cardinality(played),
        wins |-> Cardinality(won),
        losses |-> Cardinality(played) - Cardinality(won)]

PickedMore(a, b) ==
    a.games > b.games \/ (a.games = b.games /\ a.champion < b.champion)

ChampionTable ==
    SetToSortSeq({r \in {ChampionRow(c) : c \in Champions} : r.games > 0},
                 PickedMore)

-----------------------------------------------------------------------------

TablesTypeOK ==
    /\ \A m \in MatchIds : Len(playedMaps[m]) <= TableFormat
    /\ result \in [MatchIds -> {"scheduled", "completed", "forfeit"}]
    /\ \A m \in MatchIds : winner[m] \in {Home(m), Away(m), NoWinner}
    /\ round \in [MatchIds -> DOMAIN StageOf]

Sums(stage, F(_)) == MapThenSumSet(F, {Row(t, stage) : t \in Division})

\* The standings of a stage list every team once, every counted series is one
\* victory and one defeat, the map differences cancel out, nobody is listed
\* below a team with fewer victories, and no order of entry of the results
\* changes the order of two teams.
StandingsAddUp ==
    \A stage \in Range(StageOf) :
        LET table == Standings(stage)
        IN /\ {table[i].team : i \in DOMAIN table} = Division
           /\ Len(table) = Cardinality(Division)
           /\ Sums(stage, LAMBDA r : r.wins) = Cardinality(Counted(stage))
           /\ Sums(stage, LAMBDA r : r.losses) = Cardinality(Counted(stage))
           /\ Sums(stage, LAMBDA r : r.mapDifference) = 0
           /\ \A i, j \in DOMAIN table :
                  table[i].wins > table[j].wins => i < j

\* A map counts once for a champion picked by both sides, and then it is one
\* victory: the champions of a map are its winner's, its loser's or both.
ChampionsAddUp ==
    LET both == {g \in ClosedMaps : GameAt(g).home = GameAt(g).away}
        sum(F(_)) == MapThenSumSet(F, Range(ChampionTable))
    IN /\ sum(LAMBDA r : r.games) =
              2 * Cardinality(ClosedMaps) - Cardinality(both)
       /\ sum(LAMBDA r : r.wins) = Cardinality(ClosedMaps)

-----------------------------------------------------------------------------
(***************************************************************************)
(* The featured lineup of a team: teamDetail() of competition.service.ts,  *)
(* over the members and the maps that teamDetail() and matchGamesByMatch() *)
(* of postgres-competition.repository.ts read.  Three passes over the      *)
(* roles; one iteration of a loop is one action.  A member is registered   *)
(* with at most one role and one main account (or none: NoAccount); an     *)
(* appearance is of an account, registered or not.  Accounts are numbers,  *)
(* in the order of their identifiers.                                      *)
(***************************************************************************)
CONSTANTS
    LineupRoles, \* a sequence: top, jungle, mid, adc and support
    Accounts,
    MostGames   \* bound: maps of one account in one role

VARIABLES
    roster,     \* account -> its registered role, or Unregistered
    played,     \* account -> role -> decided maps played there
    lineup,     \* selected
    pass,       \* which of the three loops runs; 4 when they are over
    lane        \* the role of the iteration

lineupVars == <<roster, played, lineup, pass, lane>>

Unregistered == "unregistered"
Vacant == 0
RoleSet == Range(LineupRoles)

LineupInit ==
    /\ roster \in [Accounts -> RoleSet \cup {Unregistered}]
    /\ played \in [Accounts -> [RoleSet -> 0..MostGames]]
    /\ lineup = [r \in RoleSet |-> Vacant]
    /\ pass = 1
    /\ lane = 1

Role == LineupRoles[lane]
Used == Range(lineup) \ {Vacant}

\* countsByRole and rankedMembers(): who comes first in a role.
First(candidates, r) ==
    CHOOSE a \in candidates :
        \A b \in candidates :
            \/ played[a][r] > played[b][r]
            \/ played[a][r] = played[b][r] /\ a <= b

RoleMembers(r) == {a \in Accounts : roster[a] = r}
PlayedStarters(r) == {a \in RoleMembers(r) \ Used : played[a][r] > 0}
Replacements(r) == {a \in Accounts \ Used : played[a][r] > 0}
Starters(r) == RoleMembers(r) \ Used

NextLane ==
    /\ lane' = IF lane = Len(LineupRoles) THEN 1 ELSE lane + 1
    /\ pass' = IF lane = Len(LineupRoles) THEN pass + 1 ELSE pass
    /\ UNCHANGED <<roster, played>>

Select(candidates) ==
    lineup' = IF candidates = {} THEN lineup
              ELSE [lineup EXCEPT ![Role] = First(candidates, Role)]

\* Every played starter is reserved first.
ReserveStarter == pass = 1 /\ Select(PlayedStarters(Role)) /\ NextLane

\* A vacant role goes to whoever played it most and is still free.
TakeReplacement ==
    /\ pass = 2
    /\ IF lineup[Role] = Vacant THEN Select(Replacements(Role))
       ELSE UNCHANGED lineup
    /\ NextLane

\* Then to a registered starter who has not played it.
KeepStarter ==
    /\ pass = 3
    /\ IF lineup[Role] = Vacant THEN Select(Starters(Role))
       ELSE UNCHANGED lineup
    /\ NextLane

LineupNext == ReserveStarter \/ TakeReplacement \/ KeepStarter

-----------------------------------------------------------------------------

LineupTypeOK ==
    /\ lineup \in [RoleSet -> Accounts \cup {Vacant}]
    /\ pass \in 1..4
    /\ lane \in 1..Len(LineupRoles)

\* The lineup that is shown has nobody in two roles; a role whose registered
\* starter has played it is held by such a starter, whatever roles come
\* before it; and a role stays vacant only when everybody who played it, or
\* is registered for it, stands in another one.
LineupIsFair ==
    pass = 4 =>
        /\ \A r, s \in RoleSet :
               lineup[r] = lineup[s] => r = s \/ lineup[r] = Vacant
        /\ \A r \in RoleSet :
            /\ (\E a \in RoleMembers(r) : played[a][r] > 0) =>
                   lineup[r] \in {a \in RoleMembers(r) : played[a][r] > 0}
            /\ lineup[r] = Vacant =>
                   \A a \in Accounts :
                       played[a][r] > 0 \/ roster[a] = r => a \in Used

-----------------------------------------------------------------------------
(***************************************************************************)
(* The public references of teams, players and series: profileSlugs() and  *)
(* resolveProfileId() of competition/profile-slugs.ts, computed at every   *)
(* request from the whole directory, which administrators edit.            *)
(*                                                                         *)
(* A text is the sequence of its words: slugify() joins them with "-", so  *)
(* two slugs are equal when their words are.  An identifier is a number,   *)
(* in its order; words are compared only for equality.  The cut at 160     *)
(* characters is left out.                                                 *)
(***************************************************************************)
CONSTANTS
    Ids,
    Names, Contexts,  \* texts; the empty one too
    Fallback,         \* the word of an empty name
    Digest,           \* identifier -> the 8 digits of its hash, a word
    Counters,         \* the words "2", "3", ...
    Uuids             \* texts that read as an identifier

VARIABLE directory    \* identifier -> [name, context]

NameEntry == [name : Names, context : Contexts]

SlugsInit == directory = [i \in {} |-> [name |-> <<>>, context |-> <<>>]]

\* Create, rename or move a team, a player or a series.
SaveEntry(i, entry) == directory' = (i :> entry) @@ directory

RemoveEntry(i) ==
    /\ i \in DOMAIN directory
    /\ directory' = Restrict(directory, DOMAIN directory \ {i})

SlugsNext ==
    \E i \in Ids : RemoveEntry(i) \/ \E e \in NameEntry : SaveEntry(i, e)

-----------------------------------------------------------------------------

\* slugify() of the name; one that reads as an identifier gets a prefix.
Base(i) ==
    LET words == directory[i].name
        base == IF words = <<>> THEN <<Fallback>> ELSE words
    IN IF base \in Uuids THEN <<Fallback>> \o base ELSE base

SharesBase(i) == \E j \in DOMAIN directory \ {i} : Base(j) = Base(i)

\* The context only where the name alone is not enough.
Candidate(i) ==
    IF SharesBase(i) THEN Base(i) \o directory[i].context ELSE Base(i)

Reserved == {Candidate(i) : i \in DOMAIN directory}
SharesCandidate(i) ==
    \E j \in DOMAIN directory \ {i} : Candidate(j) = Candidate(i)

Taken(used, slug) == slug \in Range(used) \/ slug \in Reserved

\* The hash of the identifier, then a counter until the text is free.
Suffixed(i, used) ==
    LET hashed == Append(Candidate(i), Digest[i])
        numbered(k) == Append(hashed, Counters[k])
    IN IF ~Taken(used, hashed) THEN hashed
       ELSE numbered(CHOOSE k \in DOMAIN Counters :
                        /\ ~Taken(used, numbered(k))
                        /\ \A n \in 1..(k - 1) : Taken(used, numbered(n)))

SlugOf(i, used) ==
    IF SharesCandidate(i) \/ Candidate(i) \in Range(used)
    THEN Suffixed(i, used)
    ELSE Candidate(i)

\* The entries in the order of their identifiers.
Slugs ==
    FoldLeft(LAMBDA used, i : (i :> SlugOf(i, used)) @@ used,
             [i \in {} |-> <<>>],
             SetToSortSeq(DOMAIN directory, <))

\* A reference that reads as an identifier is taken for one.
ResolveProfileId(reference, slugs) ==
    IF reference \in Uuids THEN {}
    ELSE {i \in DOMAIN slugs : slugs[i] = reference}

-----------------------------------------------------------------------------

\* Whatever names, contexts and hashes coincide, every entry of the directory
\* has a slug, the slug leads back to that entry and to no other, and it is
\* never taken for an identifier.
SlugsResolve ==
    LET slugs == Slugs
    IN /\ DOMAIN slugs = DOMAIN directory
       /\ \A i \in DOMAIN slugs : ResolveProfileId(slugs[i], slugs) = {i}

\* A page whose name is its own keeps the short slug, so that an edit of an
\* entry with another name does not break its links.
OwnNamesStayShort ==
    \A i \in DOMAIN directory :
        (~\E j \in DOMAIN directory \ {i} : Base(i) \in {Base(j), Candidate(j)})
            => Slugs[i] = Base(i)
=============================================================================
