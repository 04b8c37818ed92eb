---------------------------- MODULE PlayerPages ----------------------------
(***************************************************************************)
(* What the site says of a player, computed at each request: the list of a *)
(* division (players() with featuredMatchMvp() and enrichPlayers()), the   *)
(* page of a player (playerDetail() of competition.service.ts over         *)
(* playerSeasonGames()), the champion on the page of a team                *)
(* (playerSeasonChampions()) and the grid of PlayersPage.tsx.              *)
(*                                                                         *)
(* A profile is an account; its memberships are those of its user.  The    *)
(* queries of one request are read together.  A map is its winner and the  *)
(* row of each profile that played it.  Rates per minute and averages are  *)
(* left out.                                                               *)
(***************************************************************************)
EXTENDS Naturals, Sequences, FiniteSets, SequencesExt, FiniteSetsExt

CONSTANTS
    Profiles,       \* numbers, in the order of their identifiers
    MainProfiles,   \* those of isMain
    HolderOf,       \* profile -> its user
    DivisionOf,     \* team -> its division
    SeasonOf,       \* division -> its season
    SeasonList,     \* the seasons, the latest first
    RoundStart,     \* round -> its startsAt, 0 for NULL
    Bouts,          \* series -> its division and its round
    Endings,        \* series -> the maps and the award it can end with
    Signings        \* the memberships an administrator may store

VARIABLES
    ending,     \* series -> its maps and its award, or Unplayed
    over,       \* the series of status completed
    finishOrder,\* the series that have a finishedAt, in its order
    members     \* the stored memberships: [user, team, role]

profileVars == <<ending, over, finishOrder, members>>

NoProfile == 0
NoClub == "no team"
NoSeason == "no season"
NoChampion == "none"
Unplayed == [maps |-> <<>>, mvp |-> NoProfile, rating |-> 0]
NotInRound == 0
Competitive(m) == m.role \notin {"coach", "staff", "partners"}
SeasonOfTeam(t) == SeasonOf[DivisionOf[t]]

ProfilesInit ==
    /\ ending = [i \in DOMAIN Bouts |-> Unplayed]
    /\ over = {}
    /\ finishOrder = <<>>
    /\ members = {}

\* The import that decides a series.
Decide(i, e) ==
    /\ ending[i] = Unplayed
    /\ ending' = [ending EXCEPT ![i] = e]
    /\ over' = over \cup {i}
    /\ finishOrder' = Append(finishOrder, i)
    /\ UNCHANGED members

\* An administrator edits the status: maps, award and finishedAt stay.
EditStatus(i) ==
    /\ ending[i] # Unplayed
    /\ over' = IF i \in over THEN over \ {i} ELSE over \cup {i}
    /\ UNCHANGED <<ending, finishOrder, members>>

\* One membership in a team, and one competitive membership in a season.
Register(m) ==
    /\ \A n \in members : n.user = m.user =>
           /\ n.team # m.team
           /\ ~ (/\ Competitive(n) /\ Competitive(m)
                 /\ SeasonOfTeam(n.team) = SeasonOfTeam(m.team))
    /\ members' = members \cup {m}
    /\ UNCHANGED <<ending, over, finishOrder>>

Unregister(m) ==
    /\ members' = members \ {m}
    /\ UNCHANGED <<ending, over, finishOrder>>

ProfilesNext ==
    \/ \E i \in DOMAIN Bouts : EditStatus(i) \/ \E e \in Endings[i] : Decide(i, e)
    \/ \E m \in Signings : Register(m)
    \/ \E m \in members : Unregister(m)

-----------------------------------------------------------------------------
(* The rows and what is made of them. *)

InDivision(d) == {i \in over : Bouts[i].division = d}
InSeason(s) == {i \in over : SeasonOf[Bouts[i].division] = s}

\* The decided maps of the series, in chronological order.
MapRows(series) ==
    LET order == SelectSeq(finishOrder, LAMBDA i : i \in series)
    IN FlattenSeq([k \in DOMAIN order |-> ending[order[k]].maps])

MapsWith(p, series) == SelectSeq(MapRows(series), LAMBDA g : p \in DOMAIN g.rows)

\* teamKillIndex(), for one map and one team.
TeamKills(g, t) ==
    MapThenSumSet(LAMBDA q : g.rows[q].kills, {q \in DOMAIN g.rows : g.rows[q].team = t})

AggregatePlayerStats(p, series) ==
    LET games == MapsWith(p, series)
        Total(Of(_)) == MapThenSumSet(Of, DOMAIN games)
    IN [games |-> Len(games),
        wins |-> Cardinality({k \in DOMAIN games : games[k].rows[p].team = games[k].winner}),
        taken |-> Total(LAMBDA k : games[k].rows[p].kills + games[k].rows[p].assists),
        teamKills |-> Total(LAMBDA k : TeamKills(games[k], games[k].rows[p].team))]

\* The latest of the champions that were played most.
MostPlayedChampion(p, series) ==
    LET games == MapsWith(p, series)
        pick == [k \in DOMAIN games |-> games[k].rows[p].champion]
        Picks(c) == Cardinality({k \in DOMAIN pick : pick[k] = c})
    IN IF games = <<>> THEN NoChampion
       ELSE pick[Max({k \in DOMAIN pick : \A l \in DOMAIN pick : Picks(pick[l]) <= Picks(pick[k])})]

AwardsTo(p, series) == {i \in series : ending[i].mvp = p}

-----------------------------------------------------------------------------
(* players(divisionId) *)

AwardedIn(d) ==
    {i \in InDivision(d) : Bouts[i].round # NotInRound /\ ending[i].mvp # NoProfile}

LaterRound(r, s) ==
    \/ RoundStart[r] > RoundStart[s]
    \/ RoundStart[r] = RoundStart[s] /\ r > s

\* The stored score has one decimal, the ranking of a tie has all.
Score(i) == ending[i].rating \div 10

\* The series whose award is featured: of the last awarded round the highest
\* score, and among equal ones compareMvpRanking().
FeaturedSeries(d) ==
    LET ofRound == {i \in AwardedIn(d) :
                      \A j \in AwardedIn(d) : ~ LaterRound(Bouts[j].round, Bouts[i].round)}
        tied == {i \in ofRound : \A j \in ofRound : Score(j) <= Score(i)}
    IN CHOOSE i \in tied : \A j \in tied \ {i} :
          \/ ending[i].rating > ending[j].rating
          \/ ending[i].rating = ending[j].rating /\ ending[i].mvp <= ending[j].mvp

FeaturedMatchMvp(d) ==
    IF AwardedIn(d) = {} THEN NoProfile ELSE ending[FeaturedSeries(d)].mvp

CompetitiveIn(p, d) ==
    {m \in members : m.user = HolderOf[p] /\ DivisionOf[m.team] = d /\ Competitive(m)}

\* enrichPlayers() and the membership of the team it shows.
ListEntry(p, d) ==
    LET series == InDivision(d)
        games == MapsWith(p, series)
        latest == IF games = <<>> THEN [team |-> NoClub, role |-> "none"]
                  ELSE Last(games).rows[p]
        shown == {m \in CompetitiveIn(p, d) : latest.team \in {NoClub, m.team}}
        Else(value, null, Of(_)) ==
            IF value # null \/ shown = {} THEN value ELSE Of(CHOOSE m \in shown : TRUE)
    IN [stats |-> AggregatePlayerStats(p, series),
        champion |-> MostPlayedChampion(p, series),
        awards |-> AwardsTo(p, series),
        featured |-> p = FeaturedMatchMvp(d),
        team |-> Else(latest.team, NoClub, LAMBDA m : m.team),
        role |-> Else(latest.role, "none", LAMBDA m : m.role)]

\* Those with maps, awards or a competitive membership; main accounts only.
DivisionPlayers(d) ==
    {p \in MainProfiles :
        LET e == ListEntry(p, d)
        IN e.stats.games > 0 \/ e.awards # {} \/ CompetitiveIn(p, d) # {}}

\* filterPlayers(): what the grid shows under a role, without a search.
FilterPlayers(d, role) ==
    {p \in DivisionPlayers(d) :
        LET e == ListEntry(p, d)
        IN IF role = "all"
           THEN e.role \notin {"none", "coach"} \/ e.stats.games > 0 \/ e.awards # {}
           ELSE e.role = role}

-----------------------------------------------------------------------------
(* playerDetail() *)

\* competitiveTeamForSeason(), inactive teams included.
RegisteredIn(p, s) ==
    {m \in members : m.user = HolderOf[p] /\ Competitive(m) /\ SeasonOfTeam(m.team) = s}

FirstSeason(Holds(_)) ==
    LET those == {k \in DOMAIN SeasonList : Holds(SeasonList[k])}
    IN IF those = {} THEN NoSeason ELSE SeasonList[Min(those)]

\* The season of the last registration; without one, the last with maps or
\* awards.
StatisticsSeason(p) ==
    LET registered == FirstSeason(LAMBDA s : RegisteredIn(p, s) # {})
    IN IF registered # NoSeason THEN registered
       ELSE FirstSeason(LAMBDA s : \/ MapsWith(p, InSeason(s)) # <<>>
                                   \/ AwardsTo(p, InSeason(s)) # {})

PlayerDetail(p) ==
    LET season == StatisticsSeason(p)
        series == InSeason(season)
        registration == RegisteredIn(p, season)
    IN [season |-> season,
        team |-> IF registration = {} THEN NoClub ELSE (CHOOSE m \in registration : TRUE).team,
        stats |-> AggregatePlayerStats(p, series),
        champion |-> MostPlayedChampion(p, series),
        awards |-> AwardsTo(p, series)]

\* playerSeasonChampions(): the champion of a member on the page of a team.
SeasonChampion(p, t) == MostPlayedChampion(p, InSeason(SeasonOfTeam(t)))

-----------------------------------------------------------------------------
(***************************************************************************)
(* Properties.                                                             *)
(***************************************************************************)
ProfilesTypeOK ==
    /\ ending \in [DOMAIN Bouts -> {Unplayed} \cup UNION {Endings[i] : i \in DOMAIN Bouts}]
    /\ over \subseteq ToSet(finishOrder)
    /\ ToSet(finishOrder) = {i \in DOMAIN Bouts : ending[i] # Unplayed}
    /\ members \subseteq Signings

\* The list of a division and the page of a player tell the same: whoever is
\* listed has a page with a season; the page of that season counts what the list
\* counts and, if the player did not play elsewhere in it, the same champion, as
\* does the page of the team; and whoever is registered or awarded there is on
\* the list and in its grid.
PlayersAgree ==
    \A p \in MainProfiles :
        LET page == PlayerDetail(p)
        IN /\ \A d \in DOMAIN SeasonOf :
                LET e == ListEntry(p, d)
                IN p \in DivisionPlayers(d) =>
                    /\ page.season # NoSeason
                    /\ p \in FilterPlayers(d, "all")
                    /\ e.team = NoClub \/ DivisionOf[e.team] = d
                    /\ e.stats.taken <= e.stats.teamKills
                    /\ page.season = SeasonOf[d] =>
                        /\ e.stats.games <= page.stats.games
                        /\ e.awards \subseteq page.awards
                        /\ e.stats.games = page.stats.games =>
                             e.stats = page.stats /\ e.champion = page.champion
           /\ page.team # NoClub =>
                /\ p \in DivisionPlayers(DivisionOf[page.team])
                /\ SeasonChampion(p, page.team) = page.champion
           /\ page.stats.games > 0 \/ page.awards # {} =>
                \E d \in DOMAIN SeasonOf : p \in DivisionPlayers(d)

\* The featured player won the best award of the last round that has any, and is
\* shown playing in that division, also when a series is reopened.
FeaturedWonTheRound ==
    \A d \in DOMAIN SeasonOf :
        LET p == FeaturedMatchMvp(d)
        IN AwardedIn(d) # {} =>
            /\ ListEntry(p, d).stats.games > 0
            /\ \E i \in AwardsTo(p, AwardedIn(d)) : \A j \in AwardedIn(d) :
                /\ ~ LaterRound(Bouts[j].round, Bouts[i].round)
                /\ Bouts[j].round = Bouts[i].round => ending[j].rating <= ending[i].rating
=============================================================================
