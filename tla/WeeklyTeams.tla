----------------------------- MODULE WeeklyTeams -----------------------------
(***************************************************************************)
(* The quintet of every round of a division: how the server derives the    *)
(* candidates and saves a selection (PostgresHomeContentRepository), the   *)
(* editor of the web client (WeeklyTeamManager with its WeeklyRoundEditor) *)
(* and the strip of the home page (TeamOfTheWeekStrip).                    *)
(*                                                                         *)
(* A row of the statistics is [round, player, team, champion, role], and a *)
(* candidate a player with a team.  Editors may overwrite each other: a    *)
(* quintet has no version that a save compares.                            *)
(***************************************************************************)
EXTENDS Naturals, FiniteSets

CONSTANTS
    WeekRounds,    \* the rounds of the division, numbers
    WeekRows,      \* rows of the statistics that a replay may bring
    WeekRoles,     \* the positions of a quintet
    MemberOf,      \* player -> the member who plays with it
    LastQuintet,   \* bound: saves of anybody
    LastChange,    \* bound: changes of the statistics
    LastWeekVisit  \* bound: times that something is opened anew

ASSUME WeeklyAssumption ==
    /\ WeekRounds \subseteq Nat
    /\ \E last \in WeekRounds : \A r \in WeekRounds : r <= last
    /\ \A r \in WeekRows : r.round \in WeekRounds /\ r.player \in DOMAIN MemberOf
    /\ 0 \notin DOMAIN MemberOf
    /\ LastChange \in Nat /\ LastWeekVisit \in Nat

NoChoice == [player |-> 0, team |-> "none"]
PickKeys == {[player |-> r.player, team |-> r.team] : r \in WeekRows} \cup {NoChoice}
EmptyFive == [p \in WeekRoles |-> NoChoice]
NoQuintet == [number |-> 0, published |-> FALSE, players |-> EmptyFive]
NotLoaded == [phase |-> "absent"]
AskedFor == [phase |-> "sent"]
NotSavingFive == [phase |-> "idle"]

VARIABLES
    statRows,     \* the rows of the statistics
    rowChanges,   \* their changes so far
    weekly,       \* round -> its stored quintet; they are numbered
    quintets,     \* saves so far
    weekRound,    \* the round of the page, 0 when the page is left
    weekVisits,
    content,      \* the stored quintets as loaded, with the state of the load
    savedTeams,   \* round -> the quintet that this visit has saved
    candidates,   \* the rows that the candidates come from, with their load
    five,         \* the selection of the form: position -> candidate
    showAtHome,   \* the box "Publicado en la home" of the form
    loadedFive,   \* the selection and the box that the form began with, or saved last
    dirty,
    weekSave      \* the save of the form: [phase, five, published, round, number]

weeklyVars ==
    <<statRows, rowChanges, weekly, quintets, weekRound, weekVisits, content,
      savedTeams, candidates, five, showAtHome, loadedFive, dirty, weekSave>>

statistics == <<statRows, rowChanges>>
storedTeams == <<weekly, quintets>>
formVars == <<five, showAtHome, loadedFive, dirty>>
pageVars == <<weekRound, weekVisits, content, savedTeams, candidates>>

-----------------------------------------------------------------------------
(* The server. *)

\* weeklyCandidates(): a champion is known, a position may not be.
HasChampion(row) == row.champion # "unknown"
CandidatesOf(rows) ==
    {[player |-> r.player, team |-> r.team] : r \in {s \in rows : HasChampion(s)}}
PositionsOf(k, rows) ==
    {r.role : r \in {s \in rows : HasChampion(s) /\ s.player = k.player /\ s.team = k.team}}
        \cap WeekRoles
ChampionsOf(k, rows) ==
    {r.champion : r \in {s \in rows : HasChampion(s) /\ s.player = k.player /\ s.team = k.team}}
PlayedAt(p, rows) == {k \in CandidatesOf(rows) : p \in PositionsOf(k, rows)}
RoundRows(round) == {r \in statRows : r.round = round}

\* saveWeeklyTeam(): everyone played there in the round, nobody twice.
ValidFive(players, round) ==
    /\ \A p \in WeekRoles : players[p] \in PlayedAt(p, RoundRows(round))
    /\ \A p, q \in WeekRoles :
          MemberOf[players[p].player] = MemberOf[players[q].player] => p = q

Stores(round, players, published) ==
    /\ quintets' = quintets + 1
    /\ weekly' = [weekly EXCEPT ![round] =
          [number |-> quintets + 1, published |-> published, players |-> players]]

\* listWeeklyTeams() for the home page: the last round first, the champions
\* those of the statistics of now.
PublishedRounds(teams) == {r \in WeekRounds : teams[r].published}
ShownRound(teams, chosen) ==
    IF chosen \in PublishedRounds(teams) \/ PublishedRounds(teams) = {} THEN chosen
    ELSE CHOOSE r \in PublishedRounds(teams) : \A s \in PublishedRounds(teams) : s <= r
ShownChampions(teams, round) ==
    [p \in WeekRoles |-> ChampionsOf(teams[round].players[p], RoundRows(round))]

\* An import or the deletion of one; a row may leave and come back.
ChangeStatistics(r) ==
    /\ rowChanges < LastChange
    /\ rowChanges' = rowChanges + 1
    /\ statRows' = IF r \in statRows THEN statRows \ {r} ELSE statRows \cup {r}
    /\ UNCHANGED <<storedTeams, pageVars, formVars, weekSave>>

OthersSaveQuintet(round, players, published) ==
    /\ quintets < LastQuintet
    /\ ValidFive(players, round)
    /\ Stores(round, players, published)
    /\ UNCHANGED <<statistics, pageVars, formVars, weekSave>>

WeeklyInit ==
    /\ statRows = WeekRows /\ rowChanges = 0
    /\ weekly = [r \in WeekRounds |-> NoQuintet] /\ quintets = 0
    /\ weekRound = 0 /\ weekVisits = 0
    /\ content = NotLoaded
    /\ savedTeams = [r \in WeekRounds |-> NoQuintet]
    /\ candidates = NotLoaded
    /\ five = EmptyFive /\ showAtHome = FALSE /\ loadedFive = <<EmptyFive, FALSE>>
    /\ dirty = FALSE
    /\ weekSave = NotSavingFive

-----------------------------------------------------------------------------
(* The page. *)

\* The quintet that the page takes for the one of a round: its own last save
\* stands before what was loaded, whichever is newer.
CurrentTeam(round) ==
    IF savedTeams[round] # NoQuintet THEN savedTeams[round] ELSE content.teams[round]

EmptyForm ==
    /\ five' = EmptyFive /\ showAtHome' = FALSE /\ loadedFive' = <<EmptyFive, FALSE>>
    /\ dirty' = FALSE

IsEditing == candidates.phase = "loaded"
Saving == weekSave.phase \in {"sent", "saved", "refused"}

\* The page, or the division once more: the list of its quintets is read
\* again; what this visit has saved stays while the page does.
OpenDivision(round) ==
    /\ weekVisits < LastWeekVisit
    /\ ~ Saving
    /\ weekVisits' = weekVisits + 1
    /\ weekRound' = round
    /\ content' = AskedFor
    /\ candidates' = NotLoaded
    /\ EmptyForm
    /\ UNCHANGED <<statistics, storedTeams, savedTeams, weekSave>>

\* A load that fails is begun again by its button.
ServerListsTeams ==
    /\ content = AskedFor
    /\ content' = [phase |-> "answered", teams |-> weekly]
    /\ UNCHANGED <<statistics, storedTeams, weekRound, weekVisits, savedTeams,
                   candidates, formVars, weekSave>>

\* The editor of the round appears, and asks for its candidates.
ContentArrives ==
    /\ content.phase = "answered"
    /\ content' = [content EXCEPT !.phase = "loaded"]
    /\ candidates' = AskedFor
    /\ UNCHANGED <<statistics, storedTeams, weekRound, weekVisits, savedTeams,
                   formVars, weekSave>>

\* Another round: another editor.
ChangeRound(round) ==
    /\ weekVisits < LastWeekVisit
    /\ content.phase = "loaded" /\ ~ Saving
    /\ round # weekRound
    /\ weekVisits' = weekVisits + 1
    /\ weekRound' = round
    /\ candidates' = AskedFor
    /\ EmptyForm
    /\ UNCHANGED <<statistics, storedTeams, content, savedTeams, weekSave>>

\* The tab or the page: refused while it saves, unless the session ends.
LeaveWeekly ==
    /\ weekRound # 0
    /\ weekRound' = 0
    /\ content' = NotLoaded /\ candidates' = NotLoaded
    /\ savedTeams' = [r \in WeekRounds |-> NoQuintet]
    /\ EmptyForm
    /\ weekSave' = IF weekSave.phase = "sent" THEN [weekSave EXCEPT !.phase = "left"] ELSE NotSavingFive
    /\ UNCHANGED <<statistics, storedTeams, weekVisits>>

ServerListsCandidates ==
    /\ candidates = AskedFor
    /\ candidates' = [phase |-> "answered", rows |-> RoundRows(weekRound)]
    /\ UNCHANGED <<statistics, storedTeams, weekRound, weekVisits, content,
                   savedTeams, formVars, weekSave>>

\* The form begins with the quintet of the round, if there is one.
CandidatesArrive ==
    /\ candidates.phase = "answered"
    /\ candidates' = [candidates EXCEPT !.phase = "loaded"]
    /\ LET initial == CurrentTeam(weekRound) IN
         /\ five' = initial.players
         /\ showAtHome' = initial.published
         /\ loadedFive' = <<initial.players, initial.published>>
    /\ UNCHANGED <<statistics, storedTeams, weekRound, weekVisits, content,
                   savedTeams, dirty, weekSave>>

-----------------------------------------------------------------------------
(* The form. *)

\* Members whose accounts the other positions have.
TakenMembers(p) ==
    {MemberOf[five[q].player] :
        q \in {x \in WeekRoles \ {p} : five[x] \in CandidatesOf(candidates.rows)}}

\* An option of the selector, or none.
ChoosePlayer(p, k) ==
    /\ IsEditing /\ ~ Saving
    /\ k # five[p]
    /\ \/ k = NoChoice
       \/ k \in PlayedAt(p, candidates.rows) /\ MemberOf[k.player] \notin TakenMembers(p)
    /\ five' = [five EXCEPT ![p] = k]
    /\ dirty' = TRUE
    /\ UNCHANGED <<statistics, storedTeams, pageVars, showAtHome, loadedFive,
                   weekSave>>

ShowAtHome ==
    /\ IsEditing /\ ~ Saving
    /\ showAtHome' = ~ showAtHome
    /\ dirty' = TRUE
    /\ UNCHANGED <<statistics, storedTeams, pageVars, five, loadedFive,
                   weekSave>>

\* The browser asks for every selector first.
CanSubmit == \A p \in WeekRoles : five[p] \in PlayedAt(p, candidates.rows)

SubmitQuintet ==
    /\ IsEditing /\ weekSave = NotSavingFive
    /\ CanSubmit
    /\ weekSave' = [phase |-> "sent", round |-> weekRound, five |-> five,
                    published |-> showAtHome, number |-> 0]
    /\ UNCHANGED <<statistics, storedTeams, pageVars, formVars>>

ServerSavesQuintet ==
    /\ weekSave.phase \in {"sent", "left"}
    /\ IF ValidFive(weekSave.five, weekSave.round)
       THEN /\ quintets < LastQuintet
            /\ Stores(weekSave.round, weekSave.five, weekSave.published)
            /\ weekSave' = IF weekSave.phase = "left" THEN NotSavingFive
                           ELSE [weekSave EXCEPT !.phase = "saved", !.number = quintets + 1]
       ELSE /\ weekSave' = IF weekSave.phase = "left" THEN NotSavingFive
                           ELSE [weekSave EXCEPT !.phase = "refused"]
            /\ UNCHANGED storedTeams
    /\ UNCHANGED <<statistics, pageVars, formVars>>

QuintetSaved ==
    /\ weekSave.phase = "saved"
    /\ five' = weekSave.five /\ showAtHome' = weekSave.published
    /\ loadedFive' = <<weekSave.five, weekSave.published>>
    /\ dirty' = FALSE
    /\ savedTeams' = [savedTeams EXCEPT ![weekSave.round] =
          [number |-> weekSave.number, published |-> weekSave.published, players |-> weekSave.five]]
    /\ weekSave' = NotSavingFive
    /\ UNCHANGED <<statistics, storedTeams, weekRound, weekVisits, content,
                   candidates>>

\* Refused, or the answer is lost; the server may save it even so.
QuintetFails ==
    /\ Saving
    /\ \/ weekSave' = NotSavingFive
       \/ weekSave.phase = "sent" /\ weekSave' = [weekSave EXCEPT !.phase = "left"]
    /\ UNCHANGED <<statistics, storedTeams, pageVars, formVars>>

WeeklyNext ==
    \/ \E r \in WeekRows : ChangeStatistics(r)
    \/ \E r \in WeekRounds : OpenDivision(r) \/ ChangeRound(r)
    \/ \E r \in WeekRounds, players \in [WeekRoles -> PickKeys \ {NoChoice}] :
          OthersSaveQuintet(r, players, TRUE)
    \/ ServerListsTeams \/ ContentArrives \/ ServerListsCandidates \/ CandidatesArrive \/ LeaveWeekly
    \/ \E p \in WeekRoles, k \in PickKeys : ChoosePlayer(p, k)
    \/ ShowAtHome \/ SubmitQuintet \/ ServerSavesQuintet \/ QuintetSaved \/ QuintetFails

WeeklySpec == WeeklyInit /\ [][WeeklyNext]_weeklyVars

-----------------------------------------------------------------------------
(***************************************************************************)
(* Properties.                                                             *)
(***************************************************************************)
WeeklyTypeOK ==
    /\ statRows \subseteq WeekRows /\ rowChanges \in 0..LastChange
    /\ \A r \in WeekRounds : weekly[r].players \in [WeekRoles -> PickKeys]
    /\ weekRound \in WeekRounds \cup {0} /\ weekVisits \in 0..LastWeekVisit
    /\ five \in [WeekRoles -> PickKeys]
    /\ showAtHome \in BOOLEAN /\ dirty \in BOOLEAN
    /\ weekSave.phase \in {"idle", "sent", "left", "saved", "refused"}

\* What the editor lets through the server accepts, unless the statistics of
\* the round have changed since its candidates were loaded: the options of the
\* selectors and the checks of saveWeeklyTeam() agree, also for somebody with
\* two accounts and for a quintet that was loaded and edited.
EditorAndServerAgree ==
    [][weekSave.phase = "sent" /\ weekSave'.phase = "refused" =>
          candidates.rows # RoundRows(weekSave.round)]_weeklyVars

\* Changes are never dropped without the question: whenever the form differs
\* from what it began with or saved last, the page knows it.
UnsavedChangesAreKnown ==
    IsEditing /\ <<five, showAtHome>> # loadedFive => dirty

\* The home page shows a published quintet if there is one, of the chosen round
\* if that is published, and every player of it with a champion unless the
\* statistics changed.
HomeShowsPublished ==
    \A chosen \in WeekRounds :
       LET r == ShownRound(weekly, chosen) IN
         PublishedRounds(weekly) # {} =>
            /\ r \in PublishedRounds(weekly)
            /\ rowChanges = 0 => \A p \in WeekRoles : ShownChampions(weekly, r)[p] # {}
=============================================================================
