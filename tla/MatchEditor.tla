---------------------------- MODULE MatchEditor ----------------------------
(***************************************************************************)
(* The two editors of a match on the administration page, and the server   *)
(* below them: CrudRecordForm with its ReferenceFields over mutate() of    *)
(* the service and of the repository, then MatchMapOrderEditor over        *)
(* matchMaps() and reorderMaps().  Names, dates and scores of the form are *)
(* left out: what they may be is checked field by field.  The rounds of a  *)
(* competition stay as they are.                                           *)
(***************************************************************************)
EXTENDS Naturals, Sequences, FiniteSets, SequencesExt, Functions

CONSTANTS
    Competitions,  \* seasons_divisions
    RoundsIn,      \* competition -> the numbers of its rounds
    FirstCompetition, \* team -> its seasonDivisionId
    FirstFixture,  \* a match that is stored at first
    Movable,       \* bound: teams that may be moved to another competition
    LastMove,      \* bound: their moves
    LastFixture,   \* bound: matches
    LastEdit       \* bound: writes of matches by anybody

VARIABLES
    competitionOf, \* team -> seasonDivisionId, as committed
    fixtures,      \* the stored matches, by number
    edits,         \* writes of matches so far; the last is the newest updatedAt
    teamMoves,     \* teams moved so far, since the form was opened
    formOpened,        \* the match the form was opened with, and its version
    values,        \* of the form
    teamRows,      \* field -> the rows of its ReferenceField
    submitted      \* the request of the form

matchFormVars == <<competitionOf, fixtures, edits, teamMoves, formOpened, values,
              teamRows, submitted>>

NoValue == "null"
NoRow == 0
TeamFields == {"team1Id", "team2Id", "winnerTeamId"}
FormTeams == DOMAIN FirstCompetition

NewValues == [idSeasonDivision |-> NoValue, idRound |-> NoRow, team1Id |-> NoValue,
              team2Id |-> NoValue, winnerTeamId |-> NoValue]
\* A row: its values, its version, whether votes or maps depend on it, and,
\* for the properties, whether a team was moved while its save ran.
Stored(v, at) == [values |-> v, version |-> at, linked |-> FALSE, late |-> FALSE]

NoOptions == [phase |-> "loading", rows |-> [t \in {} |-> NoValue]]
NotSent == [phase |-> "none", checked |-> 0]

ASSUME MatchFormAssumption ==
    /\ NoValue \notin Competitions \cup FormTeams
    /\ RoundsIn \in [Competitions -> SUBSET Nat]
    /\ FirstCompetition \in [FormTeams -> Competitions] /\ Movable \subseteq FormTeams
    /\ FirstFixture \in [idSeasonDivision : Competitions, idRound : Nat,
                         team1Id : FormTeams, team2Id : FormTeams,
                         winnerTeamId : FormTeams \cup {NoValue}]
    /\ FirstFixture.idRound \in RoundsIn[FirstFixture.idSeasonDivision] \cup {NoRow}
    /\ FirstFixture.team1Id # FirstFixture.team2Id
    /\ \A t \in {FirstFixture.team1Id, FirstFixture.team2Id} :
           FirstCompetition[t] = FirstFixture.idSeasonDivision
    /\ FirstFixture.winnerTeamId \in {NoValue, FirstFixture.team1Id, FirstFixture.team2Id}
    /\ LastMove \in Nat /\ LastFixture \in Nat \ {0} /\ LastEdit \in Nat \ {0}

MatchFormInit ==
    /\ competitionOf = FirstCompetition
    /\ fixtures = <<Stored(FirstFixture, 1)>>
    /\ edits = 1
    /\ teamMoves = 0
    /\ \/ formOpened = [id |-> 0, version |-> 0] /\ values = NewValues
       \/ formOpened = [id |-> 1, version |-> 1] /\ values = FirstFixture
    /\ teamRows = [f \in TeamFields |-> NoOptions]
    /\ submitted = NotSent

FormIsOpen == formOpened.id \in 0..LastFixture
formIsClosed == [id |-> LastFixture + 1, version |-> 0]
Busy == submitted.phase # "none"

-----------------------------------------------------------------------------
(* The form. *)

\* The pages of the teams, read as one answer; a load that fails is tried again.
LoadOptions(f) ==
    /\ teamRows[f].phase = "loading"
    /\ teamRows' = [teamRows EXCEPT ![f] = [phase |-> "shown", rows |-> competitionOf]]
    /\ UNCHANGED <<competitionOf, fixtures, edits, teamMoves, formOpened, values,
                   submitted>>

\* The teams a selector offers: those of the competition, once it is chosen.
EligibleTeams(f) ==
    LET rows == teamRows[f].rows
        ofScope == {t \in DOMAIN rows :
                       values.idSeasonDivision \in {NoValue, rows[t]}}
    IN IF f = "winnerTeamId"
       THEN ofScope \cap {values.team1Id, values.team2Id}
       ELSE ofScope

\* A selector offers the value that it has, too.
Offered(f) == EligibleTeams(f) \cup {NoValue, values[f]}

\* change(): what depends on the changed value is cleared.
Change(next) ==
    /\ FormIsOpen /\ ~ Busy
    /\ values' = next
    /\ UNCHANGED <<competitionOf, fixtures, edits, teamMoves, formOpened,
                   teamRows, submitted>>

PickCompetition(c) == Change([NewValues EXCEPT !.idSeasonDivision = c])

PickTeam(f, t) ==
    /\ f # "winnerTeamId"
    /\ teamRows[f].phase = "shown"
    /\ t \in Offered(f)
    /\ Change([values EXCEPT ![f] = t, !.winnerTeamId = NoValue])

PickWinner(t) ==
    /\ teamRows["winnerTeamId"].phase = "shown"
    /\ t \in Offered("winnerTeamId")
    /\ Change([values EXCEPT !.winnerTeamId = t])

RoundsOf(c) == IF c = NoValue THEN {} ELSE RoundsIn[c]

PickRound(r) ==
    /\ r \in RoundsOf(values.idSeasonDivision) \cup {NoRow, values.idRound}
    /\ Change([values EXCEPT !.idRound = r])

IsComplete(v) == NoValue \notin {v.idSeasonDivision, v.team1Id, v.team2Id}

SubmitForm ==
    /\ FormIsOpen /\ ~ Busy
    /\ IsComplete(values)
    /\ submitted' = [submitted EXCEPT !.phase = "sent"]
    /\ UNCHANGED <<competitionOf, fixtures, edits, teamMoves, formOpened, values,
                   teamRows>>

-----------------------------------------------------------------------------
(* The server. *)

IsNew == formOpened.id = 0
StoredBefore == fixtures[formOpened.id]
Pairing(v) == <<v.idSeasonDivision, v.team1Id, v.team2Id>>

\* mutate() of the service: two teams, and the winner is one of them.
ResultIsValid(v) ==
    /\ v.team1Id # v.team2Id
    /\ v.winnerTeamId \in {NoValue, v.team1Id, v.team2Id}

VersionIsCurrent == IsNew \/ StoredBefore.version = formOpened.version

\* validateRelations(): the teams as they are now, and the dependents.
TeamsAreOfCompetition(v) ==
    {competitionOf[v.team1Id], competitionOf[v.team2Id]} = {v.idSeasonDivision}
PairingMayChange(v) ==
    IsNew \/ Pairing(v) = Pairing(StoredBefore.values) \/ ~ StoredBefore.linked

PassesChecks(v) ==
    /\ ResultIsValid(v)
    /\ VersionIsCurrent
    /\ TeamsAreOfCompetition(v)
    /\ PairingMayChange(v)

\* The row that is changed stays locked; teams are read without a lock.
CheckForm ==
    /\ submitted.phase = "sent"
    /\ submitted' = IF PassesChecks(values)
                    THEN [phase |-> "checked", checked |-> teamMoves]
                    ELSE [submitted EXCEPT !.phase = "refused"]
    /\ UNCHANGED <<competitionOf, fixtures, edits, teamMoves, formOpened, values,
                   teamRows>>

\* matches_unique_combination, in which a missing round equals no other.
IsUnique(v, id) ==
    \A i \in DOMAIN fixtures \ {id} :
        fixtures[i].values.idRound = NoRow
            \/ fixtures[i].values.idRound # v.idRound
            \/ Pairing(fixtures[i].values) # Pairing(v)

WriteForm ==
    /\ submitted.phase = "checked"
    /\ edits < LastEdit
    /\ IsNew => Len(fixtures) < LastFixture
    /\ LET written == [Stored(values, edits + 1) EXCEPT
                          !.linked = ~ IsNew /\ StoredBefore.linked,
                          !.late = submitted.checked # teamMoves]
       IN IF IsUnique(values, formOpened.id)
          THEN /\ fixtures' = IF IsNew THEN Append(fixtures, written)
                              ELSE [fixtures EXCEPT ![formOpened.id] = written]
               /\ edits' = edits + 1
               /\ submitted' = [submitted EXCEPT !.phase = "written"]
          ELSE /\ submitted' = [submitted EXCEPT !.phase = "refused"]
               /\ UNCHANGED <<fixtures, edits>>
    /\ UNCHANGED <<competitionOf, teamMoves, formOpened, values, teamRows>>

\* The form closes.
SavedArrives ==
    /\ submitted.phase = "written"
    /\ submitted' = NotSent
    /\ formOpened' = formIsClosed
    /\ values' = NewValues
    /\ teamRows' = [f \in TeamFields |-> NoOptions]
    /\ UNCHANGED <<competitionOf, fixtures, edits, teamMoves>>

\* A refusal, or an answer that is lost after the request is over: the form
\* stays as it is.
SaveFailed ==
    /\ submitted.phase \in {"sent", "refused", "written"}
    /\ submitted' = NotSent
    /\ UNCHANGED <<competitionOf, fixtures, edits, teamMoves, formOpened, values,
                   teamRows>>

-----------------------------------------------------------------------------
(* Other administrators. *)

IsLocked(id) == submitted.phase = "checked" /\ formOpened.id = id

\* A team without a match goes to another competition of its season.
MoveTeam(t, c) ==
    /\ teamMoves < LastMove
    /\ c # competitionOf[t]
    /\ \A i \in DOMAIN fixtures :
           t \notin {fixtures[i].values.team1Id, fixtures[i].values.team2Id}
    /\ competitionOf' = [competitionOf EXCEPT ![t] = c]
    /\ teamMoves' = teamMoves + 1
    /\ UNCHANGED <<fixtures, edits, formOpened, values, teamRows, submitted>>

\* An import, or another form.
OthersEdit(id) ==
    /\ edits < LastEdit
    /\ ~ IsLocked(id)
    /\ edits' = edits + 1
    /\ fixtures' = [fixtures EXCEPT ![id].version = edits + 1, ![id].linked = TRUE]
    /\ UNCHANGED <<competitionOf, teamMoves, formOpened, values, teamRows,
                   submitted>>

MatchFormNext ==
    \/ \E f \in TeamFields : LoadOptions(f)
    \/ \E c \in Competitions \cup {NoValue} : PickCompetition(c)
    \/ \E f \in TeamFields, t \in FormTeams \cup {NoValue} : PickTeam(f, t)
    \/ \E t \in FormTeams \cup {NoValue} : PickWinner(t)
    \/ \E r \in (UNION Range(RoundsIn)) \cup {NoRow} : PickRound(r)
    \/ SubmitForm \/ CheckForm \/ WriteForm \/ SavedArrives \/ SaveFailed
    \/ \E t \in Movable, c \in Competitions : MoveTeam(t, c)
    \/ \E id \in DOMAIN fixtures : OthersEdit(id)

MatchFormSpec == MatchFormInit /\ [][MatchFormNext]_matchFormVars

-----------------------------------------------------------------------------

MatchFormTypeOK ==
    /\ competitionOf \in [FormTeams -> Competitions]
    /\ values.team1Id \in FormTeams \cup {NoValue}
    /\ values.team2Id \in FormTeams \cup {NoValue}
    /\ \A f \in TeamFields : teamRows[f].phase \in {"loading", "shown"}
    /\ submitted.phase \in {"none", "sent", "checked", "refused", "written"}
    /\ Len(fixtures) <= LastFixture

\* Whatever is picked and changed in whatever order, the selectors never build
\* a form that the checks of the service or of the repository refuse: it is
\* refused only for one team twice, for a match that somebody changed or that
\* has maps or votes, or because a team was moved since the form was opened
\* (change() and eligible against mutate() and validateRelations()).
FormsAreAcceptable ==
    submitted.phase = "sent" =>
        \/ PassesChecks(values)
        \/ values.team1Id = values.team2Id
        \/ ~ VersionIsCurrent
        \/ ~ PairingMayChange(values)
        \/ teamMoves > 0

\* A stored match is between two teams of its competition, unless one of them
\* was moved between the check and the write; it has a round of its
\* competition and a winner among its teams; and no form that is sent again
\* after a lost answer stores a second match of that round.
StoredMatchesAreSound ==
    \A i \in DOMAIN fixtures :
        LET v == fixtures[i].values
        IN /\ TeamsAreOfCompetition(v) \/ fixtures[i].late
           /\ v.team1Id # v.team2Id
           /\ v.winnerTeamId \in {NoValue, v.team1Id, v.team2Id}
           /\ v.idRound \in RoundsOf(v.idSeasonDivision) \cup {NoRow}
           /\ IsUnique(v, i)

-----------------------------------------------------------------------------
(***************************************************************************)
(* MatchMapOrderEditor: the maps of the match, moved up and down and saved *)
(* over the order that was loaded.  It shares the `busy` flag of the panel *)
(* with the form.  The server's part is one step here; MapOrder models its *)
(* statements.                                                             *)
(***************************************************************************)
CONSTANTS
    MatchMaps,  \* identifiers of maps
    LastReorder \* bound: changes of the maps by anybody

ASSUME MapPageAssumption == IsFiniteSet(MatchMaps) /\ LastReorder \in Nat

VARIABLES
    mapSequence,   \* the maps of the match by their numbers, as committed
    mapChanges,    \* changes so far
    mapsShown,     \* maps, or NotLoaded
    expectedOrder,
    mapsLoad,      \* the load of the effect: [phase, maps]
    panelBusy,     \* whose request the panel waits for
    orderRequest,  \* [phase, expectedOrder, gameIds]
    orderNotice    \* whether "Orden de los mapas guardado." is shown

mapPageVars == <<mapSequence, mapChanges, mapsShown, expectedOrder, mapsLoad,
                 panelBusy, orderRequest, orderNotice>>

MapsNotLoaded == <<"not loaded">>
NoOrderRequest == [phase |-> "none", expectedOrder |-> <<>>, gameIds |-> <<>>]
MapsWanted == [phase |-> "sent", maps |-> <<>>]
MapsIdle == [phase |-> "idle", maps |-> <<>>]
Orders == UNION {SetToSeqs(M) : M \in SUBSET MatchMaps}

MapPageInit ==
    /\ mapSequence \in Orders
    /\ mapChanges = 0
    /\ mapsShown = MapsNotLoaded
    /\ expectedOrder = <<>>
    /\ mapsLoad = MapsWanted
    /\ panelBusy = "nobody"
    /\ orderRequest = NoOrderRequest
    /\ orderNotice = FALSE

\* matchMaps() answers the order of that moment.
ServerShowsMaps ==
    /\ mapsLoad.phase = "sent"
    /\ mapsLoad' = [phase |-> "answered", maps |-> mapSequence]
    /\ UNCHANGED <<mapSequence, mapChanges, mapsShown, expectedOrder,
                   panelBusy, orderRequest, orderNotice>>

MapsArrive ==
    /\ mapsLoad.phase = "answered"
    /\ mapsShown' = mapsLoad.maps
    /\ expectedOrder' = mapsLoad.maps
    /\ mapsLoad' = MapsIdle
    /\ UNCHANGED <<mapSequence, mapChanges, panelBusy, orderRequest, orderNotice>>

MapsFail ==
    /\ mapsLoad.phase # "idle"
    /\ mapsLoad' = MapsIdle
    /\ UNCHANGED <<mapSequence, mapChanges, mapsShown, expectedOrder,
                   panelBusy, orderRequest, orderNotice>>

\* Recargar orden: the effect aborts the load under way.
ReloadMaps ==
    /\ panelBusy = "nobody"
    /\ mapsLoad # MapsWanted
    /\ mapsLoad' = MapsWanted
    /\ mapsShown' = MapsNotLoaded
    /\ orderNotice' = FALSE
    /\ UNCHANGED <<mapSequence, mapChanges, expectedOrder, panelBusy, orderRequest>>

\* move(): Subir and Bajar exchange two neighbours.
MoveShown(i, j) ==
    /\ panelBusy = "nobody"
    /\ mapsShown # MapsNotLoaded
    /\ mapsShown' = [mapsShown EXCEPT ![i] = mapsShown[j], ![j] = mapsShown[i]]
    /\ orderNotice' = FALSE
    /\ UNCHANGED <<mapSequence, mapChanges, expectedOrder, mapsLoad,
                   panelBusy, orderRequest>>

Dirty ==
    mapsShown # MapsNotLoaded /\ \E i \in DOMAIN mapsShown : mapsShown[i] # expectedOrder[i]

SaveOrder ==
    /\ panelBusy = "nobody"
    /\ Dirty
    /\ panelBusy' = "order"
    /\ orderNotice' = FALSE
    /\ orderRequest' = [phase |-> "sent", expectedOrder |-> expectedOrder,
                        gameIds |-> mapsShown]
    /\ UNCHANGED <<mapSequence, mapChanges, mapsShown, expectedOrder, mapsLoad>>

\* reorderMaps() of the service and of the repository.
AcceptsOrder ==
    /\ Range(orderRequest.gameIds) = Range(orderRequest.expectedOrder)
    /\ mapSequence = orderRequest.expectedOrder

ServeOrder ==
    /\ orderRequest.phase = "sent"
    /\ mapChanges < LastReorder
    /\ IF AcceptsOrder
       THEN /\ mapSequence' = orderRequest.gameIds
            /\ mapChanges' = mapChanges + 1
            /\ orderRequest' = [orderRequest EXCEPT !.phase = "written"]
       ELSE /\ orderRequest' = [orderRequest EXCEPT !.phase = "refused"]
            /\ UNCHANGED <<mapSequence, mapChanges>>
    /\ UNCHANGED <<mapsShown, expectedOrder, mapsLoad, panelBusy, orderNotice>>

OrderSaved ==
    /\ orderRequest.phase = "written"
    /\ expectedOrder' = orderRequest.gameIds
    /\ orderNotice' = TRUE
    /\ orderRequest' = NoOrderRequest
    /\ panelBusy' = "nobody"
    /\ UNCHANGED <<mapSequence, mapChanges, mapsShown, mapsLoad>>

\* A refusal, or an answer that is lost.
OrderNotSaved ==
    /\ orderRequest.phase # "none"
    /\ orderRequest' = NoOrderRequest
    /\ panelBusy' = "nobody"
    /\ UNCHANGED <<mapSequence, mapChanges, mapsShown, expectedOrder, mapsLoad,
                   orderNotice>>

\* The form of the panel is sent and answered with a failure; with a success
\* both editors close.
FormIsSent ==
    /\ panelBusy = "nobody"
    /\ panelBusy' = "form"
    /\ UNCHANGED <<mapSequence, mapChanges, mapsShown, expectedOrder, mapsLoad,
                   orderRequest, orderNotice>>

FormFails ==
    /\ panelBusy = "form"
    /\ panelBusy' = "nobody"
    /\ UNCHANGED <<mapSequence, mapChanges, mapsShown, expectedOrder, mapsLoad,
                   orderRequest, orderNotice>>

\* An import, a deletion, or another administrator's order.
OthersChangeMaps(order) ==
    /\ mapChanges < LastReorder
    /\ order # mapSequence
    /\ mapSequence' = order
    /\ mapChanges' = mapChanges + 1
    /\ UNCHANGED <<mapsShown, expectedOrder, mapsLoad, panelBusy,
                   orderRequest, orderNotice>>

MapPageNext ==
    \/ ServerShowsMaps \/ MapsArrive \/ MapsFail \/ ReloadMaps
    \/ \E i \in 2..Cardinality(MatchMaps) :
           i <= Len(mapsShown) /\ MoveShown(i - 1, i)
    \/ SaveOrder \/ ServeOrder \/ OrderSaved \/ OrderNotSaved
    \/ FormIsSent \/ FormFails
    \/ \E order \in Orders : OthersChangeMaps(order)

MapPageSpec == MapPageInit /\ [][MapPageNext]_mapPageVars

-----------------------------------------------------------------------------

MapPageTypeOK ==
    /\ mapSequence \in Orders
    /\ mapsShown \in Orders \cup {MapsNotLoaded}
    /\ expectedOrder \in Orders
    /\ mapsLoad.phase \in {"sent", "answered", "idle"}
    /\ panelBusy \in {"nobody", "form", "order"}
    /\ orderRequest.phase \in {"none", "sent", "written", "refused"}

\* While the answer of a save is awaited the maps shown are those it sent, the
\* page holds them complete, and when it says they are saved they were, as the
\* page shows them (save() and the busy flag of the panel).
ShownOrderIsTheSaved ==
    /\ orderRequest.phase # "none" =>
           panelBusy = "order" /\ mapsShown = orderRequest.gameIds
    /\ mapsShown # MapsNotLoaded => Range(mapsShown) = Range(expectedOrder)
    /\ orderNotice => mapsShown = expectedOrder

\* The order of the page replaces exactly the order it was moved from: no map
\* is lost or brought back by a page that others have overtaken, not even when
\* a save whose answer was lost is sent again.
OrderReplacesTheLoaded ==
    [][orderRequest.phase = "sent" /\ orderRequest'.phase = "written" =>
           /\ mapSequence = expectedOrder
           /\ mapSequence' = mapsShown
           /\ Range(mapSequence') = Range(mapSequence)]_mapPageVars
=============================================================================
