-------------------------- MODULE CrystalBallScreen --------------------------
(***************************************************************************)
(* The crystal ball page of the web client: useCrystalBall() of            *)
(* apps/web/src/features/crystal-ball/hooks/useCrystalBall.ts.  The page   *)
(* polls the campaign and the ballot, saves through mutate(), and reads    *)
(* again after saving; answers may arrive in any order, late or never.     *)
(*                                                                         *)
(* What the server holds for a page is its version; the two requests of a  *)
(* read are one.  A page is a season, a division and a user (`key`).       *)
(***************************************************************************)
EXTENDS Naturals, FiniteSets

CONSTANTS
    Pages, FirstPage,
    Saves,           \* calls of mutate() that may run at the same time
    LastVersion,     \* bound: versions of the server, of each page
    LastGeneration   \* bound: loads and saves of the page

ASSUME ScreenAssumption ==
    FirstPage \in Pages /\ LastVersion \in Nat \ {0} /\ LastGeneration \in Nat

VARIABLES
    server,      \* page -> version
    key,         \* the page on display
    snapshot,    \* [key, version]; Unread: nothing loaded
    generation,  \* generation.current
    mutation,    \* mutation.current, or None
    revision,    \* the effect has to run again
    load,        \* the load that was not aborted: [generation, version]
    timer,       \* the 15 seconds are running
    saving       \* call of mutate() -> [step, key, generation, version]

screenVars == <<server, key, snapshot, generation, mutation, revision, load,
                timer, saving>>

None == 0
Unread == 0
NotSaving(k) == [step |-> "idle", key |-> k, generation |-> None, version |-> Unread]
NoLoad == [generation |-> None, version |-> Unread]

ScreenInit ==
    /\ server = [p \in Pages |-> 1]
    /\ key = FirstPage
    /\ snapshot = [key |-> FirstPage, version |-> Unread]
    /\ generation = None
    /\ mutation = None
    /\ revision = TRUE
    /\ load = NoLoad
    /\ timer = FALSE
    /\ saving = [s \in Saves |-> NotSaving(FirstPage)]

MayAdvance == generation < LastGeneration

\* The effect of the current page: the clean-up of the last one aborts its
\* load and its timer.
RunEffect ==
    /\ revision
    /\ MayAdvance
    /\ revision' = FALSE
    /\ generation' = generation + 1
    /\ load' = [generation |-> generation + 1, version |-> Unread]
    /\ timer' = TRUE
    /\ snapshot' = IF snapshot.key = key THEN snapshot
                   ELSE [key |-> key, version |-> Unread]
    /\ UNCHANGED <<server, key, mutation, saving>>

ServerAnswersLoad ==
    /\ load.generation # None
    /\ load.version = Unread
    /\ load' = [load EXCEPT !.version = server[key]]
    /\ UNCHANGED <<server, key, snapshot, generation, mutation, revision,
                   timer, saving>>

\* Mutant: every answer is shown.
IsLatestAlways(g) == g # None

\* Only the latest generation is shown.
IsLatest(g) == generation = g

LoadArrives ==
    /\ load.version # Unread
    /\ snapshot' = IF IsLatest(load.generation)
                   THEN [key |-> key, version |-> load.version] ELSE snapshot
    /\ load' = NoLoad
    /\ UNCHANGED <<server, key, generation, mutation, revision, timer,
                   saving>>

LoadFails ==
    /\ load.generation # None
    /\ load' = NoLoad
    /\ UNCHANGED <<server, key, snapshot, generation, mutation, revision,
                   timer, saving>>

\* A timer that finds a save under way leaves the refresh to it.
TimerFires ==
    /\ timer
    /\ timer' = FALSE
    /\ revision' = (revision \/ mutation = None)
    /\ UNCHANGED <<server, key, snapshot, generation, mutation, load, saving>>

Retry ==
    /\ revision' = TRUE
    /\ UNCHANGED <<server, key, snapshot, generation, mutation, load, timer,
                   saving>>

\* Another season, division or user: the effect has other dependencies, and
\* its clean-up runs before anything else can.
OpenPage(p) ==
    /\ p # key
    /\ key' = p
    /\ revision' = TRUE
    /\ load' = NoLoad
    /\ timer' = FALSE
    /\ UNCHANGED <<server, snapshot, generation, mutation, saving>>

\* mutate() until its PUT.
Mutate(s) ==
    /\ saving[s].step = "idle"
    /\ MayAdvance
    /\ generation' = generation + 1
    /\ mutation' = generation + 1
    /\ saving' = [saving EXCEPT ![s] = [step |-> "put", key |-> key,
                      generation |-> generation + 1, version |-> Unread]]
    /\ UNCHANGED <<server, key, snapshot, revision, load, timer>>

ServerSaves(s) ==
    /\ saving[s].step = "put"
    /\ server[saving[s].key] < LastVersion
    /\ server' = [server EXCEPT ![saving[s].key] = @ + 1]
    /\ saving' = [saving EXCEPT ![s].step = "reread"]
    /\ UNCHANGED <<key, snapshot, generation, mutation, revision, load,
                   timer>>

ServerAnswersSave(s) ==
    /\ saving[s].step = "reread"
    /\ saving' = [saving EXCEPT ![s].step = "answered",
                                ![s].version = server[saving[s].key]]
    /\ UNCHANGED <<server, key, snapshot, generation, mutation, revision,
                   load, timer>>

\* The finally block.
Finish(s) ==
    /\ saving' = [saving EXCEPT ![s] = NotSaving(key)]
    /\ mutation' = IF mutation = saving[s].generation THEN None ELSE mutation
    /\ revision' = TRUE

SaveArrives(s) ==
    /\ saving[s].step = "answered"
    /\ snapshot' = IF /\ snapshot.key = saving[s].key
                      /\ IsLatest(saving[s].generation)
                   THEN [key |-> snapshot.key, version |-> saving[s].version]
                   ELSE snapshot
    /\ Finish(s)
    /\ UNCHANGED <<server, key, generation, load, timer>>

\* Refused, or the answer never comes.
SaveFails(s) ==
    /\ saving[s].step # "idle"
    /\ Finish(s)
    /\ UNCHANGED <<server, key, snapshot, generation, load, timer>>

\* Another browser saves, or an administrator publishes.
ServerChanges(p) ==
    /\ server[p] < LastVersion
    /\ server' = [server EXCEPT ![p] = @ + 1]
    /\ UNCHANGED <<key, snapshot, generation, mutation, revision, load, timer,
                   saving>>

ScreenNext ==
    \/ RunEffect \/ ServerAnswersLoad \/ LoadArrives \/ LoadFails
    \/ TimerFires \/ Retry
    \/ \E p \in Pages : OpenPage(p) \/ ServerChanges(p)
    \/ \E s \in Saves :
        \/ Mutate(s) \/ ServerSaves(s) \/ ServerAnswersSave(s)
        \/ SaveArrives(s) \/ SaveFails(s)

ScreenSpec == ScreenInit /\ [][ScreenNext]_screenVars

-----------------------------------------------------------------------------

ScreenTypeOK ==
    /\ server \in [Pages -> 1..LastVersion]
    /\ key \in Pages
    /\ snapshot \in [key : Pages, version : 0..LastVersion]
    /\ generation \in 0..LastGeneration
    /\ mutation \in 0..LastGeneration
    /\ revision \in BOOLEAN /\ timer \in BOOLEAN
    /\ load \in [generation : 0..LastGeneration, version : 0..LastVersion]

\* A late answer never brings an older campaign or ballot back on a page that
\* has shown a newer one, in whatever order polls and saves were sent,
\* processed and answered (docs/web/crystal-ball/README.md:19).
BallotNeverGoesBack ==
    [][snapshot'.key = snapshot.key =>
           snapshot'.version >= snapshot.version]_screenVars

\* The page never stops refreshing: a timer runs, the effect is due, or a
\* save is under way that will ask for it.
RefreshGoesOn ==
    timer \/ revision \/ \E s \in Saves : saving[s].step # "idle"

(***************************************************************************)
(* The ballot: Ballot of CrystalSeason.tsx with the picker of its answers. *)
(* Two of its questions, the branches of the bracket, tell all it does.    *)
(***************************************************************************)
CONSTANTS
    Seats,       \* branch -> teams to choose
    Contenders,  \* the teams
    LastBallot   \* bound: ballots the server takes

ASSUME BallotAssumption ==
    /\ "none" \notin DOMAIN Seats
    /\ \E b, c \in DOMAIN Seats : b # c /\ DOMAIN Seats = {b, c}
    /\ Seats \in [DOMAIN Seats -> Nat \ {0}]
    /\ LastBallot \in Nat

VARIABLES
    storedBallot,  \* the answers of this user, [number, answers, open]
    ballotRead,    \* what was last read of it
    ballotDraft, ballotDirty,
    ballotRequest, \* [phase, answers]
    picker,        \* [branch, draft, moved]: the dialog; moved: the answers changed below it
    pickedAcross   \* what was picked above such a change is among the answers

ballotFormVars == <<storedBallot, ballotRead, ballotDraft, ballotDirty, ballotRequest,
                    picker, pickedAcross>>

Branches == DOMAIN Seats
OtherBranch(b) == CHOOSE o \in Branches : o # b
Ballots == [Branches -> SUBSET Contenders]
NoAnswers == [b \in Branches |-> {}]
NoBallotRequest == [phase |-> "none", answers |-> NoAnswers]
PickerClosed == [branch |-> "none", draft |-> {}, moved |-> FALSE]

BallotInit ==
    /\ storedBallot = [number |-> 0, answers |-> NoAnswers, open |-> TRUE]
    /\ ballotRead = storedBallot
    /\ ballotDraft = NoAnswers
    /\ ballotDirty = FALSE
    /\ ballotRequest = NoBallotRequest
    /\ picker = PickerClosed
    /\ pickedAcross = FALSE

ShownAnswers == IF ballotDirty THEN ballotDraft ELSE ballotRead.answers
BallotBusy == ballotRequest.phase # "none"
Editable == ballotRead.open /\ ~ BallotBusy
IsAnswered(a) == \A b \in Branches : Cardinality(a[b]) = Seats[b]
AreApart(a) == \A b \in Branches : a[b] \cap a[OtherBranch(b)] = {}

\* What an open dialog and its user do not notice.
AnswersMayMove ==
    picker' = [picker EXCEPT !.moved =
                  @ \/ (picker.branch # "none" /\ ShownAnswers' # ShownAnswers)]

OpenPicker(b) ==
    /\ picker.branch = "none"
    /\ picker' = [branch |-> b, draft |-> ShownAnswers[b], moved |-> FALSE]
    /\ UNCHANGED <<storedBallot, ballotRead, ballotDraft, ballotDirty, ballotRequest, pickedAcross>>

IsMultiple == Seats[picker.branch] > 1

IsBlocked(t) ==
    \/ t \in ShownAnswers[OtherBranch(picker.branch)]
    \/ t \notin picker.draft /\ IsMultiple /\ Cardinality(picker.draft) >= Seats[picker.branch]

SetPicks(d) ==
    /\ picker.branch # "none" /\ Editable
    /\ picker' = [picker EXCEPT !.draft = d]
    /\ UNCHANGED <<storedBallot, ballotRead, ballotDraft, ballotDirty, ballotRequest, pickedAcross>>

PickAnswer(t) ==
    /\ picker.branch # "none"
    /\ ~ IsBlocked(t)
    /\ SetPicks(IF ~ IsMultiple THEN {t}
            ELSE IF t \in picker.draft THEN picker.draft \ {t} ELSE picker.draft \cup {t})

ClearAnswers == SetPicks({})

\* choose() of CrystalFields and onChange() of the ballot.
ConfirmPicks ==
    /\ picker.branch # "none" /\ Editable
    /\ Cardinality(picker.draft) \in {0, Seats[picker.branch]}
    /\ ballotDraft' = [ShownAnswers EXCEPT ![picker.branch] = picker.draft]
    /\ ballotDirty' = TRUE
    /\ pickedAcross' = (picker.moved \/ pickedAcross)
    /\ picker' = PickerClosed
    /\ UNCHANGED <<storedBallot, ballotRead, ballotRequest>>

ClosePicker ==
    /\ picker.branch # "none"
    /\ picker' = PickerClosed
    /\ UNCHANGED <<storedBallot, ballotRead, ballotDraft, ballotDirty, ballotRequest, pickedAcross>>

\* The dialog covers the form.
SubmitBallot ==
    /\ Editable /\ IsAnswered(ShownAnswers)
    /\ picker.branch = "none"
    /\ ballotRequest' = [phase |-> "sent", answers |-> ShownAnswers]
    /\ UNCHANGED <<storedBallot, ballotRead, ballotDraft, ballotDirty, picker, pickedAcross>>

\* save() of the repository and validateAnswers().
IsAccepted(a) == storedBallot.open /\ IsAnswered(a) /\ AreApart(a)

StoreBallot(a) ==
    /\ storedBallot.number < LastBallot
    /\ storedBallot' = [storedBallot EXCEPT !.number = @ + 1, !.answers = a]

ServeBallot ==
    /\ ballotRequest.phase = "sent"
    /\ IsAccepted(ballotRequest.answers)
    /\ StoreBallot(ballotRequest.answers)
    /\ ballotRequest' = [ballotRequest EXCEPT !.phase = "stored"]
    /\ UNCHANGED <<ballotRead, ballotDraft, ballotDirty, picker, pickedAcross>>

\* save() of the hook has read again, unless a later load took over.
BallotSaved ==
    /\ ballotRequest.phase = "stored"
    /\ ballotRead' \in {ballotRead, storedBallot}
    /\ ballotDirty' = FALSE
    /\ pickedAcross' = FALSE
    /\ ballotRequest' = NoBallotRequest
    /\ UNCHANGED <<storedBallot, ballotDraft>>
    /\ AnswersMayMove

BallotNotSaved ==
    /\ BallotBusy
    /\ ballotRequest' = NoBallotRequest
    /\ UNCHANGED <<storedBallot, ballotRead, ballotDraft, ballotDirty, picker, pickedAcross>>

BallotPolled ==
    /\ ballotRead' = storedBallot
    /\ UNCHANGED <<storedBallot, ballotDraft, ballotDirty, ballotRequest, pickedAcross>>
    /\ AnswersMayMove

\* The user votes in another browser.
BallotElsewhere(a) ==
    /\ IsAccepted(a)
    /\ StoreBallot(a)
    /\ UNCHANGED <<ballotRead, ballotDraft, ballotDirty, ballotRequest, picker, pickedAcross>>

CampaignCloses ==
    /\ storedBallot' = [storedBallot EXCEPT !.open = FALSE]
    /\ UNCHANGED <<ballotRead, ballotDraft, ballotDirty, ballotRequest, picker, pickedAcross>>

BallotNext ==
    \/ \E b \in Branches : OpenPicker(b)
    \/ \E t \in Contenders : PickAnswer(t)
    \/ ClearAnswers \/ ConfirmPicks \/ ClosePicker
    \/ SubmitBallot \/ ServeBallot \/ BallotSaved \/ BallotNotSaved
    \/ BallotPolled \/ CampaignCloses
    \/ \E a \in Ballots : BallotElsewhere(a)

BallotSpec == BallotInit /\ [][BallotNext]_ballotFormVars

-----------------------------------------------------------------------------

BallotTypeOK ==
    /\ {storedBallot.answers, ballotRead.answers, ballotDraft, ballotRequest.answers} \subseteq Ballots
    /\ ballotRequest.phase \in {"none", "sent", "stored"}
    /\ picker.draft \subseteq Contenders

\* No team is put into both branches of the bracket, nor more teams than fit,
\* unless the answers below the open dialog were replaced by those of another
\* browser (CrystalAnswerPicker.tsx:139-140).
BranchesStayApart ==
    /\ ~ pickedAcross => AreApart(ShownAnswers)
    /\ \A b \in Branches : Cardinality(ShownAnswers[b]) \in {0, Seats[b]}

\* While a ballot is being saved its draft stays what was sent: the answer
\* drops no choice that was made meanwhile (CrystalSeason.tsx:120-121).
DraftIsWhatWasSent == BallotBusy /\ ballotDirty => ballotRequest.answers = ballotDraft

(***************************************************************************)
(* The administration: CrystalAdmin, with two forms, in CrystalAdminPanel, *)
(* which asks before it goes to another league while it holds changes.     *)
(***************************************************************************)
CONSTANT LastPublished  \* bound: what is published, and so the values it may have

ASSUME CrystalAdminAssumption == LastPublished \in Nat

Sections == {"window", "results"}

VARIABLES
    campaignServer, \* [closed, now: section -> value, number]
    campaignRead,   \* what was last read of it
    sectionDraft,   \* section -> value
    sectionDirty,   \* datesDirty, resultsDirty
    adminDirty, adminBusy,
    chosenAgain,    \* history variable: the league on display was chosen again over
                    \* changes, and neither edited nor published since
    publishing      \* [phase, section, value, rest]: rest as perform() captured it

crystalAdminVars == <<campaignServer, campaignRead, sectionDraft, sectionDirty,
                      adminDirty, adminBusy, chosenAgain, publishing>>

SectionValues == 0..LastPublished
NotPublishing == [phase |-> "none", section |-> "window", value |-> 0, rest |-> FALSE]
OtherSection(f) == IF f = "window" THEN "results" ELSE "window"

CrystalAdminInit ==
    /\ campaignServer = [closed |-> FALSE, now |-> [f \in Sections |-> 0], number |-> 0]
    /\ campaignRead = campaignServer
    /\ sectionDraft = [f \in Sections |-> 0]
    /\ sectionDirty = [f \in Sections |-> FALSE]
    /\ adminDirty = FALSE /\ adminBusy = FALSE /\ chosenAgain = FALSE
    /\ publishing = NotPublishing

AdminBusy == publishing.phase # "none"
ShownSection(f) == IF sectionDirty[f] THEN sectionDraft[f] ELSE campaignRead.now[f]
\* The window until the closing, results after it.
TakesInput(f) == ~ AdminBusy /\ (campaignRead.closed <=> f = "results")

EditSection(f, v) ==
    /\ TakesInput(f)
    /\ v # ShownSection(f)
    /\ sectionDraft' = [sectionDraft EXCEPT ![f] = v]
    /\ sectionDirty' = [sectionDirty EXCEPT ![f] = TRUE]
    /\ adminDirty' = TRUE /\ chosenAgain' = FALSE
    /\ UNCHANGED <<campaignServer, campaignRead, adminBusy, publishing>>

\* perform() until its request.
PublishSection(f) ==
    /\ TakesInput(f)
    /\ publishing' = [phase |-> "sent", section |-> f, value |-> ShownSection(f),
                      rest |-> sectionDirty[OtherSection(f)]]
    /\ adminBusy' = TRUE
    /\ UNCHANGED <<campaignServer, campaignRead, sectionDraft, sectionDirty, adminDirty,
                   chosenAgain>>

\* configure() and resolve() refuse the other half of the campaign.
Accepts(f) == campaignServer.closed <=> f = "results"

StoreSection(f, v) ==
    /\ campaignServer.number < LastPublished
    /\ campaignServer' = [campaignServer EXCEPT !.number = @ + 1, !.now[f] = v]

ServePublishing ==
    /\ publishing.phase = "sent"
    /\ Accepts(publishing.section)
    /\ StoreSection(publishing.section, publishing.value)
    /\ publishing' = [publishing EXCEPT !.phase = "stored"]
    /\ UNCHANGED <<campaignRead, sectionDraft, sectionDirty, adminDirty, adminBusy,
                   chosenAgain>>

Published ==
    /\ publishing.phase = "stored"
    /\ campaignRead' \in {campaignRead, campaignServer}
    /\ sectionDirty' = [sectionDirty EXCEPT ![publishing.section] = FALSE]
    /\ adminDirty' = publishing.rest /\ chosenAgain' = FALSE
    /\ adminBusy' = FALSE
    /\ publishing' = NotPublishing
    /\ UNCHANGED <<campaignServer, sectionDraft>>

NotPublished ==
    /\ AdminBusy
    /\ adminBusy' = FALSE
    /\ publishing' = NotPublishing
    /\ UNCHANGED <<campaignServer, campaignRead, sectionDraft, sectionDirty, adminDirty,
                   chosenAgain>>

CampaignPolled ==
    /\ campaignRead' = campaignServer
    /\ UNCHANGED <<campaignServer, sectionDraft, sectionDirty, adminDirty, adminBusy,
                   chosenAgain, publishing>>

\* Another administrator publishes, or the closing comes.
OthersPublish(f, v) ==
    /\ Accepts(f)
    /\ StoreSection(f, v)
    /\ UNCHANGED <<campaignRead, sectionDraft, sectionDirty, adminDirty, adminBusy,
                   chosenAgain, publishing>>

ClosingComes ==
    /\ campaignServer' = [campaignServer EXCEPT !.closed = TRUE]
    /\ UNCHANGED <<campaignRead, sectionDraft, sectionDirty, adminDirty, adminBusy,
                   chosenAgain, publishing>>

\* onChange() of the two Selects: the user is asked first if the panel holds
\* changes.
PickLeague ==
    /\ ~ adminBusy
    /\ adminDirty' = FALSE

\* Another season or league, whose campaign is like this one: the forms start
\* anew.
LeaguePicked ==
    /\ PickLeague
    /\ chosenAgain' = FALSE
    /\ campaignRead' = campaignServer
    /\ sectionDirty' = [f \in Sections |-> FALSE]
    /\ sectionDraft' = campaignServer.now
    /\ publishing' = NotPublishing
    /\ UNCHANGED <<campaignServer, adminBusy>>

\* The one on display: its forms stay as they are.
LeagueChosenAgain ==
    /\ PickLeague
    /\ chosenAgain' = (\E f \in Sections : sectionDirty[f])
    /\ UNCHANGED <<campaignServer, campaignRead, sectionDraft, sectionDirty, adminBusy,
                   publishing>>

CrystalAdminNext ==
    \/ \E f \in Sections :
        \/ PublishSection(f)
        \/ \E v \in SectionValues : EditSection(f, v) \/ OthersPublish(f, v)
    \/ ServePublishing \/ Published \/ NotPublished \/ CampaignPolled
    \/ ClosingComes \/ LeaguePicked \/ LeagueChosenAgain

CrystalAdminSpec == CrystalAdminInit /\ [][CrystalAdminNext]_crystalAdminVars

-----------------------------------------------------------------------------

CrystalAdminTypeOK ==
    /\ {campaignServer.now, campaignRead.now, sectionDraft} \subseteq [Sections -> SectionValues]
    /\ sectionDirty \in [Sections -> BOOLEAN]
    /\ adminDirty \in BOOLEAN /\ adminBusy \in BOOLEAN /\ chosenAgain \in BOOLEAN
    /\ publishing.phase \in {"none", "sent", "stored"}

\* No change of either form is given up without asking, and no request left
\* behind, when another league is chosen: what the panel holds to be unsaved or
\* running is so, although it is told when an answer comes what was captured
\* when the request was sent (CrystalAdmin.tsx:52-72, CrystalAdminPanel.tsx:29-31).
\* Choosing the league on display again over changes makes the panel forget them,
\* until one of the forms is edited or published.
PanelKnowsItsForms ==
    /\ adminDirty => \E f \in Sections : sectionDirty[f]
    /\ (\E f \in Sections : sectionDirty[f]) => adminDirty \/ chosenAgain
    /\ adminBusy <=> AdminBusy

\* Publishing one form keeps what was changed in the other one.
OtherFormIsKept ==
    [][\A f \in Sections :
         sectionDirty[f] /\ ~ sectionDirty'[f] =>
             \/ publishing.phase = "stored" /\ publishing.section = f
                /\ publishing.value = sectionDraft[f]
             \/ ~ adminBusy /\ (adminDirty \/ chosenAgain)]_crystalAdminVars
=============================================================================
