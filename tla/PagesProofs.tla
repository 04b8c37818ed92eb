---------------------------- MODULE PagesProofs ----------------------------
(***************************************************************************)
(* Theorems about pages of the web client, whose answers arrive late: what *)
(* a page shows belongs to what was done on it.                            *)
(***************************************************************************)
EXTENDS SuggestionScreen, CrudScreen, AdminPanels, UploadScreen, Navigation,
        MatchEditor, CrystalBallScreen, PredictionScreen, FiniteSetTheorems,
        SequenceTheorems, TLAPS

-----------------------------------------------------------------------------
(***************************************************************************)
(* SuggestionScreen: one poller per suggestion, whatever answers come late.*)
(***************************************************************************)

ScreenViews == [id : 0..MaxPosts, status : InProgress \cup Final \cup {"idle"},
                submitting : BOOLEAN, countdown : 0..RetryDelay]
ScreenPolls == [id : 0..MaxPosts, answer : InProgress \cup Final \cup {"none"}]

\* A suggestion in progress is the last one that was posted; until a post is
\* answered nothing is shown.
ShownIsTheLast ==
    /\ post = "sent" => posted < MaxPosts
    /\ post = "accepted" => posted # NoId
    /\ post # "none" => view.status = "idle" /\ view.submitting
    /\ view.status \in InProgress \cup {"confirmed"} => view.id = posted /\ posted # NoId
    /\ view.status \in InProgress => current = posted
    /\ view.status = "confirmed" => record[posted] \in {"confirmed", "gone"}

\* What a poll has been told is still so, but for the record that is dropped.
PollIsTrue ==
    /\ poll.id <= posted
    /\ poll.id = NoId => poll.answer = "none"
    /\ poll.answer = "confirmed" => record[poll.id] \in {"confirmed", "gone"}

OnePoller ==
    mounted =>
        /\ view.status \in InProgress =>
              /\ pollErrors < MaxPollErrors
              /\ \/ pollTimer = current /\ poll.id = NoId
                 \/ pollTimer = NoId /\ poll.id = current
        /\ view.status \notin InProgress => pollTimer = NoId /\ poll.id = NoId

SuggestionTypes ==
    /\ record \in [SuggestionIds -> InProgress \cup Final \cup {"none", "gone"}]
    /\ posted \in 0..MaxPosts
    /\ view \in ScreenViews
    /\ post \in {"none", "sent", "accepted"}
    /\ poll \in ScreenPolls
    /\ pollTimer \in 0..MaxPosts /\ current \in 0..MaxPosts
    /\ pollErrors \in 0..MaxPollErrors
    /\ mounted \in BOOLEAN

SuggestionInv == SuggestionTypes /\ ShownIsTheLast /\ PollIsTrue /\ OnePoller

LEMMA SuggestionStarts == SuggestionScreenInit => SuggestionInv
<1> SUFFICES ASSUME SuggestionScreenInit PROVE SuggestionInv
    OBVIOUS
<1>1. SuggestionTypes
    BY SuggestionScreenAssumption DEF SuggestionScreenInit, SuggestionTypes, ScreenViews,
       ScreenPolls, Empty, NoPoll, NoId, SuggestionIds
<1>2. ShownIsTheLast /\ PollIsTrue /\ OnePoller
    BY DEF SuggestionScreenInit, ShownIsTheLast, PollIsTrue, OnePoller, Empty, NoPoll, NoId,
       InProgress
<1>3. QED
    BY <1>1, <1>2 DEF SuggestionInv

\* The server: what was confirmed stays so until it is dropped.
LEMMA RecordChanges ==
    ASSUME SuggestionInv, NEW i \in SuggestionIds, Progresses(i) \/ RecordGoes(i)
    PROVE  SuggestionInv'
<1>1. /\ record' \in [SuggestionIds -> InProgress \cup Final \cup {"none", "gone"}]
      /\ \A j \in SuggestionIds : record[j] \in {"confirmed", "gone"} =>
                                    record'[j] \in {"confirmed", "gone"}
      /\ UNCHANGED <<posted, view, post, poll, pollTimer, current, pollErrors, mounted>>
    BY DEF SuggestionInv, SuggestionTypes, Progresses, RecordGoes, InProgress, Final
<1>2. SuggestionTypes'
    BY <1>1 DEF SuggestionInv, SuggestionTypes
<1>3. posted \in 0..MaxPosts /\ (posted # NoId => posted \in SuggestionIds)
    BY SuggestionScreenAssumption DEF SuggestionInv, SuggestionTypes, SuggestionIds, NoId
<1>4. ShownIsTheLast' /\ OnePoller'
    BY <1>1, <1>3 DEF SuggestionInv, ShownIsTheLast, OnePoller
<1>5. PollIsTrue'
    <2>1. poll.answer = "confirmed" => poll.id \in SuggestionIds
        BY SuggestionScreenAssumption DEF SuggestionInv, SuggestionTypes, ScreenPolls, PollIsTrue,
           SuggestionIds, NoId
    <2>2. QED
        BY <1>1, <2>1 DEF SuggestionInv, PollIsTrue
<1>6. QED
    BY <1>2, <1>4, <1>5 DEF SuggestionInv

LEMMA AcceptPostKeeps == ASSUME SuggestionInv, AcceptPost PROVE SuggestionInv'
<1>1. /\ post = "sent" /\ post' = "accepted" /\ posted' = posted + 1
      /\ record' = [record EXCEPT ![posted + 1] = "queued"]
      /\ UNCHANGED <<view, poll, pollTimer, current, pollErrors, mounted>>
    BY DEF AcceptPost
<1>2. posted \in Nat /\ posted + 1 \in SuggestionIds /\ MaxPosts \in Nat
    BY <1>1, SuggestionScreenAssumption DEF SuggestionInv, SuggestionTypes, ShownIsTheLast, SuggestionIds
<1>3. SuggestionTypes'
    BY <1>1, <1>2 DEF SuggestionInv, SuggestionTypes, SuggestionIds, InProgress
<1>4. view.status = "idle" /\ view.submitting
    BY <1>1 DEF SuggestionInv, ShownIsTheLast
<1>5. ShownIsTheLast' /\ OnePoller'
    BY <1>1, <1>2, <1>4 DEF SuggestionInv, ShownIsTheLast, OnePoller, InProgress, NoId
<1>6. PollIsTrue'
    <2>1. poll.id \in 0..posted
        BY DEF SuggestionInv, SuggestionTypes, ScreenPolls, PollIsTrue
    <2>2. poll.id # NoId => record'[poll.id] = record[poll.id]
        BY <1>1, <1>2, <2>1 DEF SuggestionInv, SuggestionTypes, SuggestionIds, NoId
    <2>3. QED
        BY <1>1, <1>2, <2>1, <2>2 DEF SuggestionInv, PollIsTrue
<1>7. QED
    BY <1>3, <1>5, <1>6 DEF SuggestionInv

LEMMA AnswerPollKeeps == ASSUME SuggestionInv, AnswerPoll PROVE SuggestionInv'
<1>1. /\ poll.id # NoId /\ record[poll.id] # "gone"
      /\ UNCHANGED <<record, posted, view, post, pollTimer, current, pollErrors, mounted>>
    BY DEF AnswerPoll
<1>2. poll.id \in SuggestionIds
    BY <1>1, SuggestionScreenAssumption DEF SuggestionInv, SuggestionTypes, ScreenPolls,
       SuggestionIds, NoId
<1>3. poll'.id = poll.id /\ poll'.answer = record[poll.id] /\ poll' \in ScreenPolls
    BY <1>1, <1>2 DEF SuggestionInv, SuggestionTypes, AnswerPoll, ScreenPolls
<1>4. SuggestionTypes'
    BY <1>1, <1>3 DEF SuggestionInv, SuggestionTypes
<1>5. ShownIsTheLast' /\ OnePoller'
    BY <1>1, <1>3 DEF SuggestionInv, ShownIsTheLast, OnePoller
<1>6. PollIsTrue'
    BY <1>1, <1>3 DEF SuggestionInv, PollIsTrue
<1>7. QED
    BY <1>4, <1>5, <1>6 DEF SuggestionInv

LEMMA SubmitKeeps == ASSUME SuggestionInv, Submit PROVE SuggestionInv'
<1>1. /\ MaySubmit /\ posted < MaxPosts
      /\ post' = "sent" /\ pollTimer' = NoId
      /\ UNCHANGED <<record, posted, poll, current, pollErrors, mounted>>
    BY DEF Submit
<1>2. view' = [id |-> NoId, status |-> "idle", submitting |-> TRUE, countdown |-> 0]
    BY DEF Submit, Empty
<1>3. mounted /\ poll.id = NoId
    BY <1>1 DEF MaySubmit, SuggestionInv, OnePoller
<1>4. SuggestionTypes'
    BY <1>1, <1>2, SuggestionScreenAssumption DEF SuggestionInv, SuggestionTypes, ScreenViews, NoId
<1>5. ShownIsTheLast' /\ OnePoller'
    BY <1>1, <1>2, <1>3 DEF SuggestionInv, ShownIsTheLast, OnePoller, InProgress
<1>6. PollIsTrue'
    BY <1>1 DEF SuggestionInv, PollIsTrue
<1>7. QED
    BY <1>4, <1>5, <1>6 DEF SuggestionInv

LEMMA PostArrivesKeeps == ASSUME SuggestionInv, PostArrives PROVE SuggestionInv'
<1>1. /\ post = "accepted" /\ mounted /\ post' = "none" /\ current' = posted
      /\ pollErrors' = 0 /\ pollTimer' = posted
      /\ UNCHANGED <<record, posted, poll, mounted>>
    BY DEF PostArrives
<1>2. /\ view' \in ScreenViews /\ view'.id = posted /\ view'.status = "queued"
    BY DEF PostArrives, SuggestionInv, SuggestionTypes, ScreenViews, InProgress
<1>3. poll.id = NoId
    BY <1>1 DEF SuggestionInv, ShownIsTheLast, OnePoller, InProgress
<1>4. SuggestionTypes'
    BY <1>1, <1>2, SuggestionScreenAssumption DEF SuggestionInv, SuggestionTypes
<1>5. posted # NoId
    BY <1>1 DEF SuggestionInv, ShownIsTheLast
<1>6. ShownIsTheLast' /\ OnePoller'
    BY <1>1, <1>2, <1>3, <1>5, SuggestionScreenAssumption
       DEF SuggestionInv, ShownIsTheLast, OnePoller, InProgress
<1>7. PollIsTrue'
    BY <1>1 DEF SuggestionInv, PollIsTrue
<1>8. QED
    BY <1>4, <1>6, <1>7 DEF SuggestionInv

LEMMA PostFailsKeeps == ASSUME SuggestionInv, PostFails PROVE SuggestionInv'
<1>1. /\ post # "none" /\ mounted /\ post' = "none"
      /\ UNCHANGED <<record, posted, poll, pollTimer, current, pollErrors, mounted>>
    BY DEF PostFails
<1>2. view' \in ScreenViews /\ view'.status = "failed"
    BY DEF PostFails, SuggestionInv, SuggestionTypes, ScreenViews, Final
<1>3. pollTimer = NoId /\ poll.id = NoId
    BY <1>1 DEF SuggestionInv, ShownIsTheLast, OnePoller, InProgress
<1>4. SuggestionTypes'
    BY <1>1, <1>2 DEF SuggestionInv, SuggestionTypes
<1>5. ShownIsTheLast' /\ OnePoller'
    BY <1>1, <1>2, <1>3 DEF SuggestionInv, ShownIsTheLast, OnePoller, InProgress
<1>6. PollIsTrue'
    BY <1>1 DEF SuggestionInv, PollIsTrue
<1>7. QED
    BY <1>4, <1>5, <1>6 DEF SuggestionInv

LEMMA PollTickKeeps == ASSUME SuggestionInv, PollTick PROVE SuggestionInv'
<1>1. /\ pollTimer # NoId /\ pollTimer' = NoId
      /\ UNCHANGED <<record, posted, view, post, current, pollErrors, mounted>>
    BY DEF PollTick
<1>2. CASE mounted
    <2>1. view.status \in InProgress /\ pollTimer = current /\ current = posted
        BY <1>1, <1>2 DEF SuggestionInv, OnePoller, ShownIsTheLast
    <2>2. poll' = [id |-> current, answer |-> "none"]
        BY <1>2, <2>1 DEF PollTick
    <2>3. SuggestionTypes'
        BY <1>1, <2>2, SuggestionScreenAssumption DEF SuggestionInv, SuggestionTypes, ScreenPolls, NoId
    <2>4. ShownIsTheLast' /\ OnePoller'
        BY <1>1, <2>1, <2>2 DEF SuggestionInv, ShownIsTheLast, OnePoller
    <2>5. PollIsTrue'
        BY <1>1, <2>1, <2>2, SuggestionScreenAssumption DEF SuggestionInv, SuggestionTypes, PollIsTrue
    <2>6. QED
        BY <2>3, <2>4, <2>5 DEF SuggestionInv
<1>3. CASE ~ mounted
    <2>1. poll' = poll
        BY <1>3 DEF PollTick
    <2>2. SuggestionTypes'
        BY <1>1, <2>1, SuggestionScreenAssumption DEF SuggestionInv, SuggestionTypes, NoId
    <2>3. ShownIsTheLast' /\ PollIsTrue' /\ OnePoller'
        BY <1>1, <1>3, <2>1 DEF SuggestionInv, ShownIsTheLast, PollIsTrue, OnePoller
    <2>4. QED
        BY <2>2, <2>3 DEF SuggestionInv
<1>4. QED
    BY <1>2, <1>3

\* An answer is expected only for what is shown.
LEMMA ExpectedIsShown ==
    ASSUME SuggestionInv, Expected, poll.id # NoId
    PROVE  /\ view.status \in InProgress /\ poll.id = posted /\ current = posted /\ view.id = posted
           /\ pollTimer = NoId /\ pollErrors < MaxPollErrors /\ posted # NoId /\ post = "none"
BY DEF SuggestionInv, Expected, OnePoller, ShownIsTheLast, InProgress, SuggestionTypes

LEMMA PollArrivesKeeps == ASSUME SuggestionInv, PollArrives PROVE SuggestionInv'
<1>1. /\ poll.answer # "none" /\ poll' = [id |-> NoId, answer |-> "none"]
      /\ UNCHANGED <<record, posted, post, current, mounted>>
    BY DEF PollArrives, NoPoll
<1>2. poll.id # NoId /\ poll.answer \in InProgress \cup Final
    BY <1>1 DEF SuggestionInv, PollIsTrue, SuggestionTypes, ScreenPolls
<1>3. PollIsTrue'
    BY <1>1, SuggestionScreenAssumption DEF SuggestionInv, SuggestionTypes, PollIsTrue, NoId
<1>4. poll' \in ScreenPolls
    BY <1>1, SuggestionScreenAssumption DEF ScreenPolls, NoId
<1>5. CASE Expected
    <2>1. /\ view.status \in InProgress /\ poll.id = posted /\ current = posted
          /\ posted # NoId /\ post = "none"
        BY <1>2, <1>5, ExpectedIsShown
    <2>2. /\ view' = Showing(poll.id, poll.answer) /\ pollErrors' = 0
          /\ pollTimer' = IF poll.answer \in Final THEN NoId ELSE poll.id
        BY <1>5 DEF PollArrives
    <2>3. view' \in ScreenViews /\ view'.id = poll.id /\ view'.status = poll.answer
        BY <1>2, <2>1, <2>2, SuggestionScreenAssumption
           DEF Showing, ScreenViews, SuggestionInv, SuggestionTypes
    <2>4. SuggestionTypes'
        BY <1>1, <1>4, <2>1, <2>2, <2>3, SuggestionScreenAssumption
           DEF SuggestionInv, SuggestionTypes, NoId
    <2>5. ShownIsTheLast'
        BY <1>1, <2>1, <2>3 DEF SuggestionInv, ShownIsTheLast, PollIsTrue
    <2>6. OnePoller'
        <3>1. poll.answer \in InProgress <=> poll.answer \notin Final
            BY <1>2 DEF InProgress, Final
        <3>2. pollErrors' < MaxPollErrors /\ poll'.id = NoId
            BY <1>1, <2>2, SuggestionScreenAssumption
        <3>3. QED
            BY <1>1, <2>1, <2>2, <2>3, <3>1, <3>2 DEF OnePoller
    <2>7. QED
        BY <1>3, <2>4, <2>5, <2>6 DEF SuggestionInv
<1>6. CASE ~ Expected
    <2>1. UNCHANGED <<view, pollErrors, pollTimer>>
        BY <1>6 DEF PollArrives
    <2>2. ~ mounted
        BY <1>2, <1>6 DEF Expected, SuggestionInv, OnePoller
    <2>3. SuggestionTypes'
        BY <1>1, <1>4, <2>1 DEF SuggestionInv, SuggestionTypes
    <2>4. ShownIsTheLast' /\ OnePoller'
        BY <1>1, <2>1, <2>2 DEF SuggestionInv, ShownIsTheLast, OnePoller
    <2>5. QED
        BY <1>3, <2>3, <2>4 DEF SuggestionInv
<1>7. QED
    BY <1>5, <1>6

LEMMA PollFailsKeeps == ASSUME SuggestionInv, PollFails PROVE SuggestionInv'
<1>1. /\ poll.id # NoId /\ poll' = [id |-> NoId, answer |-> "none"]
      /\ UNCHANGED <<record, posted, post, current, mounted>>
    BY DEF PollFails, NoPoll
<1>2. PollIsTrue'
    BY <1>1, SuggestionScreenAssumption DEF SuggestionInv, SuggestionTypes, PollIsTrue, NoId
<1>3. poll' \in ScreenPolls /\ poll'.id = NoId
    BY <1>1, SuggestionScreenAssumption DEF ScreenPolls, NoId
<1>4. CASE Expected
    <2>1. /\ view.status \in InProgress /\ poll.id = posted /\ current = posted
          /\ posted # NoId /\ post = "none" /\ pollErrors < MaxPollErrors
        BY <1>1, <1>4, ExpectedIsShown
    <2>2. pollErrors' = pollErrors + 1 /\ pollErrors' \in 0..MaxPollErrors
        BY <1>4, <2>1, SuggestionScreenAssumption DEF PollFails, SuggestionInv, SuggestionTypes
    <2>3. CASE pollErrors + 1 >= MaxPollErrors
        <3>1. view' = [view EXCEPT !.status = "failed", !.submitting = FALSE] /\ pollTimer' = NoId
            BY <1>4, <2>3 DEF PollFails
        <3>2. view' \in ScreenViews /\ view'.status = "failed"
            BY <3>1 DEF SuggestionInv, SuggestionTypes, ScreenViews, Final
        <3>3. SuggestionTypes'
            BY <1>1, <1>3, <2>2, <3>1, <3>2, SuggestionScreenAssumption
               DEF SuggestionInv, SuggestionTypes, NoId
        <3>4. ShownIsTheLast' /\ OnePoller'
            BY <1>1, <1>3, <2>1, <3>1, <3>2 DEF ShownIsTheLast, OnePoller, InProgress
        <3>5. QED
            BY <1>2, <3>3, <3>4 DEF SuggestionInv
    <2>4. CASE ~(pollErrors + 1 >= MaxPollErrors)
        <3>1. pollTimer' = poll.id /\ view' = view
            BY <1>4, <2>4 DEF PollFails
        <3>2. pollErrors' < MaxPollErrors
            BY <2>2, <2>4, SuggestionScreenAssumption DEF SuggestionInv, SuggestionTypes
        <3>3. SuggestionTypes'
            BY <1>1, <1>3, <2>1, <2>2, <3>1 DEF SuggestionInv, SuggestionTypes
        <3>4. ShownIsTheLast' /\ OnePoller'
            BY <1>1, <1>3, <2>1, <3>1, <3>2 DEF SuggestionInv, ShownIsTheLast, OnePoller
        <3>5. QED
            BY <1>2, <3>3, <3>4 DEF SuggestionInv
    <2>5. QED
        BY <2>3, <2>4
<1>5. CASE ~ Expected
    <2>1. UNCHANGED <<view, pollErrors, pollTimer>>
        BY <1>5 DEF PollFails
    <2>2. ~ mounted
        BY <1>1, <1>5 DEF Expected, SuggestionInv, OnePoller
    <2>3. SuggestionTypes'
        BY <1>1, <1>3, <2>1 DEF SuggestionInv, SuggestionTypes
    <2>4. ShownIsTheLast' /\ OnePoller'
        BY <1>1, <2>1, <2>2 DEF SuggestionInv, ShownIsTheLast, OnePoller
    <2>5. QED
        BY <1>2, <2>3, <2>4 DEF SuggestionInv
<1>6. QED
    BY <1>4, <1>5

LEMMA CountdownTickKeeps == ASSUME SuggestionInv, CountdownTick PROVE SuggestionInv'
<1>1. UNCHANGED <<record, posted, post, poll, pollTimer, current, pollErrors, mounted>>
    BY DEF CountdownTick
<1>2. /\ view' \in ScreenViews /\ view'.id = view.id /\ view'.status = view.status
      /\ view'.submitting = view.submitting
    BY SuggestionScreenAssumption DEF CountdownTick, SuggestionInv, SuggestionTypes, ScreenViews
<1>3. SuggestionTypes'
    BY <1>1, <1>2 DEF SuggestionInv, SuggestionTypes
<1>4. ShownIsTheLast' /\ PollIsTrue' /\ OnePoller'
    BY <1>1, <1>2 DEF SuggestionInv, ShownIsTheLast, PollIsTrue, OnePoller
<1>5. QED
    BY <1>3, <1>4 DEF SuggestionInv

LEMMA ResetKeeps == ASSUME SuggestionInv, Reset PROVE SuggestionInv'
<1>1. /\ mounted /\ view.status \in Final
      /\ pollTimer' = NoId /\ current' = NoId /\ pollErrors' = 0
      /\ UNCHANGED <<record, posted, post, poll, mounted>>
    BY DEF Reset
<1>2. view' = [id |-> NoId, status |-> "idle", submitting |-> FALSE, countdown |-> 0]
    BY DEF Reset, Empty
<1>3. post = "none" /\ poll.id = NoId
    BY <1>1 DEF SuggestionInv, ShownIsTheLast, OnePoller, InProgress, Final
<1>4. SuggestionTypes'
    BY <1>1, <1>2, SuggestionScreenAssumption DEF SuggestionInv, SuggestionTypes, ScreenViews, NoId
<1>5. ShownIsTheLast' /\ PollIsTrue' /\ OnePoller'
    BY <1>1, <1>2, <1>3 DEF SuggestionInv, ShownIsTheLast, PollIsTrue, OnePoller, InProgress
<1>6. QED
    BY <1>4, <1>5 DEF SuggestionInv

LEMMA CloseModalKeeps == ASSUME SuggestionInv, CloseModal PROVE SuggestionInv'
<1>1. /\ mounted' = FALSE /\ pollTimer' = NoId
      /\ UNCHANGED <<record, posted, view, post, poll, current, pollErrors>>
    BY DEF CloseModal
<1>2. SuggestionTypes'
    <2>1. pollTimer' \in 0..MaxPosts
        BY <1>1, SuggestionScreenAssumption DEF NoId
    <2>2. mounted' \in BOOLEAN
        BY <1>1, Zenon
    <2>3. QED
        BY <1>1, <2>1, <2>2 DEF SuggestionInv, SuggestionTypes
<1>3. ShownIsTheLast' /\ PollIsTrue' /\ OnePoller'
    BY <1>1 DEF SuggestionInv, ShownIsTheLast, PollIsTrue, OnePoller
<1>4. QED
    BY <1>2, <1>3 DEF SuggestionInv

LEMMA SuggestionSteps ==
    SuggestionInv /\ [SuggestionScreenNext]_suggestionScreenVars => SuggestionInv'
<1> SUFFICES ASSUME SuggestionInv, [SuggestionScreenNext]_suggestionScreenVars
             PROVE  SuggestionInv'
    OBVIOUS
<1>1. CASE \E i \in SuggestionIds : Progresses(i) \/ RecordGoes(i)
    BY <1>1, RecordChanges
<1>2. CASE AcceptPost \/ AnswerPoll \/ Submit \/ PostArrives \/ PostFails
    BY <1>2, AcceptPostKeeps, AnswerPollKeeps, SubmitKeeps, PostArrivesKeeps, PostFailsKeeps
<1>3. CASE PollTick \/ PollArrives \/ PollFails \/ CountdownTick \/ Reset \/ CloseModal
    BY <1>3, PollTickKeeps, PollArrivesKeeps, PollFailsKeeps, CountdownTickKeeps, ResetKeeps,
       CloseModalKeeps
<1>4. CASE UNCHANGED suggestionScreenVars
    BY <1>4 DEF suggestionScreenVars, SuggestionInv, SuggestionTypes, ShownIsTheLast, PollIsTrue,
       OnePoller
<1>5. QED
    BY <1>1, <1>2, <1>3, <1>4 DEF SuggestionScreenNext

\* Every variable of the suggestion box keeps its type, for any number of
\* suggestions, poll errors in a row and pauses.
THEOREM SuggestionBoxTypes == SuggestionScreenSpec => []SuggestionScreenTypeOK
<1>1. SuggestionInv => SuggestionScreenTypeOK
    BY DEF SuggestionInv, SuggestionTypes, SuggestionScreenTypeOK, ScreenViews, ScreenPolls
<1>2. QED
    BY <1>1, SuggestionStarts, SuggestionSteps, PTL DEF SuggestionScreenSpec

\* The page neither hangs nor polls twice: a suggestion in progress has exactly
\* one poll ahead (useSuggestion.ts).
THEOREM SuggestionBoxPollsOnce == SuggestionScreenSpec => []OnePollerPerSuggestion
<1>1. SuggestionInv => OnePollerPerSuggestion
    BY DEF SuggestionInv, OnePoller, ShownIsTheLast, OnePollerPerSuggestion
<1>2. QED
    BY <1>1, SuggestionStarts, SuggestionSteps, PTL DEF SuggestionScreenSpec

\* What is shown as confirmed was, and is the last suggestion (useSuggestion.ts).
THEOREM SuggestionBoxIsHonest == SuggestionScreenSpec => []ConfirmationIsReal
<1>1. SuggestionInv => ConfirmationIsReal
    BY DEF SuggestionInv, ShownIsTheLast, ConfirmationIsReal
<1>2. QED
    BY <1>1, SuggestionStarts, SuggestionSteps, PTL DEF SuggestionScreenSpec

\* The suggestion box: one poll ahead, and no confirmation that was not given.
THEOREM SuggestionBoxCorrect ==
  SuggestionScreenSpec => [](OnePollerPerSuggestion /\ ConfirmationIsReal)
    BY SuggestionBoxPollsOnce, SuggestionBoxIsHonest, PTL

-----------------------------------------------------------------------------
(***************************************************************************)
(* CrudScreen: a page has one change under way, and its form or dialog is  *)
(* open until the answer.                                                  *)
(***************************************************************************)

RowStamps == [TableRows -> 0..Gone]
Lists == {NoList} \cup RowStamps
Previews == {NoPreview} \cup [shown : {TRUE}, linked : 0..LastWrite, allowed : BOOLEAN]
Forms == {NoEditor} \cup [row : TableRows, stamp : 0..LastWrite]
OpenDialogs == [row : TableRows, stamp : 0..LastWrite, preview : Previews,
                asked : {"sent", "shown", "failed"}, confirmed : BOOLEAN, pending : BOOLEAN]
Mutations == [kind : {"save", "delete"}, row : TableRows, stamp : 0..Gone, linked : 0..LastWrite,
              visit : 1..LastVisit, result : {"none", "done", "refused"}]

TableTypes ==
    /\ stored \in [TableRows -> [stamp : 0..Gone, linked : 0..LastWrite]]
    /\ writes \in 1..LastWrite /\ owner \in BOOLEAN /\ visit \in 1..LastVisit
    /\ list \in Lists
    /\ listLoad \in [phase : {"timer", "sent", "answered", "idle"}, rows : Lists]
    /\ crudBusy \in BOOLEAN
    /\ editor \in Forms /\ dialog \in {NoDialog} \cup OpenDialogs
    /\ changes \subseteq Mutations
    /\ known \in RowStamps

\* In one visit one change is under way, and its form or dialog is open.
OneAtATime ==
    /\ \A q, r \in changes : q.visit = r.visit => q = r
    /\ \A q \in changes :
          /\ q.visit <= visit
          /\ q.visit = visit /\ q.kind = "save" => crudBusy
          /\ q.visit = visit /\ q.kind = "delete" => dialog # NoDialog /\ dialog.pending
    /\ crudBusy => editor # NoEditor
    /\ editor # NoEditor => dialog = NoDialog

\* Stamps only grow, and the page knows none that is not stored.
StampsGrow ==
    /\ \A r \in TableRows : stored[r].stamp <= writes \/ stored[r].stamp = Gone
    /\ \A r \in TableRows : known[r] <= stored[r].stamp
    /\ \A q \in changes : q.result = "none" => q.stamp # Gone
    /\ \A q \in changes : q.result = "done" => q.stamp <= stored[q.row].stamp

\* What is shown, or about to be, is not older than what the page was told.
ListIsCurrent ==
    /\ \A r \in DOMAIN list : known[r] <= list[r]
    /\ listLoad.phase = "answered" => \A r \in DOMAIN listLoad.rows : known[r] <= listLoad.rows[r]

\* A deletion under way is the one of the dialog.
RemovalIsTicked ==
    /\ dialog # NoDialog /\ dialog.preview.shown => dialog.asked # "sent"
    /\ dialog # NoDialog /\ dialog.pending => dialog.preview.shown
    /\ \A q \in changes :
          q.visit = visit /\ q.kind = "delete" /\ q.result = "none" =>
             /\ dialog.row = q.row /\ dialog.stamp = q.stamp
             /\ dialog.preview.shown /\ dialog.preview.linked = q.linked
             /\ owner => dialog.confirmed

TableInv == TableTypes /\ OneAtATime /\ StampsGrow /\ ListIsCurrent /\ RemovalIsTicked

LEMMA StampRange ==
    /\ LastWrite \in Nat /\ Gone \in Nat /\ Gone = LastWrite + 1 /\ Absent0 = 0
    /\ LastVisit \in Nat /\ 1 \in 1..LastVisit /\ 1 \in 1..LastWrite
BY CrudScreenAssumption DEF Gone, Absent0

LEMMA TableStarts == CrudScreenInit => TableInv
<1> SUFFICES ASSUME CrudScreenInit PROVE TableInv
    OBVIOUS
<1>1. \A r \in TableRows : stored[r].stamp \in {0, 1} /\ stored[r].linked = 0
    BY StampRange DEF CrudScreenInit
<1>2. stored \in [TableRows -> [stamp : 0..Gone, linked : 0..LastWrite]]
    BY StampRange DEF CrudScreenInit
<1>3. known \in RowStamps /\ list \in Lists
      /\ listLoad \in [phase : {"timer", "sent", "answered", "idle"}, rows : Lists]
    BY StampRange DEF CrudScreenInit, RowStamps, Lists, ListWaiting
<1>4. TableTypes
    BY <1>2, <1>3, StampRange DEF CrudScreenInit, TableTypes, Forms
<1>5. OneAtATime /\ RemovalIsTicked
    BY DEF CrudScreenInit, OneAtATime, RemovalIsTicked
<1>6. StampsGrow
    BY <1>1, StampRange DEF CrudScreenInit, StampsGrow
<1>7. ListIsCurrent
    BY DEF CrudScreenInit, ListIsCurrent, ListWaiting, NoList
<1>8. QED
    BY <1>4, <1>5, <1>6, <1>7 DEF TableInv

\* The list: what the server answers is what it has stored.
LEMMA ListKeeps ==
    ASSUME TableInv, TimerEnds \/ ServerLists \/ ListArrives \/ ListFails \/ Search
    PROVE  TableInv'
<1>1. UNCHANGED <<stored, writes, owner, visit, crudBusy, editor, dialog, changes, known>>
    BY DEF TimerEnds, ServerLists, ListArrives, ListFails, Search, tableState
<1>2. TableStamps \in Lists /\ \A r \in TableRows : known[r] <= TableStamps[r]
    <2>1. TableStamps \in RowStamps
        BY DEF TableInv, TableTypes, TableStamps, RowStamps
    <2>2. \A r \in TableRows : TableStamps[r] = stored[r].stamp
        BY DEF TableStamps
    <2>3. QED
        BY <2>1, <2>2 DEF TableInv, StampsGrow, Lists
<1>3. DOMAIN TableStamps = TableRows
    BY DEF TableStamps
<1>4. list' \in Lists /\ listLoad' \in [phase : {"timer", "sent", "answered", "idle"}, rows : Lists]
    <2>1. NoList \in Lists
        BY DEF Lists
    <2>2. listLoad.rows \in Lists
        BY DEF TableInv, TableTypes
    <2>3. CASE TimerEnds
        BY <2>3 DEF TimerEnds, TableInv, TableTypes
    <2>4. CASE ServerLists
        BY <1>2, <2>4 DEF ServerLists, TableInv, TableTypes
    <2>5. CASE ListArrives \/ ListFails
        BY <2>1, <2>2, <2>5 DEF ListArrives, ListFails, ListIdle, TableInv, TableTypes
    <2>6. CASE Search
        BY <2>1, <2>6 DEF Search, Reload, ListWaiting
    <2>7. QED
        BY <2>3, <2>4, <2>5, <2>6
<1>5. TableTypes' /\ OneAtATime' /\ StampsGrow' /\ RemovalIsTicked'
    BY <1>1, <1>4 DEF TableInv, TableTypes, OneAtATime, StampsGrow, RemovalIsTicked
<1>6. ListIsCurrent'
    <2>1. CASE TimerEnds
        <3>1. list' = list /\ listLoad'.phase = "sent"
            BY <2>1 DEF TimerEnds, TableInv, TableTypes
        <3>2. QED
            BY <1>1, <3>1 DEF TableInv, ListIsCurrent
    <2>2. CASE ServerLists
        BY <1>1, <1>2, <1>3, <2>2 DEF ServerLists, TableInv, ListIsCurrent
    <2>3. CASE ListArrives \/ ListFails
        BY <1>1, <2>3 DEF ListArrives, ListFails, ListIdle, TableInv, ListIsCurrent
    <2>4. CASE Search
        BY <1>1, <2>4 DEF Search, Reload, ListWaiting, NoList, ListIsCurrent
    <2>5. QED
        BY <2>1, <2>2, <2>3, <2>4
<1>7. QED
    BY <1>5, <1>6 DEF TableInv

\* What is loaded anew is neither shown nor answered.
LEMMA ReloadIsCurrent ==
    ASSUME Reload
    PROVE  /\ list' \in Lists
           /\ listLoad' \in [phase : {"timer", "sent", "answered", "idle"}, rows : Lists]
           /\ ListIsCurrent'
BY DEF Reload, ListWaiting, NoList, Lists, ListIsCurrent

LEMMA RetryListKeeps == ASSUME TableInv, RetryList PROVE TableInv'
<1>1. /\ Reload /\ ~ crudBusy /\ editor' = NoEditor
      /\ UNCHANGED <<stored, writes, owner, visit, crudBusy, dialog, changes, known>>
    BY DEF RetryList, tableState
<1>2. TableTypes'
    BY <1>1, ReloadIsCurrent DEF TableInv, TableTypes, Forms
<1>3. OneAtATime' /\ StampsGrow' /\ RemovalIsTicked'
    BY <1>1 DEF TableInv, OneAtATime, StampsGrow, RemovalIsTicked
<1>4. QED
    BY <1>1, <1>2, <1>3, ReloadIsCurrent DEF TableInv

LEMMA ComeBackKeeps == ASSUME TableInv, ComeBack PROVE TableInv'
<1>1. /\ visit < LastVisit /\ visit' = visit + 1 /\ Reload
      /\ crudBusy' = FALSE /\ editor' = NoEditor /\ dialog' = NoDialog
      /\ known' = [r \in TableRows |-> Absent0]
      /\ UNCHANGED <<stored, writes, owner, changes>>
    BY DEF ComeBack, tableState
<1>2. visit \in 1..LastVisit /\ visit' \in 1..LastVisit
    BY <1>1, StampRange DEF TableInv, TableTypes
<1>3. known' \in RowStamps /\ crudBusy' \in BOOLEAN
    <2>1. known' \in RowStamps
        BY <1>1, StampRange DEF RowStamps
    <2>2. crudBusy' \in BOOLEAN
        BY <1>1, Zenon
    <2>3. QED
        BY <2>1, <2>2
<1>4. TableTypes'
    BY <1>1, <1>2, <1>3, ReloadIsCurrent DEF TableInv, TableTypes, Forms
<1>5. \A q \in changes : q.visit <= visit /\ q.visit # visit'
    BY <1>1, <1>2 DEF TableInv, TableTypes, OneAtATime, Mutations
<1>6. \A q \in changes : q.visit <= visit'
    BY <1>1, <1>2, <1>5 DEF TableInv, TableTypes, Mutations
<1>7. OneAtATime' /\ RemovalIsTicked'
    BY <1>1, <1>5, <1>6 DEF TableInv, OneAtATime, RemovalIsTicked
<1>8. StampsGrow'
    BY <1>1, StampRange DEF TableInv, TableTypes, StampsGrow
<1>9. QED
    BY <1>1, <1>4, <1>7, <1>8, ReloadIsCurrent DEF TableInv

LEMMA FormKeeps == ASSUME TableInv, NEW r \in TableRows, OpenForm(r) \/ CancelForm PROVE TableInv'
<1>1. /\ ~ crudBusy
      /\ UNCHANGED <<stored, writes, owner, visit, list, listLoad, crudBusy, dialog, changes, known>>
    BY DEF OpenForm, CancelForm, NothingOpen, tableState
<1>2. editor' \in Forms /\ (editor' # NoEditor => dialog = NoDialog)
    <2>1. CASE CancelForm
        BY <2>1 DEF CancelForm, Forms
    <2>2. CASE OpenForm(r)
        <3>1. r \in ListedRows => list[r] \in 0..LastWrite
            <4>1. list \in Lists
                BY DEF TableInv, TableTypes
            <4>2. r \in ListedRows => list \in RowStamps
                BY <4>1 DEF Lists, NoList, ListedRows
            <4>3. QED
                BY <4>2, StampRange DEF ListedRows, IsThere, RowStamps
        <3>2. QED
            BY <2>2, <3>1, StampRange DEF OpenForm, NothingOpen, Forms
    <2>3. QED
        BY <2>1, <2>2
<1>3. TableTypes'
    BY <1>1, <1>2 DEF TableInv, TableTypes
<1>4. OneAtATime' /\ StampsGrow' /\ ListIsCurrent' /\ RemovalIsTicked'
    BY <1>1, <1>2 DEF TableInv, OneAtATime, StampsGrow, ListIsCurrent, RemovalIsTicked
<1>5. QED
    BY <1>3, <1>4 DEF TableInv

\* A change begins in a visit that has none.
LEMMA NoneUnderWay ==
    ASSUME TableInv, ~ crudBusy, dialog = NoDialog \/ ~ dialog.pending
    PROVE  \A q \in changes : q.visit # visit
BY DEF TableInv, TableTypes, OneAtATime, Mutations

LEMMA SaveKeeps == ASSUME TableInv, Save PROVE TableInv'
<1>1. /\ editor # NoEditor /\ ~ crudBusy /\ crudBusy' = TRUE
      /\ changes' = changes \cup {Mutation("save", editor.row, editor.stamp, 0)}
      /\ UNCHANGED <<stored, writes, owner, visit, list, listLoad, editor, dialog, known>>
    BY DEF Save, tableState
<1>2. PICK q : q = Mutation("save", editor.row, editor.stamp, 0)
    OBVIOUS
<1>3. editor.row \in TableRows /\ editor.stamp \in 0..LastWrite
    BY <1>1 DEF TableInv, TableTypes, Forms
<1>4. /\ q \in Mutations /\ q.kind = "save" /\ q.visit = visit /\ q.result = "none"
      /\ q.stamp # Gone
    BY <1>2, <1>3, StampRange DEF Mutation, Mutations, TableInv, TableTypes
<1>5. dialog = NoDialog /\ \A x \in changes : x.visit # visit
    BY <1>1, NoneUnderWay DEF TableInv, OneAtATime
<1>6. changes' = changes \cup {q}
    BY <1>1, <1>2
<1>7. crudBusy' \in BOOLEAN
    BY <1>1, Zenon
<1>8. TableTypes'
    BY <1>1, <1>4, <1>6, <1>7 DEF TableInv, TableTypes
<1>9. OneAtATime'
    <2>1. visit <= visit
        BY StampRange DEF TableInv, TableTypes
    <2>2. QED
        BY <1>1, <1>4, <1>5, <1>6, <2>1 DEF TableInv, OneAtATime
<1>10. StampsGrow' /\ ListIsCurrent' /\ RemovalIsTicked'
    BY <1>1, <1>4, <1>6 DEF TableInv, StampsGrow, ListIsCurrent, RemovalIsTicked
<1>11. QED
    BY <1>8, <1>9, <1>10 DEF TableInv

LEMMA OpenDialogKeeps == ASSUME TableInv, NEW r \in TableRows, OpenDialog(r) PROVE TableInv'
<1>1. /\ ~ crudBusy /\ editor = NoEditor /\ dialog = NoDialog /\ r \in ListedRows
      /\ dialog' = [row |-> r, stamp |-> list[r], preview |-> NoPreview,
                    asked |-> "sent", confirmed |-> FALSE, pending |-> FALSE]
      /\ UNCHANGED <<stored, writes, owner, visit, list, listLoad, crudBusy, editor, changes, known>>
    BY DEF OpenDialog, NothingOpen, tableState
<1>2. list[r] \in 0..LastWrite
    <2>1. list \in RowStamps
        BY <1>1 DEF TableInv, TableTypes, Lists, NoList, ListedRows
    <2>2. QED
        BY <1>1, <2>1, StampRange DEF ListedRows, IsThere, RowStamps
<1>3. dialog' \in OpenDialogs /\ dialog'.asked = "sent" /\ ~ dialog'.preview.shown
    BY <1>1, <1>2 DEF OpenDialogs, Previews, NoPreview
<1>4. \A q \in changes : q.visit # visit
    BY <1>1, NoneUnderWay
<1>5. TableTypes'
    BY <1>1, <1>3 DEF TableInv, TableTypes
<1>6. OneAtATime' /\ StampsGrow' /\ ListIsCurrent' /\ RemovalIsTicked'
    BY <1>1, <1>3, <1>4 DEF TableInv, OneAtATime, StampsGrow, ListIsCurrent, RemovalIsTicked
<1>7. QED
    BY <1>5, <1>6 DEF TableInv

\* A dialog that has sent its deletion does not change until it is answered.
LEMMA DialogKeeps ==
    ASSUME TableInv, dialog \in OpenDialogs, dialog # NoDialog, dialog' \in OpenDialogs,
           dialog' # NoDialog, dialog'.preview.shown => dialog'.asked # "sent",
           dialog'.pending => dialog'.preview.shown,
           dialog'.pending = dialog.pending, dialog.pending => dialog.preview = dialog'.preview,
           dialog.pending => dialog.confirmed = dialog'.confirmed,
           dialog'.row = dialog.row, dialog'.stamp = dialog.stamp,
           UNCHANGED <<stored, writes, owner, visit, list, listLoad, crudBusy, editor, changes, known>>
    PROVE  TableInv'
<1>1. TableTypes'
    BY DEF TableInv, TableTypes
<1>2. OneAtATime'
    BY DEF TableInv, OneAtATime
<1>3. StampsGrow' /\ ListIsCurrent'
    BY DEF TableInv, StampsGrow, ListIsCurrent
<1>4. RemovalIsTicked'
    BY DEF TableInv, OneAtATime, RemovalIsTicked
<1>5. QED
    BY <1>1, <1>2, <1>3, <1>4 DEF TableInv

\* What is open is not the dialog that is not.
LEMMA OpenIsNotNone ==
    /\ \A d \in OpenDialogs : d # NoDialog
    /\ TableInv /\ dialog # NoDialog => dialog \in OpenDialogs
<1>1. ASSUME NEW d \in OpenDialogs PROVE d # NoDialog
    <2>1. d.row # "none" /\ NoDialog.row = "none"
        BY CrudScreenAssumption DEF OpenDialogs, NoDialog
    <2>2. QED
        BY <2>1
<1>2. QED
    BY <1>1 DEF TableInv, TableTypes

LEMMA PreviewArrivesKeeps == ASSUME TableInv, PreviewArrives PROVE TableInv'
<1>1. /\ dialog # NoDialog /\ dialog.asked = "sent" /\ dialog \in OpenDialogs
      /\ UNCHANGED <<stored, writes, owner, visit, list, listLoad, crudBusy, editor, changes, known>>
    BY OpenIsNotNone DEF PreviewArrives, tableState
<1>2. ~ dialog.preview.shown
    BY <1>1 DEF TableInv, RemovalIsTicked
<1>3. ~ dialog.pending
    <2>1. dialog.pending => dialog.preview.shown
        BY <1>1 DEF TableInv, RemovalIsTicked
    <2>2. QED
        BY <1>2, <2>1
<1>4. PICK p \in Previews :
        \/ p.shown /\ dialog' = [dialog EXCEPT !.asked = "shown", !.preview = p]
        \/ dialog' = [dialog EXCEPT !.asked = "failed"]
    <2>1. stored[dialog.row] \in [stamp : 0..Gone, linked : 0..LastWrite]
        BY <1>1 DEF TableInv, TableTypes, OpenDialogs
    <2>2. [shown |-> TRUE, linked |-> stored[dialog.row].linked,
           allowed |-> owner \/ stored[dialog.row].linked = 0] \in Previews
        BY <2>1 DEF Previews
    <2>3. NoPreview \in Previews
        BY DEF Previews
    <2>4. QED
        BY <2>2, <2>3 DEF PreviewArrives
<1>5. /\ dialog' \in OpenDialogs /\ dialog'.asked # "sent"
      /\ dialog'.pending = dialog.pending
      /\ dialog'.row = dialog.row /\ dialog'.stamp = dialog.stamp
    BY <1>1, <1>4 DEF OpenDialogs
<1>6. dialog' # NoDialog
    BY <1>5, OpenIsNotNone
<1>7. QED
    BY <1>1, <1>3, <1>5, <1>6, DialogKeeps

LEMMA ConfirmKeeps == ASSUME TableInv, Confirm PROVE TableInv'
<1>1. /\ dialog # NoDialog /\ dialog \in OpenDialogs /\ ~ dialog.pending
      /\ dialog' = [dialog EXCEPT !.confirmed = ~ @]
      /\ UNCHANGED <<stored, writes, owner, visit, list, listLoad, crudBusy, editor, changes, known>>
    BY OpenIsNotNone DEF Confirm, tableState
<1>2. /\ dialog' \in OpenDialogs /\ dialog'.asked = dialog.asked
      /\ dialog'.pending = dialog.pending /\ dialog'.preview = dialog.preview
      /\ dialog'.row = dialog.row /\ dialog'.stamp = dialog.stamp
    BY <1>1 DEF OpenDialogs
<1>3. dialog' # NoDialog
    BY <1>2, OpenIsNotNone
<1>4. dialog.preview.shown => dialog.asked # "sent"
    BY <1>1 DEF TableInv, RemovalIsTicked
<1>5. dialog.pending => dialog.preview.shown
    BY <1>1 DEF TableInv, RemovalIsTicked
<1>6. QED
    BY <1>1, <1>2, <1>3, <1>4, <1>5, DialogKeeps

LEMMA CancelDialogKeeps == ASSUME TableInv, CancelDialog PROVE TableInv'
<1>1. /\ dialog # NoDialog /\ ~ dialog.pending /\ dialog' = NoDialog
      /\ UNCHANGED <<stored, writes, owner, visit, list, listLoad, crudBusy, editor, changes, known>>
    BY DEF CancelDialog, tableState
<1>2. ~ crudBusy
    BY <1>1 DEF TableInv, OneAtATime
<1>3. \A q \in changes : q.visit # visit
    BY <1>1, <1>2, NoneUnderWay
<1>4. TableTypes' /\ StampsGrow' /\ ListIsCurrent'
    BY <1>1 DEF TableInv, TableTypes, StampsGrow, ListIsCurrent
<1>5. OneAtATime' /\ RemovalIsTicked'
    BY <1>1, <1>3 DEF TableInv, OneAtATime, RemovalIsTicked
<1>6. QED
    BY <1>4, <1>5 DEF TableInv

LEMMA RemoveRowKeeps == ASSUME TableInv, RemoveRow PROVE TableInv'
<1>1. /\ dialog # NoDialog /\ dialog \in OpenDialogs /\ ~ dialog.pending
      /\ dialog.preview.shown /\ (owner => dialog.confirmed)
      /\ dialog' = [dialog EXCEPT !.pending = TRUE]
      /\ changes' = changes \cup {Mutation("delete", dialog.row, dialog.stamp, dialog.preview.linked)}
      /\ UNCHANGED <<stored, writes, owner, visit, list, listLoad, crudBusy, editor, known>>
    BY OpenIsNotNone DEF RemoveRow, MayRemove, tableState
<1>2. PICK q : q = Mutation("delete", dialog.row, dialog.stamp, dialog.preview.linked)
    OBVIOUS
<1>3. dialog.preview.linked \in 0..LastWrite
    <2>1. dialog.preview \in Previews /\ dialog.preview # NoPreview
        BY <1>1 DEF OpenDialogs, NoPreview
    <2>2. QED
        BY <2>1 DEF Previews
<1>4. /\ q \in Mutations /\ q.kind = "delete" /\ q.visit = visit /\ q.result = "none"
      /\ q.stamp # Gone /\ q.row = dialog.row /\ q.stamp = dialog.stamp
      /\ q.linked = dialog.preview.linked
    BY <1>1, <1>2, <1>3, StampRange DEF Mutation, Mutations, TableInv, TableTypes, OpenDialogs
<1>5. /\ dialog' \in OpenDialogs /\ dialog'.pending /\ dialog'.asked = dialog.asked
      /\ dialog'.preview = dialog.preview /\ dialog'.confirmed = dialog.confirmed
      /\ dialog'.row = dialog.row /\ dialog'.stamp = dialog.stamp
    BY <1>1 DEF OpenDialogs
<1>6. dialog' # NoDialog
    BY <1>5, OpenIsNotNone
<1>7. ~ crudBusy /\ editor = NoEditor
    BY <1>1 DEF TableInv, OneAtATime
<1>8. \A x \in changes : x.visit # visit
    BY <1>1, <1>7, NoneUnderWay
<1>9. changes' = changes \cup {q}
    BY <1>1, <1>2
<1>10. TableTypes'
    BY <1>1, <1>4, <1>5, <1>9 DEF TableInv, TableTypes
<1>11. OneAtATime'
    <2>1. visit <= visit
        BY StampRange DEF TableInv, TableTypes
    <2>2. QED
        BY <1>1, <1>4, <1>5, <1>6, <1>7, <1>8, <1>9, <2>1 DEF TableInv, OneAtATime
<1>12. StampsGrow' /\ ListIsCurrent'
    BY <1>1, <1>4, <1>9 DEF TableInv, StampsGrow, ListIsCurrent
<1>13. RemovalIsTicked'
    BY <1>1, <1>4, <1>5, <1>6, <1>8, <1>9 DEF TableInv, RemovalIsTicked
<1>14. QED
    BY <1>10, <1>11, <1>12, <1>13 DEF TableInv

\* The server takes a change only if the stamp is the stored one; what is stored
\* then is newer.
LEMMA ServeChangeKeeps == ASSUME TableInv, NEW q \in changes, ServeChange(q) PROVE TableInv'
<1>1. /\ q.result = "none" /\ writes < LastWrite
      /\ UNCHANGED <<owner, visit, list, listLoad, crudBusy, editor, dialog, known>>
    BY DEF ServeChange, panel
<1>2. /\ q \in Mutations /\ q.stamp # Gone
      /\ writes \in 1..LastWrite /\ visit \in 1..LastVisit
      /\ stored \in [TableRows -> [stamp : 0..Gone, linked : 0..LastWrite]]
    BY <1>1 DEF TableInv, TableTypes, StampsGrow
<1>3. CASE AcceptsChange(q)
    <2>1. /\ writes' = writes + 1 /\ stored[q.row].stamp = q.stamp
          /\ stored' = [stored EXCEPT ![q.row] =
                IF q.kind = "delete" THEN [stamp |-> Gone, linked |-> 0]
                ELSE [@ EXCEPT !.stamp = writes + 1]]
          /\ changes' = (changes \ {q})
               \cup {[q EXCEPT !.result = "done", !.stamp = stored'[q.row].stamp]}
        BY <1>1, <1>3 DEF ServeChange, AcceptsChange
    <2>2. q.row \in TableRows /\ stored[q.row] \in [stamp : 0..Gone, linked : 0..LastWrite]
        BY <1>2 DEF Mutations
    <2>3. writes' \in 1..LastWrite
        BY <1>1, <1>2, <2>1, StampRange
    <2>4. /\ stored' \in [TableRows -> [stamp : 0..Gone, linked : 0..LastWrite]]
          /\ stored'[q.row].stamp \in {writes', Gone}
          /\ \A r \in TableRows \ {q.row} : stored'[r] = stored[r]
        <3>1. CASE q.kind = "delete"
            <4>1. stored' = [stored EXCEPT ![q.row] = [stamp |-> Gone, linked |-> 0]]
                BY <2>1, <3>1
            <4>2. [stamp |-> Gone, linked |-> 0] \in [stamp : 0..Gone, linked : 0..LastWrite]
                BY StampRange
            <4>3. QED
                BY <1>2, <2>2, <4>1, <4>2
        <3>2. CASE q.kind # "delete"
            <4>1. PICK x : x = [stored[q.row] EXCEPT !.stamp = writes + 1]
                OBVIOUS
            <4>2. x \in [stamp : 0..Gone, linked : 0..LastWrite] /\ x.stamp = writes'
                BY <2>1, <2>2, <2>3, <4>1, StampRange
            <4>3. stored' = [stored EXCEPT ![q.row] = x]
                BY <2>1, <3>2, <4>1
            <4>4. QED
                BY <1>2, <2>2, <4>2, <4>3
        <3>3. QED
            BY <3>1, <3>2
    <2>5. \A r \in TableRows : stored[r].stamp <= stored'[r].stamp
        <3>1. \A r \in TableRows : stored[r].stamp \in 0..Gone
            BY <1>2
        <3>2. q.stamp <= writes
            BY <1>2, <2>1, <2>2 DEF TableInv, StampsGrow
        <3>3. stored[q.row].stamp <= stored'[q.row].stamp
            BY <1>2, <2>1, <2>2, <2>3, <2>4, <3>1, <3>2, StampRange
        <3>4. QED
            BY <2>4, <3>1, <3>3, StampRange
    <2>6. PICK d : d = [q EXCEPT !.result = "done", !.stamp = stored'[q.row].stamp]
        OBVIOUS
    <2>7. /\ d \in Mutations /\ d.result = "done" /\ d.stamp = stored'[q.row].stamp
          /\ d.row = q.row /\ d.kind = q.kind /\ d.visit = q.visit
        BY <1>2, <2>2, <2>4, <2>6 DEF Mutations
    <2>8. changes' = (changes \ {q}) \cup {d}
        BY <2>1, <2>6
    <2>9. TableTypes'
        BY <1>1, <2>3, <2>4, <2>7, <2>8 DEF TableInv, TableTypes
    <2>10. OneAtATime'
        BY <1>1, <2>7, <2>8 DEF TableInv, OneAtATime
    <2>11. StampsGrow'
        <3>1. \A r \in TableRows : stored'[r].stamp <= writes' \/ stored'[r].stamp = Gone
            <4>1. \A r \in TableRows \ {q.row} : stored[r].stamp <= writes \/ stored[r].stamp = Gone
                BY DEF TableInv, StampsGrow
            <4>2. \A r \in TableRows : stored[r].stamp \in 0..Gone
                BY <1>2
            <4>3. QED
                BY <1>2, <2>1, <2>3, <2>4, <4>1, <4>2, StampRange
        <3>2. \A r \in TableRows : known'[r] <= stored'[r].stamp
            <4>1. \A r \in TableRows : known[r] <= stored[r].stamp /\ known[r] \in 0..Gone
                BY DEF TableInv, TableTypes, StampsGrow, RowStamps
            <4>2. \A r \in TableRows : stored[r].stamp \in 0..Gone /\ stored'[r].stamp \in 0..Gone
                BY <1>2, <2>4
            <4>3. QED
                BY <1>1, <2>5, <4>1, <4>2, StampRange
        <3>3. \A x \in changes' : x.result = "none" => x.stamp # Gone
            BY <2>7, <2>8 DEF TableInv, StampsGrow
        <3>4. ASSUME NEW x \in changes', x.result = "done" PROVE x.stamp <= stored'[x.row].stamp
            <4>1. CASE x = d
                BY <1>2, <2>2, <2>4, <2>7, <4>1, StampRange
            <4>2. CASE x \in changes
                <5>1. x.stamp <= stored[x.row].stamp /\ x \in Mutations
                    BY <3>4, <4>2 DEF TableInv, TableTypes, StampsGrow
                <5>2. stored[x.row].stamp \in 0..Gone /\ stored'[x.row].stamp \in 0..Gone
                      /\ x.stamp \in 0..Gone /\ stored[x.row].stamp <= stored'[x.row].stamp
                    BY <1>2, <2>4, <2>5, <5>1 DEF Mutations
                <5>3. QED
                    BY <5>1, <5>2, StampRange
            <4>3. QED
                BY <2>8, <4>1, <4>2
        <3>5. QED
            BY <3>1, <3>2, <3>3, <3>4 DEF StampsGrow
    <2>12. ListIsCurrent' /\ RemovalIsTicked'
        BY <1>1, <2>7, <2>8 DEF TableInv, ListIsCurrent, RemovalIsTicked
    <2>13. QED
        BY <2>9, <2>10, <2>11, <2>12 DEF TableInv
<1>4. CASE ~ AcceptsChange(q)
    <2>1. /\ changes' = (changes \ {q}) \cup {[q EXCEPT !.result = "refused"]}
          /\ UNCHANGED <<stored, writes>>
        BY <1>4 DEF ServeChange
    <2>2. PICK d : d = [q EXCEPT !.result = "refused"]
        OBVIOUS
    <2>3. /\ d \in Mutations /\ d.result = "refused"
          /\ d.row = q.row /\ d.kind = q.kind /\ d.visit = q.visit
        BY <1>2, <2>2 DEF Mutations
    <2>4. changes' = (changes \ {q}) \cup {d}
        BY <2>1, <2>2
    <2>5. TableTypes' /\ OneAtATime'
        BY <1>1, <2>1, <2>3, <2>4 DEF TableInv, TableTypes, OneAtATime
    <2>6. StampsGrow' /\ ListIsCurrent' /\ RemovalIsTicked'
        BY <1>1, <2>1, <2>3, <2>4 DEF TableInv, StampsGrow, ListIsCurrent, RemovalIsTicked
    <2>7. QED
        BY <2>5, <2>6 DEF TableInv
<1>5. QED
    BY <1>3, <1>4

LEMMA AnswerIgnoredKeeps == ASSUME TableInv, NEW q \in changes, AnswerIgnored(q) PROVE TableInv'
<1>1. /\ changes' = changes \ {q}
      /\ UNCHANGED <<stored, writes, owner, visit, list, listLoad, crudBusy, editor, dialog, known>>
    BY DEF AnswerIgnored, tableState, panel
<1>2. TableTypes' /\ OneAtATime' /\ StampsGrow' /\ ListIsCurrent' /\ RemovalIsTicked'
    BY <1>1 DEF TableInv, TableTypes, OneAtATime, StampsGrow, ListIsCurrent, RemovalIsTicked
<1>3. QED
    BY <1>2 DEF TableInv

LEMMA MutationArrivesKeeps == ASSUME TableInv, NEW q \in changes, MutationArrives(q) PROVE TableInv'
<1>1. /\ q.visit = visit /\ q.result = "done" /\ changes' = changes \ {q}
      /\ editor' = NoEditor /\ dialog' = NoDialog /\ crudBusy' = FALSE
      /\ known' = [known EXCEPT ![q.row] = q.stamp] /\ Reload
      /\ UNCHANGED <<stored, writes, owner, visit>>
    BY DEF MutationArrives, tableState
<1>2. q \in Mutations /\ q.stamp <= stored[q.row].stamp
    BY <1>1 DEF TableInv, TableTypes, StampsGrow
<1>3. known \in RowStamps /\ q.row \in TableRows /\ q.stamp \in 0..Gone
    BY <1>2 DEF TableInv, TableTypes, Mutations
<1>4. known' \in RowStamps
    BY <1>1, <1>3 DEF RowStamps
<1>5. crudBusy' \in BOOLEAN
    BY <1>1, Zenon
<1>6. TableTypes'
    BY <1>1, <1>4, <1>5, ReloadIsCurrent DEF TableInv, TableTypes, Forms
<1>7. \A x \in changes' : x.visit # visit
    BY <1>1 DEF TableInv, OneAtATime
<1>8. OneAtATime' /\ RemovalIsTicked'
    BY <1>1, <1>7 DEF TableInv, OneAtATime, RemovalIsTicked
<1>9. StampsGrow'
    <2>1. \A r \in TableRows : known'[r] <= stored'[r].stamp
        BY <1>1, <1>2, <1>3 DEF TableInv, StampsGrow, RowStamps
    <2>2. QED
        BY <1>1, <2>1 DEF TableInv, StampsGrow
<1>10. QED
    BY <1>1, <1>6, <1>8, <1>9, ReloadIsCurrent DEF TableInv

LEMMA MutationFailsKeeps == ASSUME TableInv, NEW q \in changes, MutationFails(q) PROVE TableInv'
<1>1. /\ q.visit = visit /\ changes' = changes \ {q}
      /\ UNCHANGED <<stored, writes, owner, visit, list, listLoad, editor, known>>
    BY DEF MutationFails, tableState
<1>2. q \in Mutations /\ \A x \in changes' : x.visit # visit
    BY <1>1 DEF TableInv, TableTypes, OneAtATime
<1>3. StampsGrow' /\ ListIsCurrent'
    BY <1>1 DEF TableInv, StampsGrow, ListIsCurrent
<1>4. CASE q.kind = "save"
    <2>1. crudBusy' = FALSE /\ dialog' = dialog
        BY <1>4 DEF MutationFails
    <2>2. crudBusy' \in BOOLEAN
        BY <2>1, Zenon
    <2>3. TableTypes'
        BY <1>1, <2>1, <2>2 DEF TableInv, TableTypes
    <2>4. OneAtATime' /\ RemovalIsTicked'
        BY <1>1, <1>2, <2>1 DEF TableInv, OneAtATime, RemovalIsTicked
    <2>5. QED
        BY <1>3, <2>3, <2>4 DEF TableInv
<1>5. CASE q.kind = "delete"
    <2>1. dialog # NoDialog /\ dialog \in OpenDialogs /\ dialog.pending
        BY <1>1, <1>5, OpenIsNotNone DEF TableInv, OneAtATime
    <2>2. PICK p : p = (IF owner THEN NoPreview ELSE dialog.preview)
        OBVIOUS
    <2>3. dialog' = [dialog EXCEPT !.pending = FALSE, !.confirmed = FALSE, !.preview = p]
          /\ crudBusy' = crudBusy
        BY <1>5, <2>2 DEF MutationFails
    <2>4. p \in Previews /\ (p.shown => dialog.preview.shown)
        BY <2>1, <2>2 DEF OpenDialogs, Previews, NoPreview
    <2>5. /\ dialog' \in OpenDialogs /\ ~ dialog'.pending /\ dialog'.asked = dialog.asked
          /\ dialog'.preview = p
        BY <2>1, <2>3, <2>4 DEF OpenDialogs
    <2>6. dialog' # NoDialog
        BY <2>5, OpenIsNotNone
    <2>7. TableTypes'
        BY <1>1, <2>3, <2>5 DEF TableInv, TableTypes
    <2>8. editor = NoEditor
        BY <2>1 DEF TableInv, OneAtATime
    <2>9. OneAtATime' /\ RemovalIsTicked'
        BY <1>1, <1>2, <2>1, <2>3, <2>4, <2>5, <2>6, <2>8 DEF TableInv, OneAtATime, RemovalIsTicked
    <2>10. QED
        BY <1>3, <2>7, <2>9 DEF TableInv
<1>6. QED
    BY <1>2, <1>4, <1>5 DEF Mutations

LEMMA OthersWriteKeeps == ASSUME TableInv, NEW r \in TableRows, OthersWrite(r) PROVE TableInv'
<1>1. /\ writes < LastWrite /\ IsThere(stored[r].stamp) /\ writes' = writes + 1
      /\ UNCHANGED <<owner, visit, list, listLoad, crudBusy, editor, dialog, known, changes>>
    BY DEF OthersWrite, panel
<1>2. /\ stored \in [TableRows -> [stamp : 0..Gone, linked : 0..LastWrite]]
      /\ writes \in 1..LastWrite /\ writes' \in 1..LastWrite
    BY <1>1, StampRange DEF TableInv, TableTypes
<1>3. PICK x \in [stamp : 0..Gone, linked : 0..LastWrite] :
        stored' = [stored EXCEPT ![r] = x] /\ x.stamp \in {writes', stored[r].stamp, Gone}
    <2>1. stored[r] \in [stamp : 0..Gone, linked : 0..LastWrite]
        BY <1>2
    <2>2. CASE stored' = [stored EXCEPT ![r].stamp = writes + 1]
        <3>1. PICK x : x = [stored[r] EXCEPT !.stamp = writes + 1]
            OBVIOUS
        <3>2. x \in [stamp : 0..Gone, linked : 0..LastWrite] /\ x.stamp = writes'
            BY <1>1, <1>2, <2>1, <3>1, StampRange
        <3>3. QED
            BY <2>2, <3>1, <3>2
    <2>3. CASE stored' = [stored EXCEPT ![r].linked = writes + 1]
        <3>1. PICK x : x = [stored[r] EXCEPT !.linked = writes + 1]
            OBVIOUS
        <3>2. x \in [stamp : 0..Gone, linked : 0..LastWrite] /\ x.stamp = stored[r].stamp
            BY <1>1, <1>2, <2>1, <3>1, StampRange
        <3>3. QED
            BY <2>3, <3>1, <3>2
    <2>4. CASE stored' = [stored EXCEPT ![r] = [stamp |-> Gone, linked |-> 0]]
        <3>1. [stamp |-> Gone, linked |-> 0] \in [stamp : 0..Gone, linked : 0..LastWrite]
            BY StampRange
        <3>2. QED
            BY <2>4, <3>1
    <2>5. QED
        BY <2>2, <2>3, <2>4 DEF OthersWrite
<1>4. /\ stored' \in [TableRows -> [stamp : 0..Gone, linked : 0..LastWrite]]
      /\ stored'[r].stamp = x.stamp /\ \A s \in TableRows \ {r} : stored'[s] = stored[s]
    BY <1>2, <1>3
<1>5. \A s \in TableRows : stored[s].stamp \in 0..Gone /\ stored'[s].stamp \in 0..Gone
    BY <1>2, <1>4
<1>6. \A s \in TableRows : stored[s].stamp <= writes \/ stored[s].stamp = Gone
    BY DEF TableInv, StampsGrow
<1>7. \A s \in TableRows : stored[s].stamp <= stored'[s].stamp
    <2>1. stored[r].stamp <= x.stamp
        BY <1>1, <1>2, <1>3, <1>5, <1>6, StampRange DEF IsThere
    <2>2. QED
        BY <1>4, <1>5, <2>1, StampRange
<1>8. TableTypes' /\ OneAtATime' /\ ListIsCurrent' /\ RemovalIsTicked'
    BY <1>1, <1>2, <1>4 DEF TableInv, TableTypes, OneAtATime, ListIsCurrent, RemovalIsTicked
<1>9. StampsGrow'
    <2>1. \A s \in TableRows : stored'[s].stamp <= writes' \/ stored'[s].stamp = Gone
        BY <1>1, <1>2, <1>3, <1>4, <1>5, <1>6, StampRange
    <2>2. \A s \in TableRows : known[s] <= stored[s].stamp /\ known[s] \in 0..Gone
        BY DEF TableInv, TableTypes, StampsGrow, RowStamps
    <2>3. \A s \in TableRows : known'[s] <= stored'[s].stamp
        BY <1>1, <1>5, <1>7, <2>2, StampRange
    <2>4. \A q \in changes : q.result = "done" => q.stamp <= stored'[q.row].stamp
        <3>1. \A q \in changes : q.row \in TableRows /\ q.stamp \in 0..Gone
            BY DEF TableInv, TableTypes, Mutations
        <3>2. QED
            BY <1>5, <1>7, <3>1, StampRange DEF TableInv, StampsGrow
    <2>5. QED
        BY <1>1, <2>1, <2>3, <2>4 DEF TableInv, StampsGrow
<1>10. QED
    BY <1>8, <1>9 DEF TableInv

LEMMA TableSteps == TableInv /\ [CrudScreenNext]_crudScreenVars => TableInv'
<1> SUFFICES ASSUME TableInv, [CrudScreenNext]_crudScreenVars PROVE TableInv'
    OBVIOUS
<1>1. CASE TimerEnds \/ ServerLists \/ ListArrives \/ ListFails \/ Search \/ RetryList \/ ComeBack
    BY <1>1, ListKeeps, RetryListKeeps, ComeBackKeeps
<1>2. CASE CancelForm
    <2>1. CASE TableRows = {}
        <3>1. editor = NoEditor
            BY <2>1 DEF TableInv, TableTypes, Forms
        <3>2. QED
            BY <1>2, <3>1 DEF CancelForm
    <2>2. QED
        BY <1>2, <2>1, FormKeeps
<1>3. CASE Save \/ PreviewArrives \/ Confirm \/ RemoveRow \/ CancelDialog
    BY <1>3, SaveKeeps, PreviewArrivesKeeps, ConfirmKeeps, RemoveRowKeeps, CancelDialogKeeps
<1>4. CASE \E r \in TableRows : OpenForm(r) \/ OpenDialog(r) \/ OthersWrite(r)
    BY <1>4, FormKeeps, OpenDialogKeeps, OthersWriteKeeps
<1>5. CASE \E q \in changes : ServeChange(q) \/ AnswerIgnored(q) \/ MutationArrives(q) \/ MutationFails(q)
    BY <1>5, ServeChangeKeeps, AnswerIgnoredKeeps, MutationArrivesKeeps, MutationFailsKeeps
<1>6. CASE UNCHANGED crudScreenVars
    BY <1>6 DEF crudScreenVars, TableInv, TableTypes, OneAtATime, StampsGrow, ListIsCurrent,
       RemovalIsTicked
<1>7. QED
    BY <1>1, <1>2, <1>3, <1>4, <1>5, <1>6 DEF CrudScreenNext

\* Every variable of the page of a table keeps its type, for any rows, writes
\* and visits.
THEOREM TablePageTypes == CrudScreenSpec => []CrudScreenTypeOK
<1>1. TableInv => CrudScreenTypeOK
    <2> SUFFICES ASSUME TableInv PROVE CrudScreenTypeOK
        OBVIOUS
    <2>1. DOMAIN list \in {{}, TableRows}
        BY DEF TableInv, TableTypes, Lists, NoList, RowStamps
    <2>2. editor.row \in TableRows \cup {"none"} /\ dialog.row \in TableRows \cup {"none"}
        BY DEF TableInv, TableTypes, Forms, NoEditor, NoDialog, OpenDialogs
    <2>3. \A q \in changes : q.kind \in {"save", "delete"} /\ q.visit <= visit
        BY DEF TableInv, TableTypes, OneAtATime, Mutations
    <2>4. QED
        BY <2>1, <2>2, <2>3 DEF TableInv, TableTypes, CrudScreenTypeOK
<1>2. QED
    BY <1>1, TableStarts, TableSteps, PTL DEF CrudScreenSpec

\* A visit has one change under way, and the list is never older than what the
\* page was told of its own changes (CrudDataPanel.tsx).
THEOREM TablePageIsCurrent == CrudScreenSpec => []ListFollowsChanges
<1>1. TableInv => ListFollowsChanges
    <2>1. TableInv => \A q \in changes : q.kind \in {"save", "delete"}
        BY DEF TableInv, TableTypes, Mutations
    <2>2. QED
        BY <2>1 DEF TableInv, OneAtATime, ListIsCurrent, ListFollowsChanges
<1>2. QED
    BY <1>1, TableStarts, TableSteps, PTL DEF CrudScreenSpec

\* What is removed was shown, and ticked by an owner (CrudDeleteDialog.tsx).
THEOREM TableRemovalsWereTicked == CrudScreenSpec => DeletionsWereTicked
<1>1. TableInv /\ [CrudScreenNext]_crudScreenVars =>
        [\A q \in changes :
           LET r == q.row
               carriedOut == /\ q.kind = "delete" /\ q \notin changes'
                             /\ stored[r].stamp # Gone /\ stored'[r].stamp = Gone
           IN carriedOut /\ q.visit = visit =>
                  /\ dialog.row = r /\ dialog.stamp = stored[r].stamp
                  /\ dialog.preview.shown /\ dialog.preview.linked = stored[r].linked
                  /\ owner => dialog.confirmed]_crudScreenVars
    <2> SUFFICES ASSUME TableInv, CrudScreenNext, NEW q \in changes,
                        q.kind = "delete", q \notin changes', q.visit = visit,
                        stored'[q.row] # stored[q.row]
                 PROVE  /\ dialog.row = q.row /\ dialog.stamp = stored[q.row].stamp
                        /\ dialog.preview.shown /\ dialog.preview.linked = stored[q.row].linked
                        /\ owner => dialog.confirmed
        OBVIOUS
    <2>1. stored' # stored /\ changes' # changes
        OBVIOUS
    <2>2. PICK x \in changes : ServeChange(x)
        BY <2>1 DEF CrudScreenNext, TimerEnds, ServerLists, ListArrives, ListFails, Search, RetryList,
           ComeBack, CancelForm, Save, PreviewArrives, Confirm, RemoveRow, CancelDialog, OpenForm,
           OpenDialog, OthersWrite, AnswerIgnored, MutationArrives, MutationFails, tableState
    <2>3. x = q
        BY <2>2 DEF ServeChange
    <2>4. q.result = "none" /\ AcceptsChange(q)
        BY <2>1, <2>2, <2>3 DEF ServeChange
    <2>5. /\ dialog.row = q.row /\ dialog.stamp = q.stamp /\ dialog.preview.shown
          /\ dialog.preview.linked = q.linked /\ (owner => dialog.confirmed)
        BY <2>4 DEF TableInv, RemovalIsTicked
    <2>6. QED
        BY <2>4, <2>5 DEF AcceptsChange
<1>2. QED
    BY <1>1, TableStarts, TableSteps, PTL DEF CrudScreenSpec, DeletionsWereTicked

\* The page of a table: what it shows is current, what it removes was ticked.
THEOREM TablePageCorrect ==
  CrudScreenSpec => []ListFollowsChanges /\ DeletionsWereTicked
    BY TablePageIsCurrent, TableRemovalsWereTicked

-----------------------------------------------------------------------------
(***************************************************************************)
(* AdminPanels, the roles: a role is shown as it was told, and given as it *)
(* was confirmed.                                                          *)
(***************************************************************************)

RoleRows == [role : GivenRoles, since : 0..LastRoleChange]
MemberLists == {NoMembers} \cup [PageMembers -> RoleRows]
Sessions == {NotRead} \cup RoleRows
Confirmations == {NoRoleChange} \cup [member : PageMembers, from : GivenRoles, to : GivenRoles]
RoleRequests == [member : PageMembers, from : GivenRoles, to : GivenRoles,
                 visit : 1..LastRolesVisit, result : {"none", "done", "refused"},
                 since : 0..LastRoleChange]

RolesTypes ==
    /\ memberRole \in [PageMembers -> RoleRows]
    /\ roleChanges \in 0..LastRoleChange
    /\ mySession \in Sessions
    /\ sessionRead \in [phase : {"idle", "sent", "answered"}, answer : Sessions]
    /\ ownTold \in 0..LastRoleChange
    /\ rolesVisit \in 1..LastRolesVisit
    /\ memberList \in MemberLists
    /\ memberLoad \in [phase : {"absent", "timer", "sent", "answered", "idle"}, rows : MemberLists]
    /\ confirming \in Confirmations /\ savingRole \in BOOLEAN
    /\ roleRequests \subseteq RoleRequests
    /\ toldRole \in [PageMembers -> 0..LastRoleChange]

\* A page that is away shows nothing and waits for nothing; a list that has not
\* arrived is empty.
AwayIsEmpty ==
    /\ ~ IsShown => memberList = NoMembers /\ confirming = NoRoleChange /\ ~ savingRole
    /\ memberLoad.phase # "answered" => memberLoad.rows = NoMembers

\* A visit has one request under way, and its confirmation stays open.
ConfirmationStays ==
    /\ \A q, r \in roleRequests : q.visit = r.visit => q = r
    /\ \A q \in roleRequests :
          /\ q.visit <= rolesVisit
          /\ q.visit = rolesVisit /\ IsShown =>
                /\ savingRole
                /\ confirming = [member |-> q.member, from |-> q.from, to |-> q.to]

\* What was told is not newer than what is stored, and what is shown, or about
\* to be, is not older than what was told.
ToldIsStored ==
    /\ ownTold <= memberRole[Me].since
    /\ \A m \in PageMembers :
          /\ memberRole[m].since <= roleChanges
          /\ toldRole[m] <= memberRole[m].since
    /\ \A q \in roleRequests : q.result = "done" => q.since <= memberRole[q.member].since

ShownIsAsTold ==
    /\ mySession # NotRead => ownTold <= mySession.since
    /\ sessionRead.phase = "answered" =>
          sessionRead.answer # NotRead /\ ownTold <= sessionRead.answer.since
    /\ \A m \in DOMAIN memberList : toldRole[m] <= memberList[m].since
    /\ \A m \in DOMAIN memberLoad.rows : toldRole[m] <= memberLoad.rows[m].since

RolesInv == RolesTypes /\ AwayIsEmpty /\ ConfirmationStays /\ ToldIsStored /\ ShownIsAsTold

LEMMA NothingIsApart ==
    /\ DOMAIN NoMembers = {} /\ NoMembers \in MemberLists
    /\ NoRoleChange.member \notin PageMembers /\ NotRead.role \notin GivenRoles
BY RolesScreenAssumption DEF NoMembers, MemberLists, NoRoleChange, NotRead

LEMMA MembersTimerKeeps ==
  ASSUME RolesInv, MembersTimer
  PROVE  RolesInv'
<1>1. RolesTypes'
    BY RolesScreenAssumption, NothingIsApart DEF MembersTimer, roleTable, session,
       ReloadMembers, RolesWaiting, MembersLoaded, Unloaded, IsShown, RolesTypes, RoleRows,
       MemberLists, Sessions, Confirmations, RoleRequests, RolesInv
<1>2. AwayIsEmpty'
    BY RolesScreenAssumption, NothingIsApart DEF MembersTimer, roleTable, session,
       ReloadMembers, RolesWaiting, MembersLoaded, Unloaded, IsShown, AwayIsEmpty, RolesTypes,
       RolesInv
<1>3. ConfirmationStays'
    BY RolesScreenAssumption, NothingIsApart DEF MembersTimer, roleTable, session,
       ReloadMembers, RolesWaiting, MembersLoaded, Unloaded, IsShown, ConfirmationStays,
       AwayIsEmpty, RolesInv
<1>4. ToldIsStored'
    BY RolesScreenAssumption, NothingIsApart DEF MembersTimer, roleTable, session,
       ReloadMembers, RolesWaiting, MembersLoaded, Unloaded, IsShown, ToldIsStored,
       RolesTypes, RoleRows, MemberLists, Sessions, Confirmations, RoleRequests, RolesInv
<1>5. ShownIsAsTold'
    BY RolesScreenAssumption, NothingIsApart DEF MembersTimer, roleTable, session,
       ReloadMembers, RolesWaiting, MembersLoaded, Unloaded, IsShown, ShownIsAsTold,
       ToldIsStored, AwayIsEmpty, RolesTypes, RoleRows, MemberLists, Sessions, Confirmations,
       RoleRequests, RolesInv
<1>6. QED
    BY <1>1, <1>2, <1>3, <1>4, <1>5 DEF RolesInv

LEMMA ServerListsMembersKeeps ==
  ASSUME RolesInv, ServerListsMembers
  PROVE  RolesInv'
<1>1. RolesTypes'
    BY RolesScreenAssumption, NothingIsApart DEF ServerListsMembers, roleTable, session,
       ReloadMembers, RolesWaiting, MembersLoaded, Unloaded, IsShown, RolesTypes, RoleRows,
       MemberLists, Sessions, Confirmations, RoleRequests, RolesInv
<1>2. AwayIsEmpty'
    BY RolesScreenAssumption, NothingIsApart DEF ServerListsMembers, roleTable, session,
       ReloadMembers, RolesWaiting, MembersLoaded, Unloaded, IsShown, AwayIsEmpty, RolesTypes,
       RolesInv
<1>3. ConfirmationStays'
    BY RolesScreenAssumption, NothingIsApart DEF ServerListsMembers, roleTable, session,
       ReloadMembers, RolesWaiting, MembersLoaded, Unloaded, IsShown, ConfirmationStays,
       AwayIsEmpty, RolesInv
<1>4. ToldIsStored'
    BY RolesScreenAssumption, NothingIsApart DEF ServerListsMembers, roleTable, session,
       ReloadMembers, RolesWaiting, MembersLoaded, Unloaded, IsShown, ToldIsStored,
       RolesTypes, RoleRows, MemberLists, Sessions, Confirmations, RoleRequests, RolesInv
<1>5. ShownIsAsTold'
    BY RolesScreenAssumption, NothingIsApart DEF ServerListsMembers, roleTable, session,
       ReloadMembers, RolesWaiting, MembersLoaded, Unloaded, IsShown, ShownIsAsTold,
       ToldIsStored, AwayIsEmpty, RolesTypes, RoleRows, MemberLists, Sessions, Confirmations,
       RoleRequests, RolesInv
<1>6. QED
    BY <1>1, <1>2, <1>3, <1>4, <1>5 DEF RolesInv

LEMMA MembersArriveKeeps ==
  ASSUME RolesInv, MembersArrive
  PROVE  RolesInv'
<1>1. RolesTypes'
    BY RolesScreenAssumption, NothingIsApart DEF MembersArrive, roleTable, session,
       ReloadMembers, RolesWaiting, MembersLoaded, Unloaded, IsShown, RolesTypes, RoleRows,
       MemberLists, Sessions, Confirmations, RoleRequests, RolesInv
<1>2. AwayIsEmpty'
    BY RolesScreenAssumption, NothingIsApart DEF MembersArrive, roleTable, session,
       ReloadMembers, RolesWaiting, MembersLoaded, Unloaded, IsShown, AwayIsEmpty, RolesTypes,
       RolesInv
<1>3. ConfirmationStays'
    BY RolesScreenAssumption, NothingIsApart DEF MembersArrive, roleTable, session,
       ReloadMembers, RolesWaiting, MembersLoaded, Unloaded, IsShown, ConfirmationStays,
       AwayIsEmpty, RolesInv
<1>4. ToldIsStored'
    BY RolesScreenAssumption, NothingIsApart DEF MembersArrive, roleTable, session,
       ReloadMembers, RolesWaiting, MembersLoaded, Unloaded, IsShown, ToldIsStored,
       RolesTypes, RoleRows, MemberLists, Sessions, Confirmations, RoleRequests, RolesInv
<1>5. ShownIsAsTold'
    BY RolesScreenAssumption, NothingIsApart DEF MembersArrive, roleTable, session,
       ReloadMembers, RolesWaiting, MembersLoaded, Unloaded, IsShown, ShownIsAsTold,
       ToldIsStored, AwayIsEmpty, RolesTypes, RoleRows, MemberLists, Sessions, Confirmations,
       RoleRequests, RolesInv
<1>6. QED
    BY <1>1, <1>2, <1>3, <1>4, <1>5 DEF RolesInv

LEMMA SearchMembersKeeps ==
  ASSUME RolesInv, SearchMembers
  PROVE  RolesInv'
<1>1. RolesTypes'
    BY RolesScreenAssumption, NothingIsApart DEF SearchMembers, roleTable, session,
       ReloadMembers, RolesWaiting, MembersLoaded, Unloaded, IsShown, RolesTypes, RoleRows,
       MemberLists, Sessions, Confirmations, RoleRequests, RolesInv
<1>2. AwayIsEmpty'
    BY RolesScreenAssumption, NothingIsApart DEF SearchMembers, roleTable, session,
       ReloadMembers, RolesWaiting, MembersLoaded, Unloaded, IsShown, AwayIsEmpty, RolesTypes,
       RolesInv
<1>3. ConfirmationStays'
    BY RolesScreenAssumption, NothingIsApart DEF SearchMembers, roleTable, session,
       ReloadMembers, RolesWaiting, MembersLoaded, Unloaded, IsShown, ConfirmationStays,
       AwayIsEmpty, RolesInv
<1>4. ToldIsStored'
    BY RolesScreenAssumption, NothingIsApart DEF SearchMembers, roleTable, session,
       ReloadMembers, RolesWaiting, MembersLoaded, Unloaded, IsShown, ToldIsStored,
       RolesTypes, RoleRows, MemberLists, Sessions, Confirmations, RoleRequests, RolesInv
<1>5. ShownIsAsTold'
    BY RolesScreenAssumption, NothingIsApart DEF SearchMembers, roleTable, session,
       ReloadMembers, RolesWaiting, MembersLoaded, Unloaded, IsShown, ShownIsAsTold,
       ToldIsStored, AwayIsEmpty, RolesTypes, RoleRows, MemberLists, Sessions, Confirmations,
       RoleRequests, RolesInv
<1>6. QED
    BY <1>1, <1>2, <1>3, <1>4, <1>5 DEF RolesInv

LEMMA ChooseRoleKeeps ==
  ASSUME RolesInv, NEW m \in PageMembers, NEW r \in GivenRoles, ChooseRole(m, r)
  PROVE  RolesInv'
<1>1. RolesTypes'
    BY RolesScreenAssumption, NothingIsApart DEF ChooseRole, roleTable, session, IsShown,
       RolesTypes, RoleRows, MemberLists, Sessions, Confirmations, RoleRequests, RolesInv
<1>2. AwayIsEmpty'
    BY RolesScreenAssumption, NothingIsApart DEF ChooseRole, roleTable, session, IsShown,
       AwayIsEmpty, RolesTypes, RolesInv
<1>3. ConfirmationStays'
    BY RolesScreenAssumption, NothingIsApart DEF ChooseRole, roleTable, session, IsShown,
       ConfirmationStays, AwayIsEmpty, RolesInv
<1>4. ToldIsStored'
    BY RolesScreenAssumption, NothingIsApart DEF ChooseRole, roleTable, session, IsShown,
       ToldIsStored, RolesTypes, RoleRows, MemberLists, Sessions, Confirmations, RoleRequests,
       RolesInv
<1>5. ShownIsAsTold'
    BY RolesScreenAssumption, NothingIsApart DEF ChooseRole, roleTable, session, IsShown,
       ShownIsAsTold, ToldIsStored, AwayIsEmpty, RolesTypes, RoleRows, MemberLists, Sessions,
       Confirmations, RoleRequests, RolesInv
<1>6. QED
    BY <1>1, <1>2, <1>3, <1>4, <1>5 DEF RolesInv

LEMMA CancelChoiceKeeps ==
  ASSUME RolesInv, CancelChoice
  PROVE  RolesInv'
<1>1. RolesTypes'
    BY RolesScreenAssumption, NothingIsApart DEF CancelChoice, roleTable, session, IsShown,
       RolesTypes, RoleRows, MemberLists, Sessions, Confirmations, RoleRequests, RolesInv
<1>2. AwayIsEmpty'
    BY RolesScreenAssumption, NothingIsApart DEF CancelChoice, roleTable, session, IsShown,
       AwayIsEmpty, RolesTypes, RolesInv
<1>3. ConfirmationStays'
    BY RolesScreenAssumption, NothingIsApart DEF CancelChoice, roleTable, session, IsShown,
       ConfirmationStays, AwayIsEmpty, RolesInv
<1>4. ToldIsStored'
    BY RolesScreenAssumption, NothingIsApart DEF CancelChoice, roleTable, session, IsShown,
       ToldIsStored, RolesTypes, RoleRows, MemberLists, Sessions, Confirmations, RoleRequests,
       RolesInv
<1>5. ShownIsAsTold'
    BY RolesScreenAssumption, NothingIsApart DEF CancelChoice, roleTable, session, IsShown,
       ShownIsAsTold, ToldIsStored, AwayIsEmpty, RolesTypes, RoleRows, MemberLists, Sessions,
       Confirmations, RoleRequests, RolesInv
<1>6. QED
    BY <1>1, <1>2, <1>3, <1>4, <1>5 DEF RolesInv

LEMMA SaveRoleKeeps ==
  ASSUME RolesInv, SaveRole
  PROVE  RolesInv'
<1>1. RolesTypes'
    BY RolesScreenAssumption, NothingIsApart DEF SaveRole, roleTable, session, IsShown,
       RolesTypes, RoleRows, MemberLists, Sessions, Confirmations, RoleRequests, RolesInv
<1>2. AwayIsEmpty'
    BY RolesScreenAssumption, NothingIsApart DEF SaveRole, roleTable, session, IsShown,
       AwayIsEmpty, RolesTypes, RolesInv
<1>3. ConfirmationStays'
    <2> DEFINE new == [member |-> confirming.member, from |-> confirming.from, to |-> confirming.to,
                       visit |-> rolesVisit, result |-> "none", since |-> 0]
    <2>1. roleRequests' = roleRequests \cup {new} /\ IsShown
        BY DEF SaveRole, AwayIsEmpty, RolesInv
    <2>2. \A q \in roleRequests : q.visit # rolesVisit
        BY <2>1 DEF SaveRole, ConfirmationStays, RolesInv
    <2>3. confirming = [member |-> new.member, from |-> new.from, to |-> new.to]
        BY DEF SaveRole, Confirmations, RolesTypes, RolesInv
    <2>4. new.visit = rolesVisit /\ rolesVisit \in Nat
        BY DEF RolesTypes, RolesInv
    <2>5. /\ savingRole' /\ confirming' = confirming /\ rolesVisit' = rolesVisit
          /\ memberLoad' = memberLoad
        BY DEF SaveRole
    <2> HIDE DEF new
    <2>6. QED
        BY <2>1, <2>2, <2>3, <2>4, <2>5 DEF ConfirmationStays, IsShown, RolesInv
<1>4. ToldIsStored'
    BY RolesScreenAssumption, NothingIsApart DEF SaveRole, roleTable, session, IsShown,
       ToldIsStored, RolesTypes, RoleRows, MemberLists, Sessions, Confirmations, RoleRequests,
       RolesInv
<1>5. ShownIsAsTold'
    BY RolesScreenAssumption, NothingIsApart DEF SaveRole, roleTable, session, IsShown,
       ShownIsAsTold, ToldIsStored, AwayIsEmpty, RolesTypes, RoleRows, MemberLists, Sessions,
       Confirmations, RoleRequests, RolesInv
<1>6. QED
    BY <1>1, <1>2, <1>3, <1>4, <1>5 DEF RolesInv

LEMMA ServerChangesRoleKeeps ==
  ASSUME RolesInv, NEW q \in roleRequests, ServerChangesRole(q)
  PROVE  RolesInv'
<1>1. RolesTypes'
    <2> DEFINE done == [q EXCEPT !.result = "done", !.since = roleChanges + 1]
    <2> DEFINE same == [q EXCEPT !.result = "done", !.since = memberRole[q.member].since]
    <2> DEFINE refused == [q EXCEPT !.result = "refused", !.since = 0]
    <2>1. q \in RoleRequests /\ refused \in RoleRequests /\ same \in RoleRequests
        <3>1. q \in RoleRequests
            BY DEF RolesTypes, RolesInv
        <3>2. memberRole[q.member].since \in 0..LastRoleChange /\ 0 \in 0..LastRoleChange
            BY <3>1, RolesScreenAssumption DEF RolesTypes, RoleRows, RoleRequests, RolesInv
        <3>3. QED
            BY <3>1, <3>2 DEF RoleRequests
    <2>2. CASE roleTable' = roleTable /\ roleRequests' = (roleRequests \ {q}) \cup {refused}
        BY <2>1, <2>2 DEF ServerChangesRole, roleTable, session, RolesTypes, RolesInv
    <2>5. CASE roleTable' = roleTable /\ roleRequests' = (roleRequests \ {q}) \cup {same}
        BY <2>1, <2>5 DEF ServerChangesRole, roleTable, session, RolesTypes, RolesInv
    <2>3. CASE /\ Sets(q.member, q.to) /\ roleChanges < LastRoleChange
               /\ roleRequests' = (roleRequests \ {q}) \cup {done}
        <3>1. roleChanges + 1 \in 0..LastRoleChange
            BY <2>3, RolesScreenAssumption DEF RolesTypes, RolesInv
        <3>2. [role |-> q.to, since |-> roleChanges + 1] \in RoleRows /\ done \in RoleRequests
            BY <2>1, <3>1 DEF RoleRows, RoleRequests
        <3>3. memberRole' \in [PageMembers -> RoleRows]
            BY <2>3, <3>2 DEF Sets, RolesTypes, RolesInv
        <3>4. QED
            BY <2>1, <2>3, <3>1, <3>2, <3>3 DEF Sets, ServerChangesRole, session, RolesTypes, RolesInv
    <2>4. QED
        BY <2>2, <2>3, <2>5 DEF ServerChangesRole, AnswerRole, MayChange, roleTable
<1>2. AwayIsEmpty'
    BY DEF ServerChangesRole, IsShown, AwayIsEmpty, RolesInv
<1>3. ConfirmationStays'
    <2>1. PICK r : /\ r.member = q.member /\ r.from = q.from /\ r.to = q.to /\ r.visit = q.visit
                   /\ roleRequests' = (roleRequests \ {q}) \cup {r}
        <3>1. q \in RoleRequests
            BY DEF RolesTypes, RolesInv
        <3>2. QED
            BY <3>1 DEF ServerChangesRole, AnswerRole, RoleRequests
    <2>2. QED
        BY <2>1 DEF ServerChangesRole, IsShown, ConfirmationStays, RolesInv
<1>4. ToldIsStored'
    <2>1. /\ q \in RoleRequests /\ roleChanges \in Nat
          /\ \A m \in PageMembers : memberRole[m].since \in Nat
        BY DEF RolesTypes, RoleRows, RolesInv
    <2>2. CASE /\ roleTable' = roleTable
               /\ roleRequests' = (roleRequests \ {q})
                                     \cup {[q EXCEPT !.result = "refused", !.since = 0]}
        BY <2>1, <2>2 DEF ServerChangesRole, roleTable, session, RoleRequests, ToldIsStored, RolesInv
    <2>5. CASE /\ roleTable' = roleTable
               /\ roleRequests' = (roleRequests \ {q}) \cup
                      {[q EXCEPT !.result = "done", !.since = memberRole[q.member].since]}
        <3> DEFINE same == [q EXCEPT !.result = "done", !.since = memberRole[q.member].since]
        <3>1. same.member = q.member /\ same.since = memberRole[q.member].since
            BY <2>1 DEF RoleRequests
        <3>2. roleRequests' = (roleRequests \ {q}) \cup {same}
            BY <2>5
        <3> HIDE DEF same
        <3>3. /\ memberRole' = memberRole /\ roleChanges' = roleChanges
              /\ ownTold' = ownTold /\ toldRole' = toldRole
            BY <2>5 DEF ServerChangesRole, roleTable, session
        <3>4. memberRole[q.member].since \in Nat
            BY <2>1 DEF RoleRequests
        <3>5. \A p \in roleRequests' : p.result = "done" => p.since <= memberRole'[p.member].since
            BY <3>1, <3>2, <3>3, <3>4 DEF ToldIsStored, RolesInv
        <3>6. QED
            BY <3>3, <3>5 DEF ToldIsStored, RolesInv
    <2>3. CASE /\ Sets(q.member, q.to)
               /\ roleRequests' = (roleRequests \ {q}) \cup
                      {[q EXCEPT !.result = "done", !.since = roleChanges + 1]}
        <3>1. /\ \A m \in PageMembers \ {q.member} : memberRole'[m] = memberRole[m]
              /\ memberRole'[q.member].since = roleChanges + 1 /\ roleChanges' = roleChanges + 1
              /\ q.member \in PageMembers
            BY <2>1, <2>3 DEF Sets, RoleRequests, RolesTypes, RolesInv
        <3>2. \A m \in PageMembers :
                 memberRole'[m].since <= roleChanges' /\ memberRole[m].since <= memberRole'[m].since
            BY <2>1, <3>1 DEF ToldIsStored, RolesInv
        <3>3. \A m \in PageMembers : memberRole'[m].since \in Nat
            BY <2>1, <3>1
        <3>4. /\ ownTold' = ownTold /\ toldRole' = toldRole
              /\ ownTold \in Nat /\ \A m \in PageMembers : toldRole[m] \in Nat
            BY DEF ServerChangesRole, session, RolesTypes, RolesInv
        <3>5. ASSUME NEW p \in roleRequests', p.result = "done" PROVE p.since <= memberRole'[p.member].since
            <4>1. CASE p \in roleRequests
                <5>1. /\ p.member \in PageMembers /\ p.since \in Nat
                      /\ p.since <= memberRole[p.member].since
                    BY <3>5, <4>1 DEF RolesTypes, RoleRequests, ToldIsStored, RolesInv
                <5>2. QED
                    BY <2>1, <3>2, <3>3, <5>1
            <4>2. CASE p = [q EXCEPT !.result = "done", !.since = roleChanges + 1]
                BY <2>1, <3>1, <4>2 DEF RoleRequests
            <4>3. QED
                BY <2>3, <4>1, <4>2
        <3>6. ownTold' <= memberRole'[Me].since
            BY <2>1, <3>2, <3>3, <3>4, RolesScreenAssumption DEF ToldIsStored, RolesInv
        <3>7. \A m \in PageMembers : toldRole'[m] <= memberRole'[m].since
            BY <2>1, <3>2, <3>3, <3>4 DEF ToldIsStored, RolesInv
        <3>8. QED
            BY <3>2, <3>5, <3>6, <3>7 DEF ToldIsStored
    <2>4. QED
        BY <2>2, <2>3, <2>5 DEF ServerChangesRole, AnswerRole, roleTable
<1>5. ShownIsAsTold'
    BY RolesScreenAssumption, NothingIsApart DEF ServerChangesRole, roleTable, session, Sets,
       MayChange, ShownIsAsTold, ToldIsStored, AwayIsEmpty, RolesTypes, RoleRows, MemberLists,
       Sessions, Confirmations, RoleRequests, RolesInv
<1>6. QED
    BY <1>1, <1>2, <1>3, <1>4, <1>5 DEF RolesInv

LEMMA RoleArrivesKeeps ==
  ASSUME RolesInv, NEW q \in roleRequests, RoleArrives(q)
  PROVE  RolesInv'
<1>1. RolesTypes'
    <2>1. NobodyTold \in [PageMembers -> 0..LastRoleChange]
        BY RolesScreenAssumption DEF NobodyTold
    <2>2. /\ Unloaded \in [phase : {"absent"}, rows : MemberLists]
          /\ RolesWaiting \in [phase : {"timer"}, rows : MemberLists]
          /\ [phase |-> "sent", answer |-> NotRead] \in [phase : {"sent"}, answer : Sessions]
        BY NothingIsApart DEF Unloaded, RolesWaiting, Sessions
    <2>3. q \in RoleRequests /\ roleRequests' \subseteq RoleRequests
        BY DEF RoleArrives, RolesTypes, RolesInv
    <2>4. CASE q.member = Me
        BY <2>1, <2>2, <2>3, <2>4, NothingIsApart DEF RoleArrives, roleTable, session, Unmount,
           ReadSession, RolesTypes, Confirmations, Sessions, RoleRequests, RolesInv
    <2>5. CASE q.member # Me
        BY <2>2, <2>3, <2>5, NothingIsApart DEF RoleArrives, roleTable, session, ReloadMembers,
           RolesTypes, Confirmations, RoleRequests, RolesInv
    <2>6. QED
        BY <2>4, <2>5
<1>2. AwayIsEmpty'
    BY RolesScreenAssumption, NothingIsApart DEF RoleArrives, roleTable, session,
       ReloadMembers, RolesWaiting, MembersLoaded, Unloaded, IsShown, Unmount, ReadSession,
       NobodyTold, AwayIsEmpty, RolesTypes, RolesInv
<1>3. ConfirmationStays'
    BY RolesScreenAssumption, NothingIsApart DEF RoleArrives, roleTable, session,
       ReloadMembers, RolesWaiting, MembersLoaded, Unloaded, IsShown, Unmount, ReadSession,
       NobodyTold, ConfirmationStays, AwayIsEmpty, RolesInv
<1>4. ToldIsStored'
    <2>1. /\ q \in RoleRequests /\ q.since <= memberRole[q.member].since
          /\ roleRequests' \subseteq roleRequests /\ memberRole' = memberRole
          /\ roleChanges' = roleChanges
        BY DEF RoleArrives, roleTable, RolesTypes, ToldIsStored, RolesInv
    <2>2. \A m \in PageMembers : 0 <= memberRole[m].since
        BY DEF RolesTypes, RoleRows, RolesInv
    <2>3. CASE q.member = Me
        <3>1. ownTold' = q.since /\ toldRole' = NobodyTold
            BY <2>3 DEF RoleArrives, Unmount
        <3>2. QED
            BY <2>1, <2>2, <2>3, <3>1 DEF NobodyTold, ToldIsStored, RolesInv
    <2>4. CASE q.member # Me
        <3>1. /\ ownTold' = ownTold
              /\ toldRole' \in {toldRole, [toldRole EXCEPT ![q.member] = q.since]}
            BY <2>4 DEF RoleArrives, session
        <3>2. QED
            BY <2>1, <2>2, <3>1 DEF ToldIsStored, RolesTypes, RoleRequests, RolesInv
    <2>5. QED
        BY <2>3, <2>4
<1>5. ShownIsAsTold'
    BY RolesScreenAssumption, NothingIsApart DEF RoleArrives, roleTable, session,
       ReloadMembers, RolesWaiting, MembersLoaded, Unloaded, IsShown, Unmount, ReadSession,
       NobodyTold, ShownIsAsTold, ToldIsStored, AwayIsEmpty, RolesTypes, RoleRows,
       MemberLists, Sessions, Confirmations, RoleRequests, RolesInv
<1>6. QED
    BY <1>1, <1>2, <1>3, <1>4, <1>5 DEF RolesInv

LEMMA RoleFailsKeeps ==
  ASSUME RolesInv, NEW q \in roleRequests, RoleFails(q)
  PROVE  RolesInv'
<1>1. RolesTypes'
    BY RolesScreenAssumption, NothingIsApart DEF RoleFails, roleTable, session, IsShown,
       RolesTypes, RoleRows, MemberLists, Sessions, Confirmations, RoleRequests, RolesInv
<1>2. AwayIsEmpty'
    BY RolesScreenAssumption, NothingIsApart DEF RoleFails, roleTable, session, IsShown,
       AwayIsEmpty, RolesTypes, RolesInv
<1>3. ConfirmationStays'
    BY RolesScreenAssumption, NothingIsApart DEF RoleFails, roleTable, session, IsShown,
       ConfirmationStays, AwayIsEmpty, RolesInv
<1>4. ToldIsStored'
    BY RolesScreenAssumption, NothingIsApart DEF RoleFails, roleTable, session, IsShown,
       ToldIsStored, RolesTypes, RoleRows, MemberLists, Sessions, Confirmations, RoleRequests,
       RolesInv
<1>5. ShownIsAsTold'
    BY RolesScreenAssumption, NothingIsApart DEF RoleFails, roleTable, session, IsShown,
       ShownIsAsTold, ToldIsStored, AwayIsEmpty, RolesTypes, RoleRows, MemberLists, Sessions,
       Confirmations, RoleRequests, RolesInv
<1>6. QED
    BY <1>1, <1>2, <1>3, <1>4, <1>5 DEF RolesInv

LEMMA OthersChangeRoleKeeps ==
  ASSUME RolesInv, NEW m \in PageMembers, NEW r \in GivenRoles, OthersChangeRole(m, r)
  PROVE  RolesInv'
<1>1. RolesTypes'
    BY RolesScreenAssumption, NothingIsApart DEF OthersChangeRole, roleTable, session, Sets,
       MayChange, IsShown, RolesTypes, RoleRows, MemberLists, Sessions, Confirmations,
       RoleRequests, RolesInv
<1>2. AwayIsEmpty'
    BY RolesScreenAssumption, NothingIsApart DEF OthersChangeRole, roleTable, session, Sets,
       MayChange, IsShown, AwayIsEmpty, RolesTypes, RolesInv
<1>3. ConfirmationStays'
    BY RolesScreenAssumption, NothingIsApart DEF OthersChangeRole, roleTable, session, Sets,
       MayChange, IsShown, ConfirmationStays, AwayIsEmpty, RolesInv
<1>4. ToldIsStored'
    BY RolesScreenAssumption, NothingIsApart DEF OthersChangeRole, roleTable, session, Sets,
       MayChange, IsShown, ToldIsStored, RolesTypes, RoleRows, MemberLists, Sessions,
       Confirmations, RoleRequests, RolesInv
<1>5. ShownIsAsTold'
    BY RolesScreenAssumption, NothingIsApart DEF OthersChangeRole, roleTable, session, Sets,
       MayChange, IsShown, ShownIsAsTold, ToldIsStored, AwayIsEmpty, RolesTypes, RoleRows,
       MemberLists, Sessions, Confirmations, RoleRequests, RolesInv
<1>6. QED
    BY <1>1, <1>2, <1>3, <1>4, <1>5 DEF RolesInv

LEMMA ServerTellsSessionKeeps ==
  ASSUME RolesInv, ServerTellsSession
  PROVE  RolesInv'
<1>1. RolesTypes'
    BY RolesScreenAssumption, NothingIsApart DEF ServerTellsSession, roleTable, session,
       IsShown, RolesTypes, RoleRows, MemberLists, Sessions, Confirmations, RoleRequests,
       RolesInv
<1>2. AwayIsEmpty'
    BY RolesScreenAssumption, NothingIsApart DEF ServerTellsSession, roleTable, session,
       IsShown, AwayIsEmpty, RolesTypes, RolesInv
<1>3. ConfirmationStays'
    BY RolesScreenAssumption, NothingIsApart DEF ServerTellsSession, roleTable, session,
       IsShown, ConfirmationStays, AwayIsEmpty, RolesInv
<1>4. ToldIsStored'
    BY RolesScreenAssumption, NothingIsApart DEF ServerTellsSession, roleTable, session,
       IsShown, ToldIsStored, RolesTypes, RoleRows, MemberLists, Sessions, Confirmations,
       RoleRequests, RolesInv
<1>5. ShownIsAsTold'
    BY RolesScreenAssumption, NothingIsApart DEF ServerTellsSession, roleTable, session,
       IsShown, ShownIsAsTold, ToldIsStored, AwayIsEmpty, RolesTypes, RoleRows, MemberLists,
       Sessions, Confirmations, RoleRequests, RolesInv
<1>6. QED
    BY <1>1, <1>2, <1>3, <1>4, <1>5 DEF RolesInv

LEMMA SessionArrivesKeeps ==
  ASSUME RolesInv, SessionArrives
  PROVE  RolesInv'
<1>1. RolesTypes'
    BY RolesScreenAssumption, NothingIsApart DEF SessionArrives, roleTable, session,
       NotReading, IsShown, RolesTypes, RoleRows, MemberLists, Sessions, Confirmations,
       RoleRequests, RolesInv
<1>2. AwayIsEmpty'
    BY RolesScreenAssumption, NothingIsApart DEF SessionArrives, roleTable, session,
       NotReading, IsShown, AwayIsEmpty, RolesTypes, RolesInv
<1>3. ConfirmationStays'
    BY RolesScreenAssumption, NothingIsApart DEF SessionArrives, roleTable, session,
       NotReading, IsShown, ConfirmationStays, AwayIsEmpty, RolesInv
<1>4. ToldIsStored'
    BY RolesScreenAssumption, NothingIsApart DEF SessionArrives, roleTable, session,
       NotReading, IsShown, ToldIsStored, RolesTypes, RoleRows, MemberLists, Sessions,
       Confirmations, RoleRequests, RolesInv
<1>5. ShownIsAsTold'
    BY RolesScreenAssumption, NothingIsApart DEF SessionArrives, roleTable, session,
       NotReading, IsShown, ShownIsAsTold, ToldIsStored, AwayIsEmpty, RolesTypes, RoleRows,
       MemberLists, Sessions, Confirmations, RoleRequests, RolesInv
<1>6. QED
    BY <1>1, <1>2, <1>3, <1>4, <1>5 DEF RolesInv

LEMMA RetrySessionKeeps ==
  ASSUME RolesInv, RetrySession
  PROVE  RolesInv'
<1>1. RolesTypes'
    BY RolesScreenAssumption, NothingIsApart DEF RetrySession, roleTable, session,
       ReadSession, IsShown, RolesTypes, RoleRows, MemberLists, Sessions, Confirmations,
       RoleRequests, RolesInv
<1>2. AwayIsEmpty'
    BY RolesScreenAssumption, NothingIsApart DEF RetrySession, roleTable, session,
       ReadSession, IsShown, AwayIsEmpty, RolesTypes, RolesInv
<1>3. ConfirmationStays'
    BY RolesScreenAssumption, NothingIsApart DEF RetrySession, roleTable, session,
       ReadSession, IsShown, ConfirmationStays, AwayIsEmpty, RolesInv
<1>4. ToldIsStored'
    BY RolesScreenAssumption, NothingIsApart DEF RetrySession, roleTable, session,
       ReadSession, IsShown, ToldIsStored, RolesTypes, RoleRows, MemberLists, Sessions,
       Confirmations, RoleRequests, RolesInv
<1>5. ShownIsAsTold'
    BY RolesScreenAssumption, NothingIsApart DEF RetrySession, roleTable, session,
       ReadSession, IsShown, ShownIsAsTold, ToldIsStored, AwayIsEmpty, RolesTypes, RoleRows,
       MemberLists, Sessions, Confirmations, RoleRequests, RolesInv
<1>6. QED
    BY <1>1, <1>2, <1>3, <1>4, <1>5 DEF RolesInv

LEMMA LeaveRolesKeeps ==
  ASSUME RolesInv, LeaveRoles
  PROVE  RolesInv'
<1>1. RolesTypes'
    <2>1. NobodyTold \in [PageMembers -> 0..LastRoleChange]
        BY RolesScreenAssumption DEF NobodyTold
    <2>2. Unloaded \in [phase : {"absent"}, rows : MemberLists]
        BY NothingIsApart DEF Unloaded
    <2>3. QED
        BY <2>1, <2>2, NothingIsApart DEF LeaveRoles, roleTable, session, Unmount, RolesTypes,
           Confirmations, RolesInv
<1>2. AwayIsEmpty'
    BY RolesScreenAssumption, NothingIsApart DEF LeaveRoles, roleTable, session,
       ReloadMembers, RolesWaiting, MembersLoaded, Unloaded, IsShown, Unmount, NobodyTold,
       AwayIsEmpty, RolesTypes, RolesInv
<1>3. ConfirmationStays'
    BY RolesScreenAssumption, NothingIsApart DEF LeaveRoles, roleTable, session,
       ReloadMembers, RolesWaiting, MembersLoaded, Unloaded, IsShown, Unmount, NobodyTold,
       ConfirmationStays, AwayIsEmpty, RolesInv
<1>4. ToldIsStored'
    BY RolesScreenAssumption, NothingIsApart DEF LeaveRoles, roleTable, session,
       ReloadMembers, RolesWaiting, MembersLoaded, Unloaded, IsShown, Unmount, NobodyTold,
       ToldIsStored, RolesTypes, RoleRows, MemberLists, Sessions, Confirmations, RoleRequests,
       RolesInv
<1>5. ShownIsAsTold'
    BY RolesScreenAssumption, NothingIsApart DEF LeaveRoles, roleTable, session,
       ReloadMembers, RolesWaiting, MembersLoaded, Unloaded, IsShown, Unmount, NobodyTold,
       ShownIsAsTold, ToldIsStored, AwayIsEmpty, RolesTypes, RoleRows, MemberLists, Sessions,
       Confirmations, RoleRequests, RolesInv
<1>6. QED
    BY <1>1, <1>2, <1>3, <1>4, <1>5 DEF RolesInv

LEMMA ShowRolesKeeps ==
  ASSUME RolesInv, ShowRoles
  PROVE  RolesInv'
<1>1. RolesTypes'
    BY RolesScreenAssumption, NothingIsApart DEF ShowRoles, roleTable, session, ReloadMembers,
       RolesWaiting, MembersLoaded, Unloaded, IsShown, RolesTypes, RoleRows, MemberLists,
       Sessions, Confirmations, RoleRequests, RolesInv
<1>2. AwayIsEmpty'
    BY RolesScreenAssumption, NothingIsApart DEF ShowRoles, roleTable, session, ReloadMembers,
       RolesWaiting, MembersLoaded, Unloaded, IsShown, AwayIsEmpty, RolesTypes, RolesInv
<1>3. ConfirmationStays'
    <2>1. \A q \in roleRequests : q.visit \in Nat /\ rolesVisit \in Nat
        BY DEF RolesInv, RolesTypes, RoleRequests
    <2>2. QED
        BY <2>1 DEF ShowRoles, roleTable, session, ReloadMembers, RolesWaiting, Unloaded, IsShown,
           ConfirmationStays, AwayIsEmpty, RolesInv
<1>4. ToldIsStored'
    BY RolesScreenAssumption, NothingIsApart DEF ShowRoles, roleTable, session, ReloadMembers,
       RolesWaiting, MembersLoaded, Unloaded, IsShown, ToldIsStored, RolesTypes, RoleRows,
       MemberLists, Sessions, Confirmations, RoleRequests, RolesInv
<1>5. ShownIsAsTold'
    BY RolesScreenAssumption, NothingIsApart DEF ShowRoles, roleTable, session, ReloadMembers,
       RolesWaiting, MembersLoaded, Unloaded, IsShown, ShownIsAsTold, ToldIsStored,
       AwayIsEmpty, RolesTypes, RoleRows, MemberLists, Sessions, Confirmations, RoleRequests,
       RolesInv
<1>6. QED
    BY <1>1, <1>2, <1>3, <1>4, <1>5 DEF RolesInv

LEMMA RolesStarts == RolesScreenInit => RolesInv
<1> SUFFICES ASSUME RolesScreenInit PROVE RolesInv
    OBVIOUS
<1>1. \A m \in PageMembers : memberRole[m] = [role |-> "owner", since |-> 0]
    BY DEF RolesScreenInit
<1>2. memberRole \in [PageMembers -> RoleRows] /\ mySession \in RoleRows
    BY RolesScreenAssumption DEF RolesScreenInit, RoleRows
<1>3. NobodyTold \in [PageMembers -> 0..LastRoleChange] /\ \A m \in PageMembers : NobodyTold[m] = 0
    BY RolesScreenAssumption DEF NobodyTold
<1>4. RolesTypes
    <2>1. sessionRead \in [phase : {"idle"}, answer : Sessions]
        BY DEF RolesScreenInit, NotReading, Sessions
    <2>2. memberLoad \in [phase : {"timer"}, rows : MemberLists]
        BY NothingIsApart DEF RolesScreenInit, RolesWaiting
    <2>3. mySession \in Sessions /\ confirming \in Confirmations
        BY <1>2 DEF RolesScreenInit, Sessions, Confirmations
    <2>4. /\ roleChanges \in 0..LastRoleChange /\ ownTold \in 0..LastRoleChange
          /\ rolesVisit \in 1..LastRolesVisit
        BY RolesScreenAssumption DEF RolesScreenInit
    <2>5. QED
        BY <1>2, <1>3, <2>1, <2>2, <2>3, <2>4, NothingIsApart DEF RolesScreenInit, RolesTypes
<1>5. AwayIsEmpty /\ ConfirmationStays
    BY DEF RolesScreenInit, AwayIsEmpty, ConfirmationStays, IsShown, RolesWaiting, Unloaded
<1>6. ToldIsStored
    BY <1>1, <1>3, RolesScreenAssumption DEF RolesScreenInit, ToldIsStored
<1>7. ShownIsAsTold
    BY <1>1, <1>3, NothingIsApart, RolesScreenAssumption DEF RolesScreenInit, ShownIsAsTold,
       NotReading, RolesWaiting
<1>8. QED
    BY <1>4, <1>5, <1>6, <1>7 DEF RolesInv

LEMMA RolesSteps == RolesInv /\ [RolesScreenNext]_rolesScreenVars => RolesInv'
<1>1. ASSUME RolesInv, RolesScreenNext PROVE RolesInv'
    BY <1>1, MembersTimerKeeps, ServerListsMembersKeeps, MembersArriveKeeps, SearchMembersKeeps,
       ChooseRoleKeeps, CancelChoiceKeeps, SaveRoleKeeps, ServerChangesRoleKeeps, RoleArrivesKeeps,
       RoleFailsKeeps, OthersChangeRoleKeeps, ServerTellsSessionKeeps, SessionArrivesKeeps,
       RetrySessionKeeps, LeaveRolesKeeps, ShowRolesKeeps DEF RolesScreenNext
<1>2. ASSUME RolesInv, UNCHANGED rolesScreenVars PROVE RolesInv'
    BY <1>2 DEF rolesScreenVars, RolesInv, RolesTypes, AwayIsEmpty, ConfirmationStays, ToldIsStored,
       ShownIsAsTold, IsShown
<1>3. QED
    BY <1>1, <1>2

\* Whoever has changed their own role and was told so is no longer shown the
\* session of before, and the members shown are never older than the changes
\* the page was told of (MemberRolesPanel.tsx, AuthProvider.tsx).
THEOREM SessionFollowsRole == RolesScreenSpec => []SessionFollowsOwnRole
<1>1. RolesInv => SessionFollowsOwnRole
    BY NothingIsApart DEF RolesInv, ShownIsAsTold, SessionFollowsOwnRole, Known
<1>2. QED
    BY <1>1, RolesStarts, RolesSteps, PTL DEF RolesScreenSpec

\* A role changes by this page only as its open confirmation says, or after the
\* page was left (expectedRole, MemberRolesPanel.tsx).
THEOREM RoleChangesWereConfirmed == RolesScreenSpec => RolesWereConfirmed
<1>1. RolesInv /\ [RolesScreenNext]_rolesScreenVars =>
        [\A q \in roleRequests :
           LET m == q.member
               applied == q.result = "none" /\ q \notin roleRequests' /\ memberRole'[m] # memberRole[m]
           IN applied /\ q.visit = rolesVisit /\ IsShown =>
                confirming = [member |-> m, from |-> memberRole[m].role, to |-> memberRole'[m].role]
        ]_rolesScreenVars
    <2> SUFFICES ASSUME RolesInv, RolesScreenNext, NEW q \in roleRequests, q.result = "none",
                        q \notin roleRequests', memberRole'[q.member] # memberRole[q.member],
                        q.visit = rolesVisit, IsShown
                 PROVE  confirming = [member |-> q.member, from |-> memberRole[q.member].role,
                                      to |-> memberRole'[q.member].role]
        OBVIOUS
    <2>1. confirming = [member |-> q.member, from |-> q.from, to |-> q.to]
        BY DEF RolesInv, ConfirmationStays
    <2>2. PICK p \in roleRequests : ServerChangesRole(p) \/ RoleArrives(p) \/ RoleFails(p)
        BY DEF RolesScreenNext, MembersTimer, ServerListsMembers, MembersArrive, SearchMembers,
           CancelChoice, SaveRole, ChooseRole, OthersChangeRole, ServerTellsSession,
           SessionArrives, RetrySession, LeaveRoles, ShowRoles, roleTable
    <2>3. ServerChangesRole(p) /\ p = q
        BY <2>2 DEF ServerChangesRole, AnswerRole, RoleArrives, RoleFails, roleTable
    <2>4. memberRole[q.member].role = q.from /\ Sets(q.member, q.to)
        BY <2>3 DEF ServerChangesRole, IsExpected, roleTable
    <2>5. q.member \in PageMembers /\ memberRole \in [PageMembers -> RoleRows]
        BY DEF RolesInv, RolesTypes, RoleRequests
    <2>6. memberRole'[q.member].role = q.to
        BY <2>4, <2>5 DEF Sets
    <2>7. QED
        BY <2>1, <2>4, <2>6
<1>2. QED
    BY <1>1, RolesStarts, RolesSteps, PTL DEF RolesScreenSpec, RolesWereConfirmed

\* The roles page: the session and the list follow the changes that were told,
\* and roles change as they were confirmed.
THEOREM RolesPageCorrect ==
  RolesScreenSpec => []SessionFollowsOwnRole /\ RolesWereConfirmed
    BY SessionFollowsRole, RoleChangesWereConfirmed

-----------------------------------------------------------------------------
(***************************************************************************)
(* AdminPanels, the transfer: the dialog and the calls are of the file     *)
(* that was chosen.                                                        *)
(***************************************************************************)

ImportPreviews == {NoImport} \cup [file : BackupFiles, contents : 1..LastContents]
TransferCalls == [op : {"export", "preview", "import"}, file : BackupFiles \cup {NoFile},
                  shown : ImportPreviews, visit : 1..LastTransferVisit,
                  result : {"none", "done", "refused"}]

TransferTypes ==
    /\ contents \in 1..LastContents /\ signedIn \in BOOLEAN
    /\ transferVisit \in 1..LastTransferVisit
    /\ chosenFile \in BackupFiles \cup {NoFile} /\ shownPreview \in ImportPreviews
    /\ typed \in BOOLEAN /\ completed \in BOOLEAN
    /\ runningCall \in {"none", "export", "preview", "import"}
    /\ calls \subseteq TransferCalls

\* The call under way is about the file chosen, and an import about the dialog,
\* with the word typed.
CallsAreOfThePage ==
    /\ \A c \in calls : c.visit <= transferVisit
    /\ \A c \in calls : c.visit = transferVisit /\ c.op # "export" => c.file = chosenFile
    /\ \A c \in calls : c.op = "preview" => c.file # NoFile
    /\ \A c \in calls : c.op = "preview" /\ c.result = "done" => c.shown.file = c.file /\ c.shown # NoImport
    /\ \A c \in calls : c.visit = transferVisit /\ c.op = "import" => shownPreview = c.shown /\ typed

\* Whoever has imported is signed out.
ImportSignsOut == \A c \in calls : c.op = "import" /\ c.result = "done" => ~ signedIn

TransferInv ==
    TransferTypes /\ DialogIsOfTheChosenFile /\ CallsAreOfThePage /\ ImportSignsOut

LEMMA NoFileIsApart ==
    /\ NoFile \notin BackupFiles /\ NoImport.file = NoFile /\ NoImport \in ImportPreviews
    /\ \A p \in ImportPreviews : p # NoImport => p \in [file : BackupFiles, contents : 1..LastContents]
    /\ \A p \in ImportPreviews : p.file \in BackupFiles => p # NoImport
BY TransferScreenAssumption DEF NoFile, NoImport, ImportPreviews

OneCallAVisit ==
    /\ \A c, d \in calls : c.visit = d.visit => c = d
    /\ (\E c \in calls : c.visit = transferVisit) <=> runningCall # "none"

LEMMA RunsOne ==
  ASSUME TransferInv, NEW op \in {"export", "preview", "import"}, NEW p, Runs(op, p),
         runningCall = "none", transferVisit' = transferVisit
  PROVE  OneCallAVisit'
<1> DEFINE c == [op |-> op, file |-> chosenFile, shown |-> p, visit |-> transferVisit, result |-> "none"]
<1>1. calls' = calls \cup {c} /\ runningCall' = op /\ c.visit = transferVisit
    BY DEF Runs
<1>2. \A d \in calls : d.visit # transferVisit
    BY DEF DialogIsOfTheChosenFile, TransferInv
<1>3. op # "none" /\ \A d, e \in calls : d.visit = e.visit => d = e
    BY DEF DialogIsOfTheChosenFile, TransferInv
<1> HIDE DEF c
<1>4. QED
    BY <1>1, <1>2, <1>3 DEF OneCallAVisit

\* An answer is about its call.
LEMMA AnswerIsOfCall ==
  ASSUME TransferInv, NEW c \in calls, ServerTransfers(c)
  PROVE  \E r \in TransferCalls :
            /\ calls' = (calls \ {c}) \cup {r}
            /\ r.op = c.op /\ r.file = c.file /\ r.visit = c.visit
            /\ r.op = "preview" /\ r.result = "done" => r.shown.file = r.file /\ r.shown # NoImport
            /\ r.op # "preview" => r.shown = c.shown
            /\ r.op = "import" /\ r.result = "done" => ~ signedIn'
<1> DEFINE p == [file |-> c.file, contents |-> contents]
<1> DEFINE done == [c EXCEPT !.result = "done"]
<1> DEFINE previewed == [c EXCEPT !.result = "done", !.shown = p]
<1> DEFINE refused == [c EXCEPT !.result = "refused"]
<1>1. c \in TransferCalls
    BY DEF TransferInv, TransferTypes
<1>2. done \in TransferCalls /\ refused \in TransferCalls
    BY <1>1 DEF TransferCalls
<1>3. CASE calls' = (calls \ {c}) \cup {refused}
    <2>1. /\ refused.op = c.op /\ refused.file = c.file /\ refused.visit = c.visit
          /\ refused.result = "refused" /\ refused.shown = c.shown
        BY <1>1 DEF TransferCalls
    <2>2. QED
        BY <1>2, <1>3, <2>1
<1>4. CASE c.op \in {"export", "import"} /\ calls' = (calls \ {c}) \cup {done} /\ (c.op = "import" => ~ signedIn')
    <2>1. /\ done.op = c.op /\ done.file = c.file /\ done.visit = c.visit /\ done.shown = c.shown
        BY <1>1 DEF TransferCalls
    <2>2. QED
        BY <1>2, <1>4, <2>1
<1>5. CASE c.op = "preview" /\ calls' = (calls \ {c}) \cup {previewed}
    <2>1. c.file \in BackupFiles /\ contents \in 1..LastContents
        BY <1>1, <1>5 DEF TransferInv, TransferTypes, CallsAreOfThePage, TransferCalls
    <2>2. p \in ImportPreviews /\ p # NoImport /\ p.file = c.file
        BY <2>1, NoFileIsApart DEF ImportPreviews
    <2>3. /\ previewed.op = c.op /\ previewed.file = c.file /\ previewed.visit = c.visit
          /\ previewed.shown = p /\ previewed \in TransferCalls
        BY <1>1, <2>2 DEF TransferCalls
    <2>4. QED
        BY <1>5, <2>2, <2>3
<1>6. QED
    BY <1>3, <1>4, <1>5 DEF ServerTransfers, Answer

LEMMA ChooseFileKeeps ==
  ASSUME TransferInv, NEW f \in BackupFiles \cup {NoFile}, ChooseFile(f)
  PROVE  TransferInv'
<1>1. TransferTypes'
    BY TransferScreenAssumption, NoFileIsApart DEF ChooseFile, databaseVars, Runs, Enabled,
       TransferTypes, ImportPreviews, TransferCalls, TransferInv
<1>2. DialogIsOfTheChosenFile'
    BY TransferScreenAssumption, NoFileIsApart DEF ChooseFile, databaseVars, Runs, Enabled,
       DialogIsOfTheChosenFile, CallsAreOfThePage, TransferTypes, ImportPreviews,
       TransferCalls, TransferInv
<1>3. CallsAreOfThePage'
    BY TransferScreenAssumption, NoFileIsApart DEF ChooseFile, databaseVars, Runs, Enabled,
       DialogIsOfTheChosenFile, CallsAreOfThePage, TransferTypes, ImportPreviews,
       TransferCalls, TransferInv
<1>4. ImportSignsOut'
    BY TransferScreenAssumption, NoFileIsApart DEF ChooseFile, databaseVars, Runs, Enabled,
       ImportSignsOut, TransferTypes, ImportPreviews, TransferCalls, TransferInv
<1>5. QED
    BY <1>1, <1>2, <1>3, <1>4 DEF TransferInv

LEMMA DownloadKeeps ==
  ASSUME TransferInv, Download
  PROVE  TransferInv'
<1>1. TransferTypes'
    BY TransferScreenAssumption, NoFileIsApart DEF Download, databaseVars, Runs, Enabled,
       TransferTypes, ImportPreviews, TransferCalls, TransferInv
<1>2. DialogIsOfTheChosenFile'
    <2>1. runningCall = "none" /\ Runs("export", NoImport) /\ transferVisit' = transferVisit
        BY DEF Download, Enabled
    <2>2. OneCallAVisit'
        BY <2>1, RunsOne
    <2>3. QED
        BY <2>2 DEF Download, databaseVars, OneCallAVisit, DialogIsOfTheChosenFile, TransferInv
<1>3. CallsAreOfThePage'
    BY TransferScreenAssumption, NoFileIsApart DEF Download, databaseVars, Runs, Enabled,
       DialogIsOfTheChosenFile, CallsAreOfThePage, TransferTypes, ImportPreviews,
       TransferCalls, TransferInv
<1>4. ImportSignsOut'
    BY TransferScreenAssumption, NoFileIsApart DEF Download, databaseVars, Runs, Enabled,
       ImportSignsOut, TransferTypes, ImportPreviews, TransferCalls, TransferInv
<1>5. QED
    BY <1>1, <1>2, <1>3, <1>4 DEF TransferInv

LEMMA ValidateKeeps ==
  ASSUME TransferInv, Validate
  PROVE  TransferInv'
<1>1. TransferTypes'
    BY TransferScreenAssumption, NoFileIsApart DEF Validate, databaseVars, Runs, Enabled,
       TransferTypes, ImportPreviews, TransferCalls, TransferInv
<1>2. DialogIsOfTheChosenFile'
    <2>1. runningCall = "none" /\ Runs("preview", NoImport) /\ transferVisit' = transferVisit
        BY DEF Validate, Enabled
    <2>2. OneCallAVisit'
        BY <2>1, RunsOne
    <2>3. QED
        BY <2>2 DEF Validate, databaseVars, OneCallAVisit, DialogIsOfTheChosenFile, TransferInv
<1>3. CallsAreOfThePage'
    BY TransferScreenAssumption, NoFileIsApart DEF Validate, databaseVars, Runs, Enabled,
       DialogIsOfTheChosenFile, CallsAreOfThePage, TransferTypes, ImportPreviews,
       TransferCalls, TransferInv
<1>4. ImportSignsOut'
    BY TransferScreenAssumption, NoFileIsApart DEF Validate, databaseVars, Runs, Enabled,
       ImportSignsOut, TransferTypes, ImportPreviews, TransferCalls, TransferInv
<1>5. QED
    BY <1>1, <1>2, <1>3, <1>4 DEF TransferInv

LEMMA TypeKeeps ==
  ASSUME TransferInv, Type
  PROVE  TransferInv'
<1>1. TransferTypes'
    BY TransferScreenAssumption, NoFileIsApart DEF Type, databaseVars, Runs, Enabled,
       TransferTypes, ImportPreviews, TransferCalls, TransferInv
<1>2. DialogIsOfTheChosenFile'
    BY TransferScreenAssumption, NoFileIsApart DEF Type, databaseVars, Runs, Enabled,
       DialogIsOfTheChosenFile, CallsAreOfThePage, TransferTypes, ImportPreviews,
       TransferCalls, TransferInv
<1>3. CallsAreOfThePage'
    BY TransferScreenAssumption, NoFileIsApart DEF Type, databaseVars, Runs, Enabled,
       DialogIsOfTheChosenFile, CallsAreOfThePage, TransferTypes, ImportPreviews,
       TransferCalls, TransferInv
<1>4. ImportSignsOut'
    BY TransferScreenAssumption, NoFileIsApart DEF Type, databaseVars, Runs, Enabled,
       ImportSignsOut, TransferTypes, ImportPreviews, TransferCalls, TransferInv
<1>5. QED
    BY <1>1, <1>2, <1>3, <1>4 DEF TransferInv

LEMMA CancelImportKeeps ==
  ASSUME TransferInv, CancelImport
  PROVE  TransferInv'
<1>1. TransferTypes'
    BY TransferScreenAssumption, NoFileIsApart DEF CancelImport, databaseVars, CloseDialog,
       TransferTypes, ImportPreviews, TransferCalls, TransferInv
<1>2. DialogIsOfTheChosenFile'
    BY TransferScreenAssumption, NoFileIsApart DEF CancelImport, databaseVars, CloseDialog,
       DialogIsOfTheChosenFile, CallsAreOfThePage, TransferTypes, ImportPreviews,
       TransferCalls, TransferInv
<1>3. CallsAreOfThePage'
    BY TransferScreenAssumption, NoFileIsApart DEF CancelImport, databaseVars, CloseDialog,
       DialogIsOfTheChosenFile, CallsAreOfThePage, TransferTypes, ImportPreviews,
       TransferCalls, TransferInv
<1>4. ImportSignsOut'
    BY TransferScreenAssumption, NoFileIsApart DEF CancelImport, databaseVars, CloseDialog,
       ImportSignsOut, TransferTypes, ImportPreviews, TransferCalls, TransferInv
<1>5. QED
    BY <1>1, <1>2, <1>3, <1>4 DEF TransferInv

LEMMA RestoreKeeps ==
  ASSUME TransferInv, Restore
  PROVE  TransferInv'
<1>1. TransferTypes'
    BY TransferScreenAssumption, NoFileIsApart DEF Restore, databaseVars, Runs, Enabled,
       TransferTypes, ImportPreviews, TransferCalls, TransferInv
<1>2. DialogIsOfTheChosenFile'
    <2>1. runningCall = "none" /\ Runs("import", shownPreview) /\ transferVisit' = transferVisit
        BY DEF Restore, Enabled
    <2>2. OneCallAVisit'
        BY <2>1, RunsOne
    <2>3. QED
        BY <2>2 DEF Restore, databaseVars, OneCallAVisit, DialogIsOfTheChosenFile, TransferInv
<1>3. CallsAreOfThePage'
    BY TransferScreenAssumption, NoFileIsApart DEF Restore, databaseVars, Runs, Enabled,
       DialogIsOfTheChosenFile, CallsAreOfThePage, TransferTypes, ImportPreviews,
       TransferCalls, TransferInv
<1>4. ImportSignsOut'
    BY TransferScreenAssumption, NoFileIsApart DEF Restore, databaseVars, Runs, Enabled,
       ImportSignsOut, TransferTypes, ImportPreviews, TransferCalls, TransferInv
<1>5. QED
    BY <1>1, <1>2, <1>3, <1>4 DEF TransferInv

LEMMA LeaveTransferKeeps ==
  ASSUME TransferInv, LeaveTransfer
  PROVE  TransferInv'
<1>1. TransferTypes'
    <2>1. transferVisit' \in 1..LastTransferVisit
        BY TransferScreenAssumption DEF LeaveTransfer, TransferTypes, TransferInv
    <2>2. calls' \subseteq calls /\ shownPreview' = NoImport
        BY DEF LeaveTransfer, CloseDialog
    <2>3. signedIn' = signedIn /\ contents' = contents
        BY DEF LeaveTransfer, databaseVars
    <2>4. typed' \in BOOLEAN /\ completed' \in BOOLEAN
        BY Zenon DEF LeaveTransfer, CloseDialog
    <2>5. QED
        BY <2>1, <2>2, <2>3, <2>4, NoFileIsApart DEF LeaveTransfer, TransferTypes, TransferInv
<1>2. DialogIsOfTheChosenFile'
    BY TransferScreenAssumption, NoFileIsApart DEF LeaveTransfer, databaseVars, CloseDialog,
       DialogIsOfTheChosenFile, CallsAreOfThePage, TransferTypes, ImportPreviews,
       TransferCalls, TransferInv
<1>3. CallsAreOfThePage'
    BY TransferScreenAssumption, NoFileIsApart DEF LeaveTransfer, databaseVars, CloseDialog,
       DialogIsOfTheChosenFile, CallsAreOfThePage, TransferTypes, ImportPreviews,
       TransferCalls, TransferInv
<1>4. ImportSignsOut'
    BY TransferScreenAssumption, NoFileIsApart DEF LeaveTransfer, databaseVars, CloseDialog,
       ImportSignsOut, TransferTypes, ImportPreviews, TransferCalls, TransferInv
<1>5. QED
    BY <1>1, <1>2, <1>3, <1>4 DEF TransferInv

LEMMA ServerTransfersKeeps ==
  ASSUME TransferInv, NEW c \in calls, ServerTransfers(c)
  PROVE  TransferInv'
<1>1. TransferTypes'
    <2>1. PICK r \in TransferCalls : calls' = (calls \ {c}) \cup {r}
        BY AnswerIsOfCall
    <2>2. contents' \in 1..LastContents
        BY TransferScreenAssumption DEF ServerTransfers, databaseVars, TransferTypes, TransferInv
    <2>3. signedIn' \in BOOLEAN
        <3>1. signedIn' = signedIn \/ signedIn' = FALSE
            BY DEF ServerTransfers, databaseVars
        <3>2. QED
            BY <3>1, Zenon DEF TransferTypes, TransferInv
    <2>4. QED
        BY <2>1, <2>2, <2>3 DEF ServerTransfers, TransferTypes, TransferInv
<1>2. DialogIsOfTheChosenFile'
    <2>1. PICK r \in TransferCalls :
                  /\ calls' = (calls \ {c}) \cup {r}
                  /\ r.op = c.op /\ r.file = c.file /\ r.visit = c.visit
        BY AnswerIsOfCall
    <2>2. signedIn' => signedIn
        BY DEF ServerTransfers, databaseVars
    <2>3. UNCHANGED <<transferVisit, chosenFile, shownPreview, runningCall, completed>>
        BY DEF ServerTransfers
    <2>4. QED
        BY <2>1, <2>2, <2>3 DEF DialogIsOfTheChosenFile, TransferInv
<1>3. CallsAreOfThePage'
    <2>1. PICK r \in TransferCalls :
                  /\ calls' = (calls \ {c}) \cup {r}
                  /\ r.op = c.op /\ r.file = c.file /\ r.visit = c.visit
                  /\ r.op = "preview" /\ r.result = "done" => r.shown.file = r.file /\ r.shown # NoImport
                  /\ r.op # "preview" => r.shown = c.shown
        BY AnswerIsOfCall
    <2>2. UNCHANGED <<transferVisit, chosenFile, shownPreview, typed>>
        BY DEF ServerTransfers
    <2>3. QED
        BY <2>1, <2>2 DEF CallsAreOfThePage, TransferInv
<1>4. ImportSignsOut'
    <2>1. PICK r \in TransferCalls :
                  /\ calls' = (calls \ {c}) \cup {r}
                  /\ r.op = "import" /\ r.result = "done" => ~ signedIn'
        BY AnswerIsOfCall
    <2>2. signedIn' => signedIn
        BY DEF ServerTransfers, databaseVars
    <2>3. QED
        BY <2>1, <2>2 DEF ImportSignsOut, TransferInv
<1>5. QED
    BY <1>1, <1>2, <1>3, <1>4 DEF TransferInv

LEMMA TransferArrivesKeeps ==
  ASSUME TransferInv, NEW c \in calls, TransferArrives(c)
  PROVE  TransferInv'
<1>1. TransferTypes'
    BY TransferScreenAssumption, NoFileIsApart DEF TransferArrives, databaseVars, CloseDialog,
       TransferTypes, ImportPreviews, TransferCalls, TransferInv
<1>2. DialogIsOfTheChosenFile'
    <2>1. c \in TransferCalls /\ calls' = calls \ {c} /\ runningCall' = "none"
        BY DEF TransferArrives, TransferTypes, TransferInv
    <2>2. c.visit = transferVisit /\ transferVisit' = transferVisit
        BY DEF TransferArrives
    <2>3. OneCallAVisit'
        BY <2>1, <2>2 DEF OneCallAVisit, DialogIsOfTheChosenFile, TransferInv
    <2>4. signedIn' = signedIn /\ (completed' => completed \/ ~ signedIn)
        BY <2>1 DEF TransferArrives, databaseVars, ImportSignsOut, TransferInv, TransferCalls
    <2>5. shownPreview' # NoImport => shownPreview'.file = chosenFile'
        <3>1. CASE c.op = "export"
            BY <3>1 DEF TransferArrives, DialogIsOfTheChosenFile, TransferInv
        <3>2. CASE c.op = "preview"
            BY <2>2, <3>2 DEF TransferArrives, CallsAreOfThePage, TransferInv
        <3>3. CASE c.op = "import"
            BY <3>3 DEF TransferArrives, CloseDialog
        <3>4. QED
            BY <2>1, <3>1, <3>2, <3>3 DEF TransferCalls
    <2>6. QED
        BY <2>3, <2>4, <2>5 DEF OneCallAVisit, DialogIsOfTheChosenFile, TransferInv
<1>3. CallsAreOfThePage'
    BY TransferScreenAssumption, NoFileIsApart DEF TransferArrives, databaseVars, CloseDialog,
       DialogIsOfTheChosenFile, CallsAreOfThePage, TransferTypes, ImportPreviews,
       TransferCalls, TransferInv
<1>4. ImportSignsOut'
    BY TransferScreenAssumption, NoFileIsApart DEF TransferArrives, databaseVars, CloseDialog,
       ImportSignsOut, TransferTypes, ImportPreviews, TransferCalls, TransferInv
<1>5. QED
    BY <1>1, <1>2, <1>3, <1>4 DEF TransferInv

LEMMA TransferFailsKeeps ==
  ASSUME TransferInv, NEW c \in calls, TransferFails(c)
  PROVE  TransferInv'
<1>1. TransferTypes'
    BY TransferScreenAssumption, NoFileIsApart DEF TransferFails, databaseVars, CloseDialog,
       TransferTypes, ImportPreviews, TransferCalls, TransferInv
<1>2. DialogIsOfTheChosenFile'
    BY TransferScreenAssumption, NoFileIsApart DEF TransferFails, databaseVars, CloseDialog,
       DialogIsOfTheChosenFile, CallsAreOfThePage, TransferTypes, ImportPreviews,
       TransferCalls, TransferInv
<1>3. CallsAreOfThePage'
    BY TransferScreenAssumption, NoFileIsApart DEF TransferFails, databaseVars, CloseDialog,
       DialogIsOfTheChosenFile, CallsAreOfThePage, TransferTypes, ImportPreviews,
       TransferCalls, TransferInv
<1>4. ImportSignsOut'
    BY TransferScreenAssumption, NoFileIsApart DEF TransferFails, databaseVars, CloseDialog,
       ImportSignsOut, TransferTypes, ImportPreviews, TransferCalls, TransferInv
<1>5. QED
    BY <1>1, <1>2, <1>3, <1>4 DEF TransferInv

LEMMA EarlierCallEndsKeeps ==
  ASSUME TransferInv, NEW c \in calls, EarlierCallEnds(c)
  PROVE  TransferInv'
<1>1. TransferTypes'
    BY TransferScreenAssumption, NoFileIsApart DEF EarlierCallEnds, databaseVars,
       TransferTypes, ImportPreviews, TransferCalls, TransferInv
<1>2. DialogIsOfTheChosenFile'
    BY TransferScreenAssumption, NoFileIsApart DEF EarlierCallEnds, databaseVars,
       DialogIsOfTheChosenFile, CallsAreOfThePage, TransferTypes, ImportPreviews,
       TransferCalls, TransferInv
<1>3. CallsAreOfThePage'
    BY TransferScreenAssumption, NoFileIsApart DEF EarlierCallEnds, databaseVars,
       DialogIsOfTheChosenFile, CallsAreOfThePage, TransferTypes, ImportPreviews,
       TransferCalls, TransferInv
<1>4. ImportSignsOut'
    BY TransferScreenAssumption, NoFileIsApart DEF EarlierCallEnds, databaseVars,
       ImportSignsOut, TransferTypes, ImportPreviews, TransferCalls, TransferInv
<1>5. QED
    BY <1>1, <1>2, <1>3, <1>4 DEF TransferInv

LEMMA OthersWriteContentsKeeps ==
  ASSUME TransferInv, OthersWriteContents
  PROVE  TransferInv'
<1>1. TransferTypes'
    BY TransferScreenAssumption, NoFileIsApart DEF OthersWriteContents, TransferTypes,
       ImportPreviews, TransferCalls, TransferInv
<1>2. DialogIsOfTheChosenFile'
    BY TransferScreenAssumption, NoFileIsApart DEF OthersWriteContents,
       DialogIsOfTheChosenFile, CallsAreOfThePage, TransferTypes, ImportPreviews,
       TransferCalls, TransferInv
<1>3. CallsAreOfThePage'
    BY TransferScreenAssumption, NoFileIsApart DEF OthersWriteContents,
       DialogIsOfTheChosenFile, CallsAreOfThePage, TransferTypes, ImportPreviews,
       TransferCalls, TransferInv
<1>4. ImportSignsOut'
    BY TransferScreenAssumption, NoFileIsApart DEF OthersWriteContents, ImportSignsOut,
       TransferTypes, ImportPreviews, TransferCalls, TransferInv
<1>5. QED
    BY <1>1, <1>2, <1>3, <1>4 DEF TransferInv

LEMMA SignInAgainKeeps ==
  ASSUME TransferInv, SignInAgain
  PROVE  TransferInv'
<1>1. TransferTypes'
    <2>1. transferVisit' \in 1..LastTransferVisit
        BY TransferScreenAssumption DEF SignInAgain, TransferTypes, TransferInv
    <2>2. calls' \subseteq calls /\ shownPreview' = NoImport
        BY DEF SignInAgain, CloseDialog
    <2>3. signedIn' = TRUE /\ contents' = contents
        BY DEF SignInAgain, databaseVars
    <2>4. typed' \in BOOLEAN /\ completed' \in BOOLEAN
        BY Zenon DEF SignInAgain, CloseDialog
    <2>5. QED
        BY <2>1, <2>2, <2>3, <2>4, NoFileIsApart DEF SignInAgain, TransferTypes, TransferInv
<1>2. DialogIsOfTheChosenFile'
    BY TransferScreenAssumption, NoFileIsApart DEF SignInAgain, CloseDialog,
       DialogIsOfTheChosenFile, CallsAreOfThePage, TransferTypes, ImportPreviews,
       TransferCalls, TransferInv
<1>3. CallsAreOfThePage'
    BY TransferScreenAssumption, NoFileIsApart DEF SignInAgain, CloseDialog,
       DialogIsOfTheChosenFile, CallsAreOfThePage, TransferTypes, ImportPreviews,
       TransferCalls, TransferInv
<1>4. ImportSignsOut'
    BY TransferScreenAssumption, NoFileIsApart DEF SignInAgain, CloseDialog, ImportSignsOut,
       TransferTypes, ImportPreviews, TransferCalls, TransferInv
<1>5. QED
    BY <1>1, <1>2, <1>3, <1>4 DEF TransferInv

LEMMA TransferStarts == TransferScreenInit => TransferInv
<1> SUFFICES ASSUME TransferScreenInit PROVE TransferInv
    OBVIOUS
<1>1. TransferTypes
    <2>1. contents \in 1..LastContents /\ transferVisit \in 1..LastTransferVisit
        BY TransferScreenAssumption DEF TransferScreenInit
    <2>2. signedIn \in BOOLEAN /\ typed \in BOOLEAN /\ completed \in BOOLEAN
        BY Zenon DEF TransferScreenInit
    <2>3. QED
        BY <2>1, <2>2, NoFileIsApart DEF TransferScreenInit, TransferTypes
<1>2. QED
    BY <1>1 DEF TransferScreenInit, TransferInv, DialogIsOfTheChosenFile, CallsAreOfThePage,
       ImportSignsOut

LEMMA TransferSteps == TransferInv /\ [TransferScreenNext]_transferScreenVars => TransferInv'
<1>1. ASSUME TransferInv, TransferScreenNext PROVE TransferInv'
    BY <1>1, ChooseFileKeeps, DownloadKeeps, ValidateKeeps, TypeKeeps, CancelImportKeeps,
       RestoreKeeps, LeaveTransferKeeps, ServerTransfersKeeps, TransferArrivesKeeps,
       TransferFailsKeeps, EarlierCallEndsKeeps, OthersWriteContentsKeeps, SignInAgainKeeps
       DEF TransferScreenNext
<1>2. ASSUME TransferInv, UNCHANGED transferScreenVars PROVE TransferInv'
    BY <1>2 DEF transferScreenVars, TransferInv, TransferTypes, DialogIsOfTheChosenFile,
       CallsAreOfThePage, ImportSignsOut
<1>3. QED
    BY <1>1, <1>2

\* The dialog is about the file that is chosen, a visit has one call under way,
\* and the page says that the import is done only if it was
\* (DatabaseTransferPanel.tsx).
THEOREM TransferDialogCorrect == TransferScreenSpec => []DialogIsOfTheChosenFile
<1>1. TransferInv => DialogIsOfTheChosenFile
    BY DEF TransferInv
<1>2. QED
    BY <1>1, TransferStarts, TransferSteps, PTL DEF TransferScreenSpec

\* What is imported is the file of the dialog, over the contents that it shows
\* and with the word typed, unless the page was left (DatabaseTransferPanel.tsx).
THEOREM ImportsWereTyped == TransferScreenSpec => ImportWasTyped
<1>1. TransferInv /\ [TransferScreenNext]_transferScreenVars =>
        [\A c \in calls :
           LET imported == c.op = "import" /\ c.result = "none" /\ signedIn /\ ~ signedIn'
           IN imported /\ c \notin calls' /\ c.visit = transferVisit =>
                  /\ shownPreview = [file |-> chosenFile, contents |-> contents]
                  /\ c.file = chosenFile /\ typed]_transferScreenVars
    <2> SUFFICES ASSUME TransferInv, TransferScreenNext, NEW c \in calls, c.op = "import",
                        c.result = "none", signedIn, ~ signedIn', c \notin calls',
                        c.visit = transferVisit
                 PROVE  /\ shownPreview = [file |-> chosenFile, contents |-> contents]
                        /\ c.file = chosenFile /\ typed
        OBVIOUS
    <2>1. PICK d \in calls : ServerTransfers(d)
        BY DEF TransferScreenNext, databaseVars, ChooseFile, Download, Validate, Type,
           CancelImport, Restore, LeaveTransfer, TransferArrives, TransferFails,
           EarlierCallEnds, OthersWriteContents, SignInAgain
    <2>2. d = c
        BY <2>1, AnswerIsOfCall
    <2>3. Confirms(c)
        BY <2>1, <2>2 DEF ServerTransfers, databaseVars
    <2>4. c.file = chosenFile /\ shownPreview = c.shown /\ typed
        BY DEF TransferInv, CallsAreOfThePage
    <2>5. QED
        BY <2>3, <2>4 DEF Confirms
<1>2. QED
    BY <1>1, TransferStarts, TransferSteps, PTL DEF TransferScreenSpec, ImportWasTyped

\* The import page: its dialog is about the chosen file, and what is imported
\* was shown and typed.
THEOREM TransferPageCorrect ==
  TransferScreenSpec => []DialogIsOfTheChosenFile /\ ImportWasTyped
    BY TransferDialogCorrect, ImportsWereTyped

-----------------------------------------------------------------------------
(***************************************************************************)
(* UploadScreen: the panel follows the upload that it started.             *)
(***************************************************************************)

UploadEvents == {"started", "stage", "success", "error"}

UploadTypes ==
    /\ UploadScreenTypeOK
    /\ inbox \in [Uploads -> Seq(UploadEvents)]

\* What has not begun has done nothing, and a socket that ended its upload is
\* not used again.
UnbegunIsUntouched ==
    \A n \in Uploads :
        /\ n > uploads => socket[n] = "none" /\ loop[n] = "off"
        /\ socket[n] = "none" => n > uploads
        /\ terminal[n] => n <= uploads /\ socket[n] \notin Live

\* The file is sent once: the server says 'started' first, and no other time.
StartsOnce ==
    \A n \in Uploads :
        /\ serving[n] \in {"nothing", "starting"} => inbox[n] = <<>> /\ loop[n] = "off" /\ sent[n] = 0
        /\ socket[n] \in {"none", "connecting"} => serving[n] = "nothing"
        /\ \A i \in DOMAIN inbox[n] :
              inbox[n][i] = "started" => i = 1 /\ loop[n] = "off" /\ sent[n] = 0
        /\ loop[n] = "reading" => sent[n] < Slices

IdleHoldsNothing == display \in {"idle", "left"} => wsRef = NoUpload

UploadInv ==
    /\ UploadTypes /\ UnbegunIsUntouched /\ StartsOnce /\ IdleHoldsNothing
    /\ PanelFollowsItsUpload /\ wsRef <= uploads

LEMMA ClosingTypes ==
  ASSUME UploadInv, NEW n \in Uploads, socket' = [socket EXCEPT ![n] = Closing(n)]
  PROVE  socket' \in [Uploads -> Live \cup {"none", "closing", "closed"}]
BY DEF Closing, UploadTypes, UploadScreenTypeOK, UploadInv

LEMMA ServeSends ==
  ASSUME UploadInv, NEW n \in Uploads, Serve(n)
  PROVE  \E event \in UploadEvents, next \in {"receiving", "importing", "done"} :
            Sends(n, event, next) /\ (event = "started" => serving[n] = "starting")
BY DEF Serve, UploadEvents

LEMMA UploadFileKeeps ==
  ASSUME UploadInv, UploadFile
  PROVE  UploadInv'
<1>1. UploadTypes'
    <2>1. uploads + 1 \in Uploads /\ display' = "uploading" /\ isUploading' = TRUE
        BY UploadScreenAssumption DEF UploadFile, UploadTypes, UploadScreenTypeOK, Uploads, UploadInv
    <2>2. isUploading' \in BOOLEAN
        BY <2>1, Zenon
    <2>3. socket' \in [Uploads -> Live \cup {"none", "closing", "closed"}]
        BY <2>1 DEF UploadFile, UploadTypes, UploadScreenTypeOK, Live, UploadInv
    <2>4. uploads' \in 0..MaxUploadsShown /\ wsRef' \in 0..MaxUploadsShown
        BY <2>1, UploadScreenAssumption DEF UploadFile, Uploads
    <2>5. QED
        BY <2>1, <2>2, <2>3, <2>4 DEF UploadFile, UploadTypes, UploadScreenTypeOK, Running, UploadInv
<1>2. UnbegunIsUntouched'
    BY UploadScreenAssumption DEF UploadFile, UnbegunIsUntouched, UploadTypes,
       UploadScreenTypeOK, UploadEvents, Uploads, Live, Running, UploadInv
<1>3. StartsOnce'
    <2>1. uploads + 1 \in Uploads /\ uploads + 1 > uploads
        BY UploadScreenAssumption DEF UploadFile, UploadTypes, UploadScreenTypeOK, Uploads, UploadInv
    <2>2. socket[uploads + 1] = "none"
        BY <2>1 DEF UnbegunIsUntouched, UploadInv
    <2>3. \A n \in Uploads : socket'[n] \in {"none", "connecting"} => socket[n] \in {"none", "connecting"}
        BY <2>1, <2>2 DEF UploadFile, UploadTypes, UploadScreenTypeOK, UploadInv
    <2>4. UNCHANGED <<inbox, loop, sent, serving>>
        BY DEF UploadFile
    <2>5. QED
        BY <2>3, <2>4 DEF StartsOnce, UploadInv
<1>4. IdleHoldsNothing'
    BY UploadScreenAssumption DEF UploadFile, IdleHoldsNothing, PanelFollowsItsUpload,
       UploadTypes, UploadScreenTypeOK, UploadEvents, Uploads, Live, Running, NoUpload,
       UploadInv
<1>5. PanelFollowsItsUpload'
    BY UploadScreenAssumption DEF UploadFile, PanelFollowsItsUpload, IdleHoldsNothing,
       UnbegunIsUntouched, UploadTypes, UploadScreenTypeOK, UploadEvents, Uploads, Live,
       Running, NoUpload, UploadInv
<1>6. (wsRef <= uploads)'
    BY UploadScreenAssumption DEF UploadFile, UploadTypes, UploadScreenTypeOK, UploadEvents,
       Uploads, Live, Running, NoUpload, UploadInv
<1>7. QED
    BY <1>1, <1>2, <1>3, <1>4, <1>5, <1>6 DEF UploadInv

LEMMA RefuseFileKeeps ==
  ASSUME UploadInv, RefuseFile
  PROVE  UploadInv'
<1>1. UploadTypes'
    BY UploadScreenAssumption DEF RefuseFile, closures, UploadTypes, UploadScreenTypeOK,
       UploadEvents, Uploads, Live, Running, StartsOnce, UnbegunIsUntouched, UploadInv
<1>2. UnbegunIsUntouched'
    BY UploadScreenAssumption DEF RefuseFile, closures, UnbegunIsUntouched, UploadTypes,
       UploadScreenTypeOK, UploadEvents, Uploads, Live, Running, UploadInv
<1>3. StartsOnce'
    BY UploadScreenAssumption DEF RefuseFile, closures, StartsOnce, UploadTypes,
       UploadScreenTypeOK, UploadEvents, Uploads, Live, Running, UploadInv
<1>4. IdleHoldsNothing'
    BY UploadScreenAssumption DEF RefuseFile, closures, IdleHoldsNothing,
       PanelFollowsItsUpload, UploadTypes, UploadScreenTypeOK, UploadEvents, Uploads, Live,
       Running, NoUpload, UploadInv
<1>5. PanelFollowsItsUpload'
    BY UploadScreenAssumption DEF RefuseFile, closures, PanelFollowsItsUpload,
       IdleHoldsNothing, UnbegunIsUntouched, UploadTypes, UploadScreenTypeOK, UploadEvents,
       Uploads, Live, Running, NoUpload, UploadInv
<1>6. (wsRef <= uploads)'
    BY UploadScreenAssumption DEF RefuseFile, closures, UploadTypes, UploadScreenTypeOK,
       UploadEvents, Uploads, Live, Running, NoUpload, UploadInv
<1>7. QED
    BY <1>1, <1>2, <1>3, <1>4, <1>5, <1>6 DEF UploadInv

LEMMA ResetPanelKeeps ==
  ASSUME UploadInv, ResetPanel
  PROVE  UploadInv'
<1>1. UploadTypes'
    <2>1. socket' \in [Uploads -> Live \cup {"none", "closing", "closed"}] /\ wsRef' \in 0..MaxUploadsShown
        <3>1. wsRef = NoUpload \/ wsRef \in Uploads
            BY UploadScreenAssumption DEF UploadTypes, UploadScreenTypeOK, NoUpload, Uploads, UploadInv
        <3>2. socket' = socket \/ \E n \in Uploads : socket' = [socket EXCEPT ![n] = Closing(n)]
            BY <3>1 DEF ResetPanel, CloseCurrent
        <3>3. wsRef' \in 0..MaxUploadsShown
            BY UploadScreenAssumption DEF ResetPanel, CloseCurrent, NoUpload
        <3>4. QED
            BY <3>2, <3>3, ClosingTypes DEF UploadTypes, UploadScreenTypeOK, UploadInv
    <2>2. isUploading' = isUploading \/ isUploading' = FALSE
        BY DEF ResetPanel
    <2>3. isUploading' \in BOOLEAN
        BY <2>2, Zenon DEF UploadTypes, UploadScreenTypeOK, UploadInv
    <2>4. QED
        BY <2>1, <2>3 DEF ResetPanel, UploadTypes, UploadScreenTypeOK, UploadInv
<1>2. UnbegunIsUntouched'
    BY UploadScreenAssumption DEF ResetPanel, CloseCurrent, Closing, UnbegunIsUntouched,
       UploadTypes, UploadScreenTypeOK, UploadEvents, Uploads, Live, Running, UploadInv
<1>3. StartsOnce'
    BY UploadScreenAssumption DEF ResetPanel, CloseCurrent, Closing, StartsOnce, UploadTypes,
       UploadScreenTypeOK, UploadEvents, Uploads, Live, Running, UploadInv
<1>4. IdleHoldsNothing'
    BY UploadScreenAssumption DEF ResetPanel, CloseCurrent, Closing, IdleHoldsNothing,
       PanelFollowsItsUpload, UploadTypes, UploadScreenTypeOK, UploadEvents, Uploads, Live,
       Running, NoUpload, UploadInv
<1>5. PanelFollowsItsUpload'
    BY UploadScreenAssumption DEF ResetPanel, CloseCurrent, Closing, PanelFollowsItsUpload,
       IdleHoldsNothing, UnbegunIsUntouched, UploadTypes, UploadScreenTypeOK, UploadEvents,
       Uploads, Live, Running, NoUpload, UploadInv
<1>6. (wsRef <= uploads)'
    BY UploadScreenAssumption DEF ResetPanel, CloseCurrent, Closing, UploadTypes,
       UploadScreenTypeOK, UploadEvents, Uploads, Live, Running, NoUpload, UploadInv
<1>7. QED
    BY <1>1, <1>2, <1>3, <1>4, <1>5, <1>6 DEF UploadInv

LEMMA LeavePanelKeeps ==
  ASSUME UploadInv, LeavePanel
  PROVE  UploadInv'
<1>1. UploadTypes'
    <2>1. socket' \in [Uploads -> Live \cup {"none", "closing", "closed"}] /\ wsRef' \in 0..MaxUploadsShown
        <3>1. wsRef = NoUpload \/ wsRef \in Uploads
            BY UploadScreenAssumption DEF UploadTypes, UploadScreenTypeOK, NoUpload, Uploads, UploadInv
        <3>2. socket' = socket \/ \E n \in Uploads : socket' = [socket EXCEPT ![n] = Closing(n)]
            BY <3>1 DEF LeavePanel, CloseCurrent
        <3>3. wsRef' \in 0..MaxUploadsShown
            BY UploadScreenAssumption DEF LeavePanel, CloseCurrent, NoUpload
        <3>4. QED
            BY <3>2, <3>3, ClosingTypes DEF UploadTypes, UploadScreenTypeOK, UploadInv
    <2>2. isUploading' = isUploading \/ isUploading' = FALSE
        BY DEF LeavePanel
    <2>3. isUploading' \in BOOLEAN
        BY <2>2, Zenon DEF UploadTypes, UploadScreenTypeOK, UploadInv
    <2>4. QED
        BY <2>1, <2>3 DEF LeavePanel, UploadTypes, UploadScreenTypeOK, UploadInv
<1>2. UnbegunIsUntouched'
    BY UploadScreenAssumption DEF LeavePanel, CloseCurrent, Closing, UnbegunIsUntouched,
       UploadTypes, UploadScreenTypeOK, UploadEvents, Uploads, Live, Running, UploadInv
<1>3. StartsOnce'
    BY UploadScreenAssumption DEF LeavePanel, CloseCurrent, Closing, StartsOnce, UploadTypes,
       UploadScreenTypeOK, UploadEvents, Uploads, Live, Running, UploadInv
<1>4. IdleHoldsNothing'
    BY UploadScreenAssumption DEF LeavePanel, CloseCurrent, Closing, IdleHoldsNothing,
       PanelFollowsItsUpload, UploadTypes, UploadScreenTypeOK, UploadEvents, Uploads, Live,
       Running, NoUpload, UploadInv
<1>5. PanelFollowsItsUpload'
    BY UploadScreenAssumption DEF LeavePanel, CloseCurrent, Closing, PanelFollowsItsUpload,
       IdleHoldsNothing, UnbegunIsUntouched, UploadTypes, UploadScreenTypeOK, UploadEvents,
       Uploads, Live, Running, NoUpload, UploadInv
<1>6. (wsRef <= uploads)'
    BY UploadScreenAssumption DEF LeavePanel, CloseCurrent, Closing, UploadTypes,
       UploadScreenTypeOK, UploadEvents, Uploads, Live, Running, NoUpload, UploadInv
<1>7. QED
    BY <1>1, <1>2, <1>3, <1>4, <1>5, <1>6 DEF UploadInv

LEMMA OnOpenKeeps ==
  ASSUME UploadInv, NEW n \in Uploads, OnOpen(n)
  PROVE  UploadInv'
<1>1. UploadTypes'
    BY UploadScreenAssumption DEF OnOpen, UploadTypes, UploadScreenTypeOK, UploadEvents,
       Uploads, Live, Running, StartsOnce, UnbegunIsUntouched, UploadInv
<1>2. UnbegunIsUntouched'
    BY UploadScreenAssumption DEF OnOpen, UnbegunIsUntouched, UploadTypes, UploadScreenTypeOK,
       UploadEvents, Uploads, Live, Running, UploadInv
<1>3. StartsOnce'
    BY UploadScreenAssumption DEF OnOpen, StartsOnce, UploadTypes, UploadScreenTypeOK,
       UploadEvents, Uploads, Live, Running, UploadInv
<1>4. IdleHoldsNothing'
    BY UploadScreenAssumption DEF OnOpen, IdleHoldsNothing, PanelFollowsItsUpload,
       UploadTypes, UploadScreenTypeOK, UploadEvents, Uploads, Live, Running, NoUpload,
       UploadInv
<1>5. PanelFollowsItsUpload'
    BY UploadScreenAssumption DEF OnOpen, PanelFollowsItsUpload, IdleHoldsNothing,
       UnbegunIsUntouched, UploadTypes, UploadScreenTypeOK, UploadEvents, Uploads, Live,
       Running, NoUpload, UploadInv
<1>6. (wsRef <= uploads)'
    BY UploadScreenAssumption DEF OnOpen, UploadTypes, UploadScreenTypeOK, UploadEvents,
       Uploads, Live, Running, NoUpload, UploadInv
<1>7. QED
    BY <1>1, <1>2, <1>3, <1>4, <1>5, <1>6 DEF UploadInv

LEMMA OnMessageKeeps ==
  ASSUME UploadInv, NEW n \in Uploads, OnMessage(n)
  PROVE  UploadInv'
<1>1. UploadTypes'
    <2>1. Head(inbox[n]) \in UploadEvents /\ Tail(inbox[n]) \in Seq(UploadEvents)
        BY DEF OnMessage, UploadTypes, UploadInv
    <2>2. inbox' \in [Uploads -> Seq(UploadEvents)]
        BY <2>1 DEF OnMessage, UploadTypes, UploadInv
    <2>3. loop' = loop \/ loop' = [loop EXCEPT ![n] = "reading"]
        BY DEF OnMessage
    <2>4. socket' = socket \/ socket' = [socket EXCEPT ![n] = "closing"]
        BY DEF OnMessage
    <2>5. terminal' = terminal \/ terminal' = [terminal EXCEPT ![n] = TRUE]
        BY DEF OnMessage
    <2>6. terminal' \in [Uploads -> BOOLEAN]
        BY <2>5, Zenon DEF UploadTypes, UploadScreenTypeOK, UploadInv
    <2>7. isUploading' = isUploading \/ isUploading' = FALSE
        BY DEF OnMessage
    <2>8. isUploading' \in BOOLEAN
        BY <2>7, Zenon DEF UploadTypes, UploadScreenTypeOK, UploadInv
    <2>9. display' \in {"left", "uploading", "working", "completed", "error"}
        BY DEF OnMessage, Show
    <2>10. QED
        BY <2>2, <2>3, <2>4, <2>6, <2>8, <2>9 DEF OnMessage, UploadTypes, UploadScreenTypeOK, Running,
           UploadInv
<1>2. UnbegunIsUntouched'
    <2>1. socket[n] = "open" /\ n <= uploads /\ uploads' = uploads
        <3>1. n \in Nat /\ uploads \in Nat
            BY DEF Uploads, UploadTypes, UploadScreenTypeOK, UploadInv
        <3>2. QED
            BY <3>1 DEF OnMessage, UnbegunIsUntouched, UploadInv
    <2>2. \A m \in Uploads \ {n} : /\ socket'[m] = socket[m] /\ loop'[m] = loop[m]
                                  /\ terminal'[m] = terminal[m]
        BY DEF OnMessage, UploadTypes, UploadScreenTypeOK, UploadInv
    <2>3. socket'[n] \in {"open", "closing"} /\ (terminal'[n] => socket'[n] = "closing")
        BY <2>1 DEF OnMessage, UploadTypes, UploadScreenTypeOK, UnbegunIsUntouched, Live, UploadInv
    <2>4. n \in Nat /\ uploads \in Nat
        BY DEF Uploads, UploadTypes, UploadScreenTypeOK, UploadInv
    <2>5. QED
        BY <2>1, <2>2, <2>3, <2>4 DEF UnbegunIsUntouched, Live, UploadInv
<1>3. StartsOnce'
    <2>1. \A m \in Uploads \ {n} : /\ socket'[m] = socket[m] /\ loop'[m] = loop[m]
                                  /\ inbox'[m] = inbox[m]
        BY DEF OnMessage, UploadTypes, UploadScreenTypeOK, UploadInv
    <2>2. sent' = sent /\ serving' = serving
        BY DEF OnMessage
    <2>3. /\ inbox[n] \in Seq(UploadEvents) /\ inbox[n] # <<>> /\ serving[n] \notin {"nothing", "starting"}
          /\ inbox'[n] = Tail(inbox[n]) /\ socket'[n] \in {"open", "closing"}
        BY DEF OnMessage, UploadTypes, UploadScreenTypeOK, StartsOnce, UploadInv
    <2>4. \A i \in DOMAIN Tail(inbox[n]) : Tail(inbox[n])[i] # "started"
        <3>1. \A i \in DOMAIN Tail(inbox[n]) :
                 i + 1 \in DOMAIN inbox[n] /\ Tail(inbox[n])[i] = inbox[n][i + 1] /\ i + 1 # 1
            BY <2>3
        <3>2. QED
            BY <3>1 DEF StartsOnce, UploadInv
    <2>5. loop'[n] = "reading" => sent[n] < Slices
        <3>1. CASE Head(inbox[n]) = "started"
            <4>1. 1 \in DOMAIN inbox[n] /\ inbox[n][1] = "started"
                BY <2>3, <3>1
            <4>2. QED
                BY <4>1, UploadScreenAssumption DEF StartsOnce, UploadInv
        <3>2. CASE loop' = loop
            BY <3>2 DEF StartsOnce, UploadInv
        <3>3. QED
            BY <3>1, <3>2 DEF OnMessage
    <2>6. QED
        <3>1. \A m \in Uploads \ {n} : sent'[m] = sent[m] /\ serving'[m] = serving[m]
            BY <2>2
        <3>2. \A i \in DOMAIN inbox'[n] : inbox'[n][i] # "started"
            BY <2>3, <2>4
        <3>3. /\ serving'[n] \notin {"nothing", "starting"} /\ socket'[n] \notin {"none", "connecting"}
              /\ loop'[n] = "reading" => sent'[n] < Slices
            BY <2>2, <2>3, <2>5
        <3>4. QED
            BY <2>1, <3>1, <3>2, <3>3 DEF StartsOnce, UploadInv
<1>4. IdleHoldsNothing'
    BY UploadScreenAssumption DEF OnMessage, Show, IdleHoldsNothing, PanelFollowsItsUpload,
       UploadTypes, UploadScreenTypeOK, UploadEvents, Uploads, Live, Running, NoUpload,
       UploadInv
<1>5. PanelFollowsItsUpload'
    BY UploadScreenAssumption DEF OnMessage, Show, PanelFollowsItsUpload, IdleHoldsNothing,
       UnbegunIsUntouched, UploadTypes, UploadScreenTypeOK, UploadEvents, Uploads, Live,
       Running, NoUpload, UploadInv
<1>6. (wsRef <= uploads)'
    BY UploadScreenAssumption DEF OnMessage, Show, UploadTypes, UploadScreenTypeOK,
       UploadEvents, Uploads, Live, Running, NoUpload, UploadInv
<1>7. QED
    BY <1>1, <1>2, <1>3, <1>4, <1>5, <1>6 DEF UploadInv

LEMMA SliceReadKeeps ==
  ASSUME UploadInv, NEW n \in Uploads, SliceRead(n)
  PROVE  UploadInv'
<1>1. UploadTypes'
    <2>1. sent[n] \in 0..Slices /\ sent[n] < Slices
        BY DEF SliceRead, StartsOnce, UploadTypes, UploadScreenTypeOK, UploadInv
    <2>2. sent[n] + 1 \in 0..Slices
        BY <2>1, UploadScreenAssumption
    <2>3. sent' \in [Uploads -> 0..Slices]
        BY <2>2 DEF SliceRead, UploadTypes, UploadScreenTypeOK, UploadInv
    <2>4. loop' \in [Uploads -> {"off", "reading"}]
        BY DEF SliceRead, UploadTypes, UploadScreenTypeOK, UploadInv
    <2>5. finished' \in [Uploads -> BOOLEAN]
        <3>1. (sent[n] + 1 = Slices) \in BOOLEAN
            BY Zenon
        <3>2. finished' = finished \/ finished' = [finished EXCEPT ![n] = (sent[n] + 1 = Slices)]
            BY DEF SliceRead
        <3>3. QED
            BY <3>1, <3>2, Zenon DEF UploadTypes, UploadScreenTypeOK, UploadInv
    <2>6. QED
        BY <2>3, <2>4, <2>5 DEF SliceRead, UploadTypes, UploadScreenTypeOK, UploadInv
<1>2. UnbegunIsUntouched'
    BY UploadScreenAssumption DEF SliceRead, UnbegunIsUntouched, UploadTypes,
       UploadScreenTypeOK, UploadEvents, Uploads, Live, Running, UploadInv
<1>3. StartsOnce'
    <2>1. /\ sent[n] \in 0..Slices /\ sent[n] < Slices /\ loop[n] = "reading"
          /\ serving[n] \notin {"nothing", "starting"}
        BY DEF SliceRead, StartsOnce, UploadTypes, UploadScreenTypeOK, UploadInv
    <2>2. \A m \in Uploads \ {n} : sent'[m] = sent[m] /\ loop'[m] = loop[m]
        BY DEF SliceRead, UploadTypes, UploadScreenTypeOK, UploadInv
    <2>3. loop'[n] = "reading" => sent'[n] < Slices
        BY <2>1, UploadScreenAssumption DEF SliceRead, UploadTypes, UploadScreenTypeOK, UploadInv
    <2>4. inbox' = inbox /\ serving' = serving /\ socket' = socket
        BY DEF SliceRead
    <2>5. \A i \in DOMAIN inbox[n] : inbox[n][i] # "started"
        BY <2>1 DEF StartsOnce, UploadInv
    <2>6. QED
        BY <2>1, <2>2, <2>3, <2>4, <2>5 DEF StartsOnce, UploadInv
<1>4. IdleHoldsNothing'
    BY UploadScreenAssumption DEF SliceRead, IdleHoldsNothing, PanelFollowsItsUpload,
       UploadTypes, UploadScreenTypeOK, UploadEvents, Uploads, Live, Running, NoUpload,
       UploadInv
<1>5. PanelFollowsItsUpload'
    BY UploadScreenAssumption DEF SliceRead, PanelFollowsItsUpload, IdleHoldsNothing,
       UnbegunIsUntouched, UploadTypes, UploadScreenTypeOK, UploadEvents, Uploads, Live,
       Running, NoUpload, UploadInv
<1>6. (wsRef <= uploads)'
    BY UploadScreenAssumption DEF SliceRead, UploadTypes, UploadScreenTypeOK, UploadEvents,
       Uploads, Live, Running, NoUpload, UploadInv
<1>7. QED
    BY <1>1, <1>2, <1>3, <1>4, <1>5, <1>6 DEF UploadInv

LEMMA SliceFailsKeeps ==
  ASSUME UploadInv, NEW n \in Uploads, SliceFails(n)
  PROVE  UploadInv'
<1>1. UploadTypes'
    BY UploadScreenAssumption DEF SliceFails, Show, Closing, UploadTypes, UploadScreenTypeOK,
       UploadEvents, Uploads, Live, Running, StartsOnce, UnbegunIsUntouched, UploadInv
<1>2. UnbegunIsUntouched'
    BY UploadScreenAssumption DEF SliceFails, Show, Closing, UnbegunIsUntouched, UploadTypes,
       UploadScreenTypeOK, UploadEvents, Uploads, Live, Running, UploadInv
<1>3. StartsOnce'
    BY UploadScreenAssumption DEF SliceFails, Show, Closing, StartsOnce, UploadTypes,
       UploadScreenTypeOK, UploadEvents, Uploads, Live, Running, UploadInv
<1>4. IdleHoldsNothing'
    BY UploadScreenAssumption DEF SliceFails, Show, Closing, IdleHoldsNothing,
       PanelFollowsItsUpload, UploadTypes, UploadScreenTypeOK, UploadEvents, Uploads, Live,
       Running, NoUpload, UploadInv
<1>5. PanelFollowsItsUpload'
    BY UploadScreenAssumption DEF SliceFails, Show, Closing, PanelFollowsItsUpload,
       IdleHoldsNothing, UnbegunIsUntouched, UploadTypes, UploadScreenTypeOK, UploadEvents,
       Uploads, Live, Running, NoUpload, UploadInv
<1>6. (wsRef <= uploads)'
    BY UploadScreenAssumption DEF SliceFails, Show, Closing, UploadTypes, UploadScreenTypeOK,
       UploadEvents, Uploads, Live, Running, NoUpload, UploadInv
<1>7. QED
    BY <1>1, <1>2, <1>3, <1>4, <1>5, <1>6 DEF UploadInv

LEMMA ConnectionLostKeeps ==
  ASSUME UploadInv, NEW n \in Uploads, ConnectionLost(n)
  PROVE  UploadInv'
<1>1. UploadTypes'
    BY UploadScreenAssumption DEF ConnectionLost, Show, closures, UploadTypes,
       UploadScreenTypeOK, UploadEvents, Uploads, Live, Running, StartsOnce,
       UnbegunIsUntouched, UploadInv
<1>2. UnbegunIsUntouched'
    BY UploadScreenAssumption DEF ConnectionLost, Show, closures, UnbegunIsUntouched,
       UploadTypes, UploadScreenTypeOK, UploadEvents, Uploads, Live, Running, UploadInv
<1>3. StartsOnce'
    BY UploadScreenAssumption DEF ConnectionLost, Show, closures, StartsOnce, UploadTypes,
       UploadScreenTypeOK, UploadEvents, Uploads, Live, Running, UploadInv
<1>4. IdleHoldsNothing'
    BY UploadScreenAssumption DEF ConnectionLost, Show, closures, IdleHoldsNothing,
       PanelFollowsItsUpload, UploadTypes, UploadScreenTypeOK, UploadEvents, Uploads, Live,
       Running, NoUpload, UploadInv
<1>5. PanelFollowsItsUpload'
    BY UploadScreenAssumption DEF ConnectionLost, Show, closures, PanelFollowsItsUpload,
       IdleHoldsNothing, UnbegunIsUntouched, UploadTypes, UploadScreenTypeOK, UploadEvents,
       Uploads, Live, Running, NoUpload, UploadInv
<1>6. (wsRef <= uploads)'
    BY UploadScreenAssumption DEF ConnectionLost, Show, closures, UploadTypes,
       UploadScreenTypeOK, UploadEvents, Uploads, Live, Running, NoUpload, UploadInv
<1>7. QED
    BY <1>1, <1>2, <1>3, <1>4, <1>5, <1>6 DEF UploadInv

LEMMA OnCloseKeeps ==
  ASSUME UploadInv, NEW n \in Uploads, OnClose(n)
  PROVE  UploadInv'
<1>1. UploadTypes'
    BY UploadScreenAssumption DEF OnClose, closures, UploadTypes, UploadScreenTypeOK,
       UploadEvents, Uploads, Live, Running, StartsOnce, UnbegunIsUntouched, UploadInv
<1>2. UnbegunIsUntouched'
    BY UploadScreenAssumption DEF OnClose, closures, UnbegunIsUntouched, UploadTypes,
       UploadScreenTypeOK, UploadEvents, Uploads, Live, Running, UploadInv
<1>3. StartsOnce'
    BY UploadScreenAssumption DEF OnClose, closures, StartsOnce, UploadTypes,
       UploadScreenTypeOK, UploadEvents, Uploads, Live, Running, UploadInv
<1>4. IdleHoldsNothing'
    BY UploadScreenAssumption DEF OnClose, closures, IdleHoldsNothing, PanelFollowsItsUpload,
       UploadTypes, UploadScreenTypeOK, UploadEvents, Uploads, Live, Running, NoUpload,
       UploadInv
<1>5. PanelFollowsItsUpload'
    BY UploadScreenAssumption DEF OnClose, closures, PanelFollowsItsUpload, IdleHoldsNothing,
       UnbegunIsUntouched, UploadTypes, UploadScreenTypeOK, UploadEvents, Uploads, Live,
       Running, NoUpload, UploadInv
<1>6. (wsRef <= uploads)'
    BY UploadScreenAssumption DEF OnClose, closures, UploadTypes, UploadScreenTypeOK,
       UploadEvents, Uploads, Live, Running, NoUpload, UploadInv
<1>7. QED
    BY <1>1, <1>2, <1>3, <1>4, <1>5, <1>6 DEF UploadInv

LEMMA ServeKeeps ==
  ASSUME UploadInv, NEW n \in Uploads, Serve(n)
  PROVE  UploadInv'
<1>1. UploadTypes'
    <2>1. PICK event \in UploadEvents, next \in {"receiving", "importing", "done"} : Sends(n, event, next)
        BY ServeSends
    <2>2. Append(inbox[n], event) \in Seq(UploadEvents)
        BY DEF UploadTypes, UploadInv
    <2>3. inbox' \in [Uploads -> Seq(UploadEvents)]
        BY <2>1, <2>2 DEF Sends, UploadTypes, UploadInv
    <2>4. QED
        BY <2>1, <2>3 DEF Sends, UploadTypes, UploadScreenTypeOK, UploadInv
<1>0. UNCHANGED <<display, uploads, wsRef, socket, loop, sent, isUploading, finished, terminal>>
    BY DEF Serve, Sends
<1>2. UnbegunIsUntouched'
    BY <1>0 DEF UnbegunIsUntouched, UploadInv
<1>3. StartsOnce'
    <2>1. PICK event \in UploadEvents, next \in {"receiving", "importing", "done"} :
             Sends(n, event, next) /\ (event = "started" => serving[n] = "starting")
        BY ServeSends
    <2>2. \A m \in Uploads \ {n} : inbox'[m] = inbox[m] /\ serving'[m] = serving[m]
        BY <2>1 DEF Sends
    <2>3. inbox[n] \in Seq(UploadEvents) /\ serving'[n] = next /\ inbox'[n] = Append(inbox[n], event)
        BY <2>1 DEF Sends, UploadTypes, UploadScreenTypeOK, UploadInv
    <2>4. socket[n] = "open" /\ UNCHANGED <<socket, loop, sent>>
        BY <2>1 DEF Sends
    <2>5. \A i \in DOMAIN inbox'[n] :
             inbox'[n][i] = "started" => i = 1 /\ loop[n] = "off" /\ sent[n] = 0
        <3> SUFFICES ASSUME NEW i \in DOMAIN inbox'[n], inbox'[n][i] = "started"
                     PROVE  i = 1 /\ loop[n] = "off" /\ sent[n] = 0
            OBVIOUS
        <3>1. CASE i = Len(inbox[n]) + 1
            BY <2>1, <2>3, <3>1 DEF StartsOnce, UploadInv
        <3>2. CASE i # Len(inbox[n]) + 1
            BY <2>3, <3>2 DEF StartsOnce, UploadInv
        <3>3. QED
            BY <3>1, <3>2
    <2>6. QED
        BY <2>1, <2>2, <2>3, <2>4, <2>5 DEF StartsOnce, UploadInv
<1>4. IdleHoldsNothing'
    BY <1>0 DEF IdleHoldsNothing, UploadInv
<1>5. PanelFollowsItsUpload'
    BY <1>0 DEF PanelFollowsItsUpload, UploadInv
<1>6. (wsRef <= uploads)'
    BY <1>0 DEF UploadInv
<1>7. QED
    BY <1>1, <1>2, <1>3, <1>4, <1>5, <1>6 DEF UploadInv

LEMMA UploadStarts == UploadScreenInit => UploadInv
<1> SUFFICES ASSUME UploadScreenInit PROVE UploadInv
    OBVIOUS
<1>1. /\ socket \in [Uploads -> {"none"}] /\ loop \in [Uploads -> {"off"}] /\ sent \in [Uploads -> {0}]
      /\ inbox \in [Uploads -> {<<>>}] /\ serving \in [Uploads -> {"nothing"}]
    BY DEF UploadScreenInit
<1>2. /\ finished \in [Uploads -> BOOLEAN] /\ terminal \in [Uploads -> BOOLEAN]
      /\ isUploading \in BOOLEAN
    BY Zenon DEF UploadScreenInit
<1>3. \A n \in Uploads : ~ terminal[n] /\ n \in Nat /\ n > 0
    BY DEF UploadScreenInit, Uploads
<1>4. UploadTypes
    BY <1>1, <1>2, UploadScreenAssumption DEF UploadScreenInit, UploadTypes, UploadScreenTypeOK,
       UploadEvents, NoUpload, Live
<1>5. UnbegunIsUntouched /\ StartsOnce
    BY <1>1, <1>3 DEF UploadScreenInit, UnbegunIsUntouched, StartsOnce
<1>6. IdleHoldsNothing /\ PanelFollowsItsUpload /\ wsRef <= uploads
    BY <1>1 DEF UploadScreenInit, IdleHoldsNothing, PanelFollowsItsUpload, NoUpload, Live, Running
<1>7. QED
    BY <1>4, <1>5, <1>6 DEF UploadInv

LEMMA UploadSteps == UploadInv /\ [UploadScreenNext]_uploadScreenVars => UploadInv'
<1>1. ASSUME UploadInv, UploadScreenNext PROVE UploadInv'
    BY <1>1, UploadFileKeeps, RefuseFileKeeps, ResetPanelKeeps, LeavePanelKeeps, OnOpenKeeps,
       OnMessageKeeps, SliceReadKeeps, SliceFailsKeeps, ConnectionLostKeeps, OnCloseKeeps,
       ServeKeeps DEF UploadScreenNext
<1>2. ASSUME UploadInv, UNCHANGED uploadScreenVars PROVE UploadInv'
    BY <1>2 DEF uploadScreenVars, UploadInv, UploadTypes, UploadScreenTypeOK, UnbegunIsUntouched,
       StartsOnce, IdleHoldsNothing, PanelFollowsItsUpload
<1>3. QED
    BY <1>1, <1>2

\* The variables of the upload panel keep their types; no more slices are sent
\* than the file has, although 'started' starts the loop (useRoflUploadWs.ts).
THEOREM UploadPanelTypes == UploadScreenSpec => []UploadScreenTypeOK
<1>1. UploadInv => UploadScreenTypeOK
    BY DEF UploadInv, UploadTypes
<1>2. QED
    BY <1>1, UploadStarts, UploadSteps, PTL DEF UploadScreenSpec

\* Whatever an earlier upload still does, the panel never waits for a connection
\* that is over, and the page never has two (useRoflUploadWs.ts).
THEOREM UploadPanelCorrect == UploadScreenSpec => []PanelFollowsItsUpload
<1>1. UploadInv => PanelFollowsItsUpload
    BY DEF UploadInv
<1>2. QED
    BY <1>1, UploadStarts, UploadSteps, PTL DEF UploadScreenSpec

-----------------------------------------------------------------------------
(***************************************************************************)
(* Navigation: the blocker and the moves of the browser.                   *)
(***************************************************************************)

Turns == {-1, 1}

\* The entry of the page on display, and how far the browser is from it.
ShownEntry == navIndex + 1
Distance == position - ShownEntry

\* For a user who does not hurry, the browser is where the page is, or one entry
\* off with the way back as its last move, or two off with the way back first.
MovesLeadBack ==
    /\ moves \in Seq(Turns) /\ Len(moves) <= 2
    /\ restoring => /\ Distance \in {-1, 1} /\ moves # <<>>
                    /\ moves[Len(moves)] = - Distance
    /\ ~ restoring /\ Distance # 0 =>
          /\ Distance \in {-2, 2} /\ moves # <<>>
          /\ 2 * moves[1] = - Distance

NavigationInv ==
    /\ NavigationTypeOK
    /\ Numbered
    /\ Len(entries) <= LastEntry
    /\ ShownEntry \in DOMAIN entries
    /\ shownPath = entries[ShownEntry].path
    /\ MovesLeadBack

LEMMA FirstMove ==
  ASSUME NavigationInv, moves # <<>>
  PROVE  /\ Head(moves) = moves[1] /\ moves[1] \in {-1, 1} /\ Len(moves) \in {1, 2}
         /\ Tail(moves) \in Seq(Turns) /\ Len(Tail(moves)) = Len(moves) - 1
         /\ Len(moves) = 2 => Tail(moves)[1] = moves[2] /\ moves[2] \in {-1, 1}
<1>1. moves \in Seq(Turns) /\ Len(moves) <= 2
    BY DEF NavigationInv, MovesLeadBack
<1>2. Len(moves) \in {1, 2}
    <2>1. Len(moves) \in Nat \ {0}
        BY <1>1, EmptySeq
    <2>2. Len(moves) <= 2
        BY <1>1
    <2>3. \A n \in Nat \ {0} : n <= 2 => n \in {1, 2}
        OBVIOUS
    <2>4. QED
        BY <2>1, <2>2, <2>3, Zenon
<1>3. Head(moves) = moves[1] /\ \A i \in 1..Len(moves) : moves[i] \in Turns
    BY <1>1, ElementOfSeq
<1>4. /\ Tail(moves) \in Seq(Turns) /\ Len(Tail(moves)) = Len(moves) - 1
      /\ \A i \in 1..Len(Tail(moves)) : Tail(moves)[i] = moves[i + 1]
    BY <1>1, HeadTailProperties
<1>5. QED
    BY <1>2, <1>3, <1>4 DEF Turns

LEMMA WhereTheBrowserIs ==
  ASSUME NavigationInv
  PROVE  /\ position \in Nat /\ navIndex \in Nat /\ position \in DOMAIN entries
         /\ ShownEntry = navIndex + 1 /\ Distance = position - (navIndex + 1)
         /\ \A i \in DOMAIN entries :
               i \in Nat /\ entries[i].index = i - 1 /\ entries[i].path \in Paths
         /\ DOMAIN entries = 1..Len(entries) /\ Len(entries) \in Nat /\ Len(entries) <= LastEntry
<1>1. /\ DOMAIN entries = 1..Len(entries) /\ Len(entries) \in Nat
      /\ \A i \in 1..Len(entries) : entries[i] \in [path : Paths, index : Nat]
    BY LenProperties, ElementOfSeq DEF NavigationInv, NavigationTypeOK
<1>2. /\ \A i \in DOMAIN entries : entries[i].index = i - 1
      /\ position \in DOMAIN entries /\ navIndex \in 0..LastEntry /\ Len(entries) <= LastEntry
    BY DEF NavigationInv, NavigationTypeOK, Numbered
<1>3. QED
    BY <1>1, <1>2 DEF ShownEntry, Distance

\* The browser moves, or has nowhere to go.
LEMMA WhereItGoes ==
  ASSUME NavigationInv, moves # <<>>
  PROVE  /\ Target = position + moves[1]
         /\ InHistory <=> 1 <= Target /\ Target <= Len(entries)
         /\ InHistory => entries[Target].index = Target - 1 /\ entries[Target].path \in Paths
         /\ restoring /\ Len(moves) = 1 => Target = ShownEntry
         /\ ~ restoring /\ Distance # 0 => Target - ShownEntry \in {-1, 1}
<1>1. Target = position + moves[1] /\ moves[1] \in {-1, 1} /\ Len(moves) \in {1, 2}
    BY FirstMove DEF Target
<1>2. Target \in Int
    BY <1>1, WhereTheBrowserIs
<1>3. InHistory <=> 1 <= Target /\ Target <= Len(entries)
    BY <1>2, WhereTheBrowserIs DEF InHistory
<1>4. InHistory => entries[Target].index = Target - 1 /\ entries[Target].path \in Paths
    BY WhereTheBrowserIs DEF InHistory
<1>5. restoring /\ Len(moves) = 1 => Target = ShownEntry
    BY <1>1, WhereTheBrowserIs DEF NavigationInv, MovesLeadBack
<1>6. ASSUME ~ restoring, Distance # 0 PROVE Target - ShownEntry \in {-1, 1}
    <2>1. Distance \in {-2, 2} /\ 2 * moves[1] = - Distance
        BY <1>6 DEF NavigationInv, MovesLeadBack
    <2>2. Target - ShownEntry = Distance + moves[1]
        BY <1>1, WhereTheBrowserIs
    <2>3. QED
        BY <1>1, <2>1, <2>2
<1>7. QED
    BY <1>1, <1>3, <1>4, <1>5, <1>6

LEMMA EditsKeep ==
  ASSUME NavigationInv, EditsOnly, edited' \in BOOLEAN, savingEdits' \in BOOLEAN
  PROVE  NavigationInv'
BY DEF EditsOnly, NavigationInv, NavigationTypeOK, Numbered, ShownEntry, Distance,
   MovesLeadBack

\* Nothing but the browser and what it was told has changed.
LEMMA BrowserKeeps ==
  ASSUME NavigationInv, MovesLeadBack', position' \in DOMAIN entries, restoring' \in BOOLEAN,
         UNCHANGED <<entries, navIndex, shownPath, edited, savingEdits>>, hurried' \in BOOLEAN
  PROVE  NavigationInv'
BY DEF NavigationInv, NavigationTypeOK, Numbered, ShownEntry

LEMMA HurriedIsBoolean ==
  ASSUME NavigationInv, NEW now, Hurries(now)
  PROVE  hurried' \in BOOLEAN
<1>1. hurried \in BOOLEAN
    BY DEF NavigationInv, NavigationTypeOK
<1>2. hurried' = IF now THEN TRUE ELSE hurried
    BY DEF Hurries
<1>3. QED
    BY <1>1, <1>2, Zenon

LEMMA UserMovesKeeps ==
  ASSUME NavigationInv, NEW by \in {-1, 1}, UserMoves(by), ~ hurried'
  PROVE  NavigationInv'
<1>1. moves \in Seq(Turns) /\ Len(moves) + 1 <= 2 /\ moves' = Append(moves, by) /\ ~ restoring
    <2>1. ~ (restoring \/ Len(moves) > 1)
        BY Zenon DEF UserMoves, Hurries
    <2>2. moves \in Seq(Turns) /\ moves' = Append(moves, by) /\ Len(moves) \in Nat
        BY DEF UserMoves, NavigationInv, MovesLeadBack
    <2>3. QED
        BY <2>1, <2>2
<1>2. /\ moves' \in Seq(Turns) /\ Len(moves') <= 2 /\ moves' # <<>>
      /\ moves # <<>> => moves'[1] = moves[1]
    <2>1. by \in Turns /\ Len(moves) \in Nat /\ (moves # <<>> => Len(moves) \in Nat \ {0})
        BY <1>1, EmptySeq DEF Turns
    <2>2. QED
        BY <1>1, <2>1, AppendProperties
<1>3. ~ restoring /\ UNCHANGED <<restoring, position, navIndex>>
    BY <1>1 DEF UserMoves
<1>4. MovesLeadBack'
    BY <1>2, <1>3 DEF NavigationInv, MovesLeadBack, Distance, ShownEntry
<1>5. hurried' \in BOOLEAN
    BY HurriedIsBoolean DEF UserMoves
<1>6. QED
    BY <1>4, <1>5, BrowserKeeps DEF UserMoves, NavigationInv, NavigationTypeOK

LEMMA FollowLinkKeeps ==
  ASSUME NavigationInv, NEW p \in Paths, FollowLink(p), ~ hurried'
  PROVE  NavigationInv'
<1>11. moves = <<>> /\ ~ restoring /\ UNCHANGED <<moves, restoring>>
    <2>1. ~ (moves # <<>>)
        BY Zenon DEF FollowLink, Hurries
    <2>2. QED
        BY <2>1 DEF FollowLink
<1>1. position = navIndex + 1
    BY <1>11, WhereTheBrowserIs DEF NavigationInv, MovesLeadBack
<1> DEFINE kept == SubSeq(entries, 1, position)
<1> DEFINE added == Entry(p, navIndex + 1)
<1>2. /\ kept \in Seq([path : Paths, index : Nat]) /\ Len(kept) = position
      /\ \A i \in 1..position : kept[i] = entries[i]
    <2>1. /\ position \in Int /\ position >= 1
          /\ \A i \in 1..position : i \in 1..Len(entries) /\ 1 + i - 1 = i
        BY WhereTheBrowserIs
    <2>2. \A i \in 1..position : entries[i] \in [path : Paths, index : Nat]
        BY <2>1, ElementOfSeq DEF NavigationInv, NavigationTypeOK
    <2>3. /\ kept \in Seq([path : Paths, index : Nat])
          /\ Len(kept) = IF 1 <= position THEN position - 1 + 1 ELSE 0
          /\ \A i \in 1..(position - 1 + 1) : kept[i] = entries[1 + i - 1]
        BY <2>1, <2>2, SubSeqProperties
    <2>4. QED
        BY <2>1, <2>3
<1>3. added \in [path : Paths, index : Nat] /\ added.index = position /\ added.path = p
    BY <1>1, WhereTheBrowserIs DEF Entry
<1>4. entries' = Append(kept, added) /\ position' = position + 1 /\ navIndex' = navIndex + 1
    BY DEF FollowLink
<1> HIDE DEF kept, added
<1>5. /\ entries' \in Seq([path : Paths, index : Nat]) /\ Len(entries') = position + 1
      /\ \A i \in 1..position : entries'[i] = entries[i]
      /\ entries'[position + 1] = added
    BY <1>2, <1>3, <1>4, AppendProperties
<1>6. DOMAIN entries' = 1..(position + 1)
    BY <1>5, LenProperties
<1>7. Numbered'
    <2>1. ASSUME NEW i \in 1..(position + 1) PROVE entries'[i].index = i - 1
        <3>1. CASE i = position + 1
            BY <1>3, <1>5, <3>1, WhereTheBrowserIs
        <3>2. CASE i \in 1..position
            <4>1. i \in DOMAIN entries
                BY <3>2, WhereTheBrowserIs
            <4>2. QED
                BY <1>5, <3>2, <4>1, WhereTheBrowserIs
        <3>3. QED
            BY <2>1, <3>1, <3>2, WhereTheBrowserIs
    <2>2. QED
        BY <1>6, <2>1 DEF Numbered
<1>8. /\ Len(entries') <= LastEntry /\ navIndex' \in 0..LastEntry
      /\ position' \in DOMAIN entries' /\ ShownEntry' = position + 1
    <2>1. position < LastEntry /\ position \in Nat /\ navIndex \in Nat /\ LastEntry \in Nat
        BY WhereTheBrowserIs, NavigationAssumption DEF FollowLink
    <2>2. ShownEntry' = navIndex' + 1
        BY DEF ShownEntry
    <2>3. position' \in 1..(position + 1)
        BY <2>1, <1>4
    <2>4. navIndex' \in 0..LastEntry /\ navIndex' + 1 = position + 1
        BY <2>1, <1>1, <1>4
    <2>5. Len(entries') <= LastEntry
        BY <2>1, <1>5
    <2>6. QED
        BY <2>2, <2>3, <2>4, <2>5, <1>6
<1>9. ShownEntry' \in DOMAIN entries' /\ shownPath' = entries'[ShownEntry'].path /\ shownPath' \in Paths
    BY <1>3, <1>5, <1>6, <1>8, WhereTheBrowserIs DEF FollowLink, ShowPath
<1>10. edited' \in BOOLEAN /\ savingEdits' \in BOOLEAN
    BY Zenon DEF FollowLink, ShowPath
<1>16. hurried' \in BOOLEAN
    BY HurriedIsBoolean DEF FollowLink
<1>12. MovesLeadBack'
    BY <1>1, <1>4, <1>11, WhereTheBrowserIs DEF MovesLeadBack, Distance, ShownEntry
<1>13. restoring' \in BOOLEAN
    BY DEF FollowLink, NavigationInv, NavigationTypeOK
<1>14. NavigationTypeOK'
    BY <1>5, <1>8, <1>9, <1>10, <1>13, <1>16 DEF NavigationTypeOK
<1>15. QED
    BY <1>7, <1>8, <1>9, <1>12, <1>14 DEF NavigationInv

LEMMA RestoredKeeps ==
  ASSUME NavigationInv, Restored
  PROVE  NavigationInv'
<1>1. /\ moves # <<>> /\ InHistory /\ position' = Target /\ restoring /\ restoring' = FALSE
      /\ moves' = Tail(moves) /\ UNCHANGED <<entries, navIndex, shownPath, edited, savingEdits>>
    BY DEF Restored, MoveOn
<1>2. Distance \in {-1, 1} /\ moves[Len(moves)] = - Distance
    BY <1>1 DEF NavigationInv, MovesLeadBack
<1>5. Distance' = Distance + moves[1]
    BY <1>1, WhereTheBrowserIs, WhereItGoes, FirstMove DEF Distance, ShownEntry
<1>3. MovesLeadBack'
    <2>1. moves' \in Seq(Turns) /\ Len(moves') = Len(moves) - 1 /\ Len(moves) \in {1, 2}
        BY <1>1, FirstMove
    <2>2. CASE Len(moves) = 1
        <3>1. Distance' = 0
            BY <1>2, <1>5, <2>2
        <3>2. QED
            BY <1>1, <2>1, <2>2, <3>1 DEF MovesLeadBack
    <2>3. CASE Len(moves) = 2
        <3>1. moves'[1] = - Distance /\ moves[1] \in {-1, 1} /\ Len(moves') = 1
            <4>1. moves[2] = - Distance
                BY <1>2, <2>3
            <4>2. QED
                BY <1>1, <2>1, <2>3, <4>1, FirstMove
        <3>4. moves' # <<>>
            BY <3>1
        <3>2. Distance' = 0 \/ (Distance' \in {-2, 2} /\ Distance' = 2 * Distance)
            BY <1>2, <1>5, <3>1
        <3>3. QED
            BY <1>1, <1>2, <2>1, <3>1, <3>2, <3>4 DEF MovesLeadBack
    <2>4. QED
        BY <2>1, <2>2, <2>3
<1>6. restoring' \in BOOLEAN
    BY <1>1, Zenon
<1>7. hurried' \in BOOLEAN
    BY DEF Restored, MoveOn, NavigationInv, NavigationTypeOK
<1>4. QED
    BY <1>1, <1>3, <1>6, <1>7, BrowserKeeps DEF InHistory

LEMMA RefuseMoveKeeps ==
  ASSUME NavigationInv, RefuseMove
  PROVE  NavigationInv'
<1> DEFINE back == navIndex - entries[Target].index
<1>1. /\ moves # <<>> /\ InHistory /\ position' = Target /\ ~ restoring /\ restoring' = TRUE
      /\ moves' = Append(Tail(moves), back)
      /\ UNCHANGED <<entries, navIndex, shownPath, edited, savingEdits>>
    BY DEF RefuseMove, MoveOn
<1>2. /\ Distance' = Target - ShownEntry /\ back = - Distance'
    <2>1. /\ Distance' = Target - (navIndex + 1) /\ ShownEntry = navIndex + 1
          /\ back = navIndex - (Target - 1) /\ Target = position + moves[1]
        BY <1>1, WhereItGoes DEF Distance, ShownEntry
    <2>2. position \in Int /\ navIndex \in Int /\ moves[1] \in Int
        BY <1>1, WhereTheBrowserIs, FirstMove
    <2>3. QED
        BY <2>1, <2>2
<1>3. Distance' \in {-1, 1}
    <2>1. CASE Distance # 0
        BY <1>1, <1>2, <2>1, WhereItGoes
    <2>2. CASE Distance = 0
        <3>1. /\ Target = position + moves[1] /\ moves[1] \in {-1, 1} /\ position \in Int
              /\ ShownEntry \in Int /\ position - ShownEntry = 0
            BY <1>1, <2>2, WhereItGoes, WhereTheBrowserIs, FirstMove DEF Distance
        <3>2. QED
            BY <1>2, <3>1
    <2>3. QED
        BY <2>1, <2>2
<1>4. back \in {-1, 1}
    BY <1>2, <1>3
<1> HIDE DEF back
<1>5. /\ Tail(moves) \in Seq(Turns) /\ Len(Tail(moves)) <= 1 /\ back \in Turns
    BY <1>1, <1>4, FirstMove DEF Turns
<1>6. /\ moves' \in Seq(Turns) /\ Len(moves') <= 2 /\ moves' # <<>> /\ moves'[Len(moves')] = back
    BY <1>1, <1>5, AppendProperties
<1>7. MovesLeadBack'
    BY <1>1, <1>2, <1>3, <1>6 DEF MovesLeadBack
<1>8. restoring' \in BOOLEAN
    BY <1>1, Zenon
<1>10. hurried' \in BOOLEAN
    BY DEF RefuseMove, MoveOn, NavigationInv, NavigationTypeOK
<1>9. QED
    BY <1>1, <1>7, <1>8, <1>10, BrowserKeeps DEF InHistory

LEMMA LeavePageKeeps ==
  ASSUME NavigationInv, LeavePage
  PROVE  NavigationInv'
<1>1. /\ moves # <<>> /\ InHistory /\ position' = Target /\ ~ restoring
      /\ moves' = Tail(moves) /\ UNCHANGED <<entries, restoring>>
      /\ navIndex' = entries[Target].index /\ shownPath' = entries[Target].path
    BY DEF LeavePage, MoveOn, ShowPath
<1>2. /\ Target \in DOMAIN entries /\ navIndex' = Target - 1 /\ Target \in Nat /\ Target >= 1
      /\ Target <= LastEntry /\ shownPath' \in Paths
    BY <1>1, WhereTheBrowserIs, WhereItGoes, NavigationAssumption DEF InHistory
<1>3. ShownEntry' = Target /\ Distance' = 0 /\ navIndex' \in 0..LastEntry
    BY <1>1, <1>2, NavigationAssumption DEF ShownEntry, Distance
<1>4. moves' \in Seq(Turns) /\ Len(moves') <= 2
    BY <1>1, FirstMove
<1>5. MovesLeadBack'
    BY <1>1, <1>3, <1>4 DEF MovesLeadBack
<1>6. edited' \in BOOLEAN /\ savingEdits' \in BOOLEAN
    BY Zenon DEF LeavePage, ShowPath
<1>8. hurried' = hurried
    BY DEF LeavePage, MoveOn
<1>7. QED
    BY <1>8, <1>1, <1>2, <1>3, <1>5, <1>6 DEF NavigationInv, NavigationTypeOK, Numbered

LEMMA NowhereToGoKeeps ==
  ASSUME NavigationInv, NowhereToGo
  PROVE  NavigationInv'
<1>1. /\ moves # <<>> /\ ~ InHistory /\ moves' = Tail(moves)
      /\ UNCHANGED <<entries, position, navIndex, restoring, shownPath, edited, savingEdits, hurried>>
    BY DEF NowhereToGo
<1>2. ShownEntry \in 1..Len(entries) /\ position \in 1..Len(entries)
    BY WhereTheBrowserIs DEF NavigationInv
<1>3. Distance' = Distance
    BY <1>1 DEF Distance, ShownEntry
<1>4. ~ restoring => Distance = 0
    <2> SUFFICES ASSUME ~ restoring, Distance # 0 PROVE FALSE
        OBVIOUS
    <2>1. /\ Distance \in {-2, 2} /\ 2 * moves[1] = - Distance /\ Target = position + moves[1]
          /\ Distance = position - ShownEntry
        BY <1>1, WhereItGoes DEF NavigationInv, MovesLeadBack, Distance
    <2>2. 1 <= Target /\ Target <= Len(entries)
        <3>1. moves[1] \in {-1, 1} /\ Len(entries) \in Nat /\ position \in Nat /\ ShownEntry \in Nat
            BY <1>1, <1>2, FirstMove, WhereTheBrowserIs
        <3>2. position - ShownEntry = - (2 * moves[1])
            BY <2>1, <3>1, SMTT(30)
        <3>3. Target = ShownEntry - moves[1] /\ position = ShownEntry - 2 * moves[1]
            BY <2>1, <3>1, <3>2
        <3>4. QED
            BY <1>2, <3>1, <3>3
    <2>3. QED
        BY <1>1, <2>2, WhereItGoes
<1>5. restoring => Len(moves) = 2
    BY <1>1, <1>2, WhereItGoes, FirstMove
<1>6. MovesLeadBack'
    <2>1. moves' \in Seq(Turns) /\ Len(moves') = Len(moves) - 1 /\ Len(moves) \in {1, 2}
        BY <1>1, FirstMove
    <2>2. CASE restoring
        <3>1. /\ Len(moves') = 1 /\ moves'[1] = moves[2] /\ moves' # <<>>
            BY <1>1, <1>5, <2>1, <2>2, FirstMove, EmptySeq
        <3>2. Distance \in {-1, 1} /\ moves[2] = - Distance
            BY <1>5, <2>2 DEF NavigationInv, MovesLeadBack
        <3>3. QED
            BY <1>1, <1>3, <2>1, <2>2, <3>1, <3>2 DEF MovesLeadBack
    <2>3. CASE ~ restoring
        <3>1. Distance' = 0 /\ ~ restoring'
            BY <1>1, <1>3, <1>4, <2>3
        <3>3. Len(moves') <= 2
            BY <2>1
        <3>2. QED
            BY <2>1, <3>1, <3>3 DEF MovesLeadBack
    <2>4. QED
        BY <2>2, <2>3
<1>7. QED
    BY <1>1, <1>2, <1>6, BrowserKeeps DEF NavigationInv, NavigationTypeOK

LEMMA NavigationStarts == NavigationInit => NavigationInv
<1> SUFFICES ASSUME NavigationInit PROVE NavigationInv
    OBVIOUS
<1>1. /\ entries = <<Entry(FirstPath, 0)>> /\ position = 1 /\ moves = <<>> /\ navIndex = 0
      /\ ~ restoring /\ shownPath = FirstPath
    BY DEF NavigationInit
<1>2. Entry(FirstPath, 0) \in [path : Paths, index : Nat] /\ DOMAIN entries = {1}
    BY <1>1, NavigationAssumption DEF Entry
<1>3. restoring \in BOOLEAN /\ edited \in BOOLEAN /\ savingEdits \in BOOLEAN /\ hurried \in BOOLEAN
    BY Zenon DEF NavigationInit
<1>4. NavigationTypeOK
    BY <1>1, <1>2, <1>3, NavigationAssumption DEF NavigationTypeOK
<1>5. Numbered /\ entries[1].path = FirstPath /\ Len(entries) = 1
    BY <1>1, <1>2 DEF Numbered, Entry
<1>6. MovesLeadBack
    BY <1>1 DEF MovesLeadBack, Distance, ShownEntry
<1>7. QED
    BY <1>1, <1>2, <1>4, <1>5, <1>6, NavigationAssumption DEF NavigationInv, ShownEntry

\* Who has hurried once has lost the guarantee for good.
LEMMA HurriedForGood == [NavigationNext]_navigationVars /\ hurried => hurried'
BY DEF NavigationNext, navigationVars, EditPage, SaveEdits, EditsSaved, EditsOnly, FollowLink,
   UserMoves, Hurries, Restored, RefuseMove, LeavePage, MoveOn, NowhereToGo

LEMMA NavigationSteps ==
  (~ hurried => NavigationInv) /\ [NavigationNext]_navigationVars => (~ hurried' => NavigationInv')
<1>1. ASSUME NavigationInv, EditPage \/ SaveEdits \/ EditsSaved PROVE NavigationInv'
    <2>1. edited \in BOOLEAN /\ savingEdits \in BOOLEAN
        BY <1>1 DEF NavigationInv, NavigationTypeOK
    <2>2. EditsOnly /\ edited' \in BOOLEAN /\ savingEdits' \in BOOLEAN
        BY <1>1, <2>1, Zenon DEF EditPage, SaveEdits, EditsSaved
    <2>3. QED
        BY <1>1, <2>2, EditsKeep
<1>2. ASSUME NavigationInv, NavigationNext, ~ hurried' PROVE NavigationInv'
    BY <1>1, <1>2, FollowLinkKeeps, UserMovesKeeps, RestoredKeeps, RefuseMoveKeeps,
       LeavePageKeeps, NowhereToGoKeeps DEF NavigationNext
<1>3. ASSUME NavigationInv, UNCHANGED navigationVars PROVE NavigationInv'
    BY <1>3 DEF navigationVars, NavigationInv, NavigationTypeOK, Numbered, ShownEntry,
       Distance, MovesLeadBack
<1>4. QED
    BY <1>2, <1>3, HurriedForGood

\* Once the browser has stopped, the page on display is the one of its entry and
\* nothing is left to undo, for any history and any number of moves, if the user
\* was never more than one move ahead of it when moving again and followed no link
\* before it had stopped (browser-navigation.ts).
THEOREM PageFollowsHistory == NavigationSpec => []PageIsOfItsEntry
<1>1. (~ hurried => NavigationInv) => PageIsOfItsEntry
    <2> SUFFICES ASSUME NavigationInv, moves = <<>> PROVE PageFits
        BY DEF PageIsOfItsEntry
    <2>1. ~ restoring /\ Distance = 0
        BY DEF NavigationInv, MovesLeadBack
    <2>2. position = navIndex + 1 /\ entries[position].index = position - 1
        BY <2>1, WhereTheBrowserIs
    <2>3. QED
        BY <2>1, <2>2, WhereTheBrowserIs DEF PageFits, NavigationInv, ShownEntry
<1>2. QED
    BY <1>1, NavigationStarts, NavigationSteps, PTL DEF NavigationSpec

\* The numbers of the entries are their places, so that their difference is the
\* way back, for the same users (browser-navigation.ts).
THEOREM EntriesStayNumbered == NavigationSpec => []EntriesAreNumbered
<1>1. (~ hurried => NavigationInv) => EntriesAreNumbered
    BY DEF NavigationInv, EntriesAreNumbered
<1>2. QED
    BY <1>1, NavigationStarts, NavigationSteps, PTL DEF NavigationSpec

\* A page that is saving is not left, however far ahead the user is
\* (useEditorLeaveGuard.ts, browser-navigation.ts).
THEOREM SavingPagesStay == NavigationSpec => SavingPageStays
<1>1. [NavigationNext]_navigationVars => [savingEdits => shownPath' = shownPath]_navigationVars
    BY DEF NavigationNext, EditPage, SaveEdits, EditsSaved, EditsOnly, FollowLink, MayLeave,
       UserMoves, Restored, RefuseMove, LeavePage, NowhereToGo
<1>2. QED
    BY <1>1, PTL DEF NavigationSpec, SavingPageStays

-----------------------------------------------------------------------------
(***************************************************************************)
(* MatchEditor, the order of the maps: one request at a time, of the       *)
(* order on display.                                                       *)
(***************************************************************************)

OrderRequests == [phase : {"none", "sent", "written", "refused"}, expectedOrder : Orders,
                  gameIds : Orders]

MapPageTypes ==
    /\ mapSequence \in Orders /\ mapChanges \in 0..LastReorder
    /\ mapsShown \in Orders \cup {MapsNotLoaded}
    /\ expectedOrder \in Orders
    /\ mapsLoad \in [phase : {"sent", "answered", "idle"}, maps : Orders]
    /\ panelBusy \in {"nobody", "form", "order"}
    /\ orderRequest \in OrderRequests
    /\ orderNotice \in BOOLEAN

\* A load is under way only while no maps are shown, and a request is of the
\* order that the page moves from.
RequestIsOfThePage ==
    /\ mapsLoad.phase # "idle" => mapsShown = MapsNotLoaded
    /\ orderRequest.phase # "none" =>
           orderRequest.expectedOrder = expectedOrder /\ mapsShown # MapsNotLoaded

MapPageInv == MapPageTypes /\ RequestIsOfThePage /\ ShownOrderIsTheSaved

LEMMA OrdersAreSequences ==
  ASSUME NEW s \in Orders
  PROVE  s \in Seq(MatchMaps) /\ DOMAIN s = 1..Len(s) /\ Len(s) \in Nat
<1>1. PICK M \in SUBSET MatchMaps : s \in SetToSeqs(M)
    BY DEF Orders
<1>2. Cardinality(M) \in Nat
    BY <1>1, MapPageAssumption, FS_Subset, FS_CardinalityType
<1>3. s \in [1..Cardinality(M) -> MatchMaps]
    BY <1>1 DEF SetToSeqs
<1>4. QED
    BY <1>2, <1>3

LEMMA NoOrder == <<>> \in Orders
<1>1. {} \in SUBSET MatchMaps /\ Cardinality({}) = 0
    BY FS_EmptySet
<1>2. <<>> \in [1..0 -> {}]
    OBVIOUS
<1>3. <<>> \in SetToSeqs({})
    BY <1>1, <1>2 DEF SetToSeqs
<1>4. QED
    BY <1>1, <1>3 DEF Orders

\* Two neighbours that are exchanged are the same maps.
LEMMA ExchangeKeepsMaps ==
  ASSUME NEW s \in Orders, NEW i \in DOMAIN s, NEW j \in DOMAIN s, i # j
  PROVE  /\ [s EXCEPT ![i] = s[j], ![j] = s[i]] \in Orders
         /\ Range([s EXCEPT ![i] = s[j], ![j] = s[i]]) = Range(s)
<1> DEFINE t == [s EXCEPT ![i] = s[j], ![j] = s[i]]
<1>1. PICK M \in SUBSET MatchMaps : s \in SetToSeqs(M)
    BY DEF Orders
<1>2. /\ s \in [1..Cardinality(M) -> M]
      /\ \A k, l \in 1..Cardinality(M) : k # l => s[k] # s[l]
    BY <1>1 DEF SetToSeqs
<1>3. /\ DOMAIN t = DOMAIN s /\ t[i] = s[j] /\ t[j] = s[i]
      /\ \A k \in DOMAIN s : k # i /\ k # j => t[k] = s[k]
    BY <1>2
<1>4. t \in [1..Cardinality(M) -> M]
    BY <1>2
<1> HIDE DEF t
<1>5. \A k, l \in 1..Cardinality(M) : k # l => t[k] # t[l]
    BY <1>2, <1>3
<1>6. t \in Orders
    BY <1>4, <1>5 DEF Orders, SetToSeqs
<1>7. \A x : (\E k \in DOMAIN t : t[k] = x) <=> (\E k \in DOMAIN s : s[k] = x)
    BY <1>3
<1>8. Range(t) = Range(s)
    BY <1>7 DEF Range
<1>9. QED
    BY <1>6, <1>8 DEF t

LEMMA ServerShowsMapsKeeps ==
  ASSUME MapPageInv, ServerShowsMaps
  PROVE  MapPageInv'
<1>1. MapPageTypes'
    BY MapPageAssumption, NoOrder DEF ServerShowsMaps, MapPageTypes, OrderRequests, MapPageInv
<1>2. RequestIsOfThePage'
    BY MapPageAssumption, NoOrder DEF ServerShowsMaps, RequestIsOfThePage,
       ShownOrderIsTheSaved, MapPageTypes, OrderRequests, MapPageInv
<1>3. ShownOrderIsTheSaved'
    BY MapPageAssumption, NoOrder DEF ServerShowsMaps, RequestIsOfThePage,
       ShownOrderIsTheSaved, MapPageTypes, OrderRequests, MapPageInv
<1>4. QED
    BY <1>1, <1>2, <1>3 DEF MapPageInv

LEMMA MapsArriveKeeps ==
  ASSUME MapPageInv, MapsArrive
  PROVE  MapPageInv'
<1>1. MapPageTypes'
    BY MapPageAssumption, NoOrder DEF MapsArrive, MapsIdle, MapsWanted, MapPageTypes,
       OrderRequests, MapPageInv
<1>2. RequestIsOfThePage'
    BY MapPageAssumption, NoOrder DEF MapsArrive, MapsIdle, MapsWanted, RequestIsOfThePage,
       ShownOrderIsTheSaved, MapPageTypes, OrderRequests, MapPageInv
<1>3. ShownOrderIsTheSaved'
    BY MapPageAssumption, NoOrder DEF MapsArrive, MapsIdle, MapsWanted, RequestIsOfThePage,
       ShownOrderIsTheSaved, MapPageTypes, OrderRequests, MapPageInv
<1>4. QED
    BY <1>1, <1>2, <1>3 DEF MapPageInv

LEMMA MapsFailKeeps ==
  ASSUME MapPageInv, MapsFail
  PROVE  MapPageInv'
<1>1. MapPageTypes'
    BY MapPageAssumption, NoOrder DEF MapsFail, MapsIdle, MapsWanted, MapPageTypes,
       OrderRequests, MapPageInv
<1>2. RequestIsOfThePage'
    BY MapPageAssumption, NoOrder DEF MapsFail, MapsIdle, MapsWanted, RequestIsOfThePage,
       ShownOrderIsTheSaved, MapPageTypes, OrderRequests, MapPageInv
<1>3. ShownOrderIsTheSaved'
    BY MapPageAssumption, NoOrder DEF MapsFail, MapsIdle, MapsWanted, RequestIsOfThePage,
       ShownOrderIsTheSaved, MapPageTypes, OrderRequests, MapPageInv
<1>4. QED
    BY <1>1, <1>2, <1>3 DEF MapPageInv

LEMMA ReloadMapsKeeps ==
  ASSUME MapPageInv, ReloadMaps
  PROVE  MapPageInv'
<1>1. MapPageTypes'
    BY MapPageAssumption, NoOrder DEF ReloadMaps, MapsIdle, MapsWanted, MapPageTypes,
       OrderRequests, MapPageInv
<1>2. RequestIsOfThePage'
    BY MapPageAssumption, NoOrder DEF ReloadMaps, MapsIdle, MapsWanted, RequestIsOfThePage,
       ShownOrderIsTheSaved, MapPageTypes, OrderRequests, MapPageInv
<1>3. ShownOrderIsTheSaved'
    BY MapPageAssumption, NoOrder DEF ReloadMaps, MapsIdle, MapsWanted, RequestIsOfThePage,
       ShownOrderIsTheSaved, MapPageTypes, OrderRequests, MapPageInv
<1>4. QED
    BY <1>1, <1>2, <1>3 DEF MapPageInv

LEMMA SaveOrderKeeps ==
  ASSUME MapPageInv, SaveOrder
  PROVE  MapPageInv'
<1>1. MapPageTypes'
    BY MapPageAssumption, NoOrder DEF SaveOrder, Dirty, MapPageTypes, OrderRequests,
       MapPageInv
<1>2. RequestIsOfThePage'
    BY MapPageAssumption, NoOrder DEF SaveOrder, Dirty, RequestIsOfThePage,
       ShownOrderIsTheSaved, MapPageTypes, OrderRequests, MapPageInv
<1>3. ShownOrderIsTheSaved'
    BY MapPageAssumption, NoOrder DEF SaveOrder, Dirty, RequestIsOfThePage,
       ShownOrderIsTheSaved, MapPageTypes, OrderRequests, MapPageInv
<1>4. QED
    BY <1>1, <1>2, <1>3 DEF MapPageInv

LEMMA ServeOrderKeeps ==
  ASSUME MapPageInv, ServeOrder
  PROVE  MapPageInv'
<1>1. MapPageTypes'
    BY MapPageAssumption, NoOrder DEF ServeOrder, AcceptsOrder, MapPageTypes, OrderRequests,
       MapPageInv
<1>2. RequestIsOfThePage'
    BY MapPageAssumption, NoOrder DEF ServeOrder, AcceptsOrder, RequestIsOfThePage,
       ShownOrderIsTheSaved, MapPageTypes, OrderRequests, MapPageInv
<1>3. ShownOrderIsTheSaved'
    BY MapPageAssumption, NoOrder DEF ServeOrder, AcceptsOrder, RequestIsOfThePage,
       ShownOrderIsTheSaved, MapPageTypes, OrderRequests, MapPageInv
<1>4. QED
    BY <1>1, <1>2, <1>3 DEF MapPageInv

LEMMA OrderSavedKeeps ==
  ASSUME MapPageInv, OrderSaved
  PROVE  MapPageInv'
<1>1. MapPageTypes'
    BY MapPageAssumption, NoOrder DEF OrderSaved, NoOrderRequest, MapPageTypes, OrderRequests,
       MapPageInv
<1>2. RequestIsOfThePage'
    BY MapPageAssumption, NoOrder DEF OrderSaved, NoOrderRequest, RequestIsOfThePage,
       ShownOrderIsTheSaved, MapPageTypes, OrderRequests, MapPageInv
<1>3. ShownOrderIsTheSaved'
    BY MapPageAssumption, NoOrder DEF OrderSaved, NoOrderRequest, RequestIsOfThePage,
       ShownOrderIsTheSaved, MapPageTypes, OrderRequests, MapPageInv
<1>4. QED
    BY <1>1, <1>2, <1>3 DEF MapPageInv

LEMMA OrderNotSavedKeeps ==
  ASSUME MapPageInv, OrderNotSaved
  PROVE  MapPageInv'
<1>1. MapPageTypes'
    BY MapPageAssumption, NoOrder DEF OrderNotSaved, NoOrderRequest, MapPageTypes,
       OrderRequests, MapPageInv
<1>2. RequestIsOfThePage'
    BY MapPageAssumption, NoOrder DEF OrderNotSaved, NoOrderRequest, RequestIsOfThePage,
       ShownOrderIsTheSaved, MapPageTypes, OrderRequests, MapPageInv
<1>3. ShownOrderIsTheSaved'
    BY MapPageAssumption, NoOrder DEF OrderNotSaved, NoOrderRequest, RequestIsOfThePage,
       ShownOrderIsTheSaved, MapPageTypes, OrderRequests, MapPageInv
<1>4. QED
    BY <1>1, <1>2, <1>3 DEF MapPageInv

LEMMA FormIsSentKeeps ==
  ASSUME MapPageInv, FormIsSent
  PROVE  MapPageInv'
<1>1. MapPageTypes'
    BY MapPageAssumption, NoOrder DEF FormIsSent, MapPageTypes, OrderRequests, MapPageInv
<1>2. RequestIsOfThePage'
    BY MapPageAssumption, NoOrder DEF FormIsSent, RequestIsOfThePage, ShownOrderIsTheSaved,
       MapPageTypes, OrderRequests, MapPageInv
<1>3. ShownOrderIsTheSaved'
    BY MapPageAssumption, NoOrder DEF FormIsSent, RequestIsOfThePage, ShownOrderIsTheSaved,
       MapPageTypes, OrderRequests, MapPageInv
<1>4. QED
    BY <1>1, <1>2, <1>3 DEF MapPageInv

LEMMA FormFailsKeeps ==
  ASSUME MapPageInv, FormFails
  PROVE  MapPageInv'
<1>1. MapPageTypes'
    BY MapPageAssumption, NoOrder DEF FormFails, MapPageTypes, OrderRequests, MapPageInv
<1>2. RequestIsOfThePage'
    BY MapPageAssumption, NoOrder DEF FormFails, RequestIsOfThePage, ShownOrderIsTheSaved,
       MapPageTypes, OrderRequests, MapPageInv
<1>3. ShownOrderIsTheSaved'
    BY MapPageAssumption, NoOrder DEF FormFails, RequestIsOfThePage, ShownOrderIsTheSaved,
       MapPageTypes, OrderRequests, MapPageInv
<1>4. QED
    BY <1>1, <1>2, <1>3 DEF MapPageInv

LEMMA OthersChangeMapsKeeps ==
  ASSUME MapPageInv, NEW order \in Orders, OthersChangeMaps(order)
  PROVE  MapPageInv'
<1>1. MapPageTypes'
    BY MapPageAssumption, NoOrder DEF OthersChangeMaps, MapPageTypes, OrderRequests,
       MapPageInv
<1>2. RequestIsOfThePage'
    BY MapPageAssumption, NoOrder DEF OthersChangeMaps, RequestIsOfThePage,
       ShownOrderIsTheSaved, MapPageTypes, OrderRequests, MapPageInv
<1>3. ShownOrderIsTheSaved'
    BY MapPageAssumption, NoOrder DEF OthersChangeMaps, RequestIsOfThePage,
       ShownOrderIsTheSaved, MapPageTypes, OrderRequests, MapPageInv
<1>4. QED
    BY <1>1, <1>2, <1>3 DEF MapPageInv

LEMMA MoveShownKeeps ==
  ASSUME MapPageInv, NEW i \in 2..Cardinality(MatchMaps), i <= Len(mapsShown), MoveShown(i - 1, i)
  PROVE  MapPageInv'
<1>1. mapsShown \in Orders
    BY DEF MapPageInv, MapPageTypes, MoveShown
<1>2. i - 1 \in DOMAIN mapsShown /\ i \in DOMAIN mapsShown /\ i - 1 # i
    <2>1. i \in Nat /\ 2 <= i
        BY MapPageAssumption, FS_CardinalityType
    <2>2. QED
        BY <1>1, <2>1, OrdersAreSequences
<1>3. mapsShown' \in Orders /\ Range(mapsShown') = Range(mapsShown)
    <2>1. mapsShown' = [mapsShown EXCEPT ![i - 1] = mapsShown[i], ![i] = mapsShown[i - 1]]
        BY DEF MoveShown
    <2>2. PICK k : k = i - 1
        OBVIOUS
    <2>3. /\ [mapsShown EXCEPT ![k] = mapsShown[i], ![i] = mapsShown[k]] \in Orders
          /\ Range([mapsShown EXCEPT ![k] = mapsShown[i], ![i] = mapsShown[k]]) = Range(mapsShown)
        BY <1>1, <1>2, <2>2, ExchangeKeepsMaps
    <2>4. QED
        BY <2>1, <2>2, <2>3
<1>4. MapPageTypes'
    BY <1>3 DEF MoveShown, MapPageInv, MapPageTypes
<1>5. mapsShown # MapsNotLoaded /\ mapsLoad.phase = "idle" /\ orderRequest.phase = "none"
    BY DEF MoveShown, MapPageInv, RequestIsOfThePage, ShownOrderIsTheSaved
<1>6. RequestIsOfThePage' /\ ShownOrderIsTheSaved'
    BY <1>3, <1>5 DEF MoveShown, MapPageInv, RequestIsOfThePage, ShownOrderIsTheSaved
<1>7. QED
    BY <1>4, <1>6 DEF MapPageInv

LEMMA MapPageStarts == MapPageInit => MapPageInv
<1> SUFFICES ASSUME MapPageInit PROVE MapPageInv
    OBVIOUS
<1>1. orderNotice \in BOOLEAN /\ orderNotice = FALSE
    BY Zenon DEF MapPageInit
<1>2. MapPageTypes
    BY <1>1, NoOrder, MapPageAssumption DEF MapPageInit, MapPageTypes, MapsWanted, NoOrderRequest,
       OrderRequests
<1>3. QED
    BY <1>1, <1>2 DEF MapPageInit, MapPageInv, RequestIsOfThePage, ShownOrderIsTheSaved, MapsWanted,
       NoOrderRequest

LEMMA MapPageSteps == MapPageInv /\ [MapPageNext]_mapPageVars => MapPageInv'
<1>1. ASSUME MapPageInv, MapPageNext PROVE MapPageInv'
    BY <1>1, ServerShowsMapsKeeps, MapsArriveKeeps, MapsFailKeeps, ReloadMapsKeeps, MoveShownKeeps,
       SaveOrderKeeps, ServeOrderKeeps, OrderSavedKeeps, OrderNotSavedKeeps, FormIsSentKeeps,
       FormFailsKeeps, OthersChangeMapsKeeps DEF MapPageNext
<1>2. ASSUME MapPageInv, UNCHANGED mapPageVars PROVE MapPageInv'
    BY <1>2 DEF mapPageVars, MapPageInv, MapPageTypes, RequestIsOfThePage, ShownOrderIsTheSaved
<1>3. QED
    BY <1>1, <1>2

\* While a save is awaited the maps shown are those it sent, the page holds them
\* complete, and when it says they are saved they were (MatchMapOrderEditor.tsx).
THEOREM OrderOnDisplayCorrect == MapPageSpec => []ShownOrderIsTheSaved
<1>1. MapPageInv => ShownOrderIsTheSaved
    BY DEF MapPageInv
<1>2. QED
    BY <1>1, MapPageStarts, MapPageSteps, PTL DEF MapPageSpec

\* The order of the page replaces exactly the order it was moved from
\* (MatchMapOrderEditor.tsx, reorderMaps()).
THEOREM OrderReplacesLoaded == MapPageSpec => OrderReplacesTheLoaded
<1>1. MapPageInv /\ [MapPageNext]_mapPageVars =>
        [orderRequest.phase = "sent" /\ orderRequest'.phase = "written" =>
           /\ mapSequence = expectedOrder
           /\ mapSequence' = mapsShown
           /\ Range(mapSequence') = Range(mapSequence)]_mapPageVars
    <2> SUFFICES ASSUME MapPageInv, MapPageNext, orderRequest.phase = "sent",
                        orderRequest'.phase = "written"
                 PROVE  /\ mapSequence = expectedOrder
                        /\ mapSequence' = mapsShown
                        /\ Range(mapSequence') = Range(mapSequence)
        OBVIOUS
    <2>1. ServeOrder
        BY DEF MapPageNext, ServerShowsMaps, MapsArrive, MapsFail, ReloadMaps, MoveShown, SaveOrder,
           OrderSaved, OrderNotSaved, FormIsSent, FormFails, OthersChangeMaps, NoOrderRequest,
           MapPageInv, ShownOrderIsTheSaved
    <2>2. AcceptsOrder /\ mapSequence' = orderRequest.gameIds
        BY <2>1 DEF ServeOrder, MapPageInv, MapPageTypes, OrderRequests
    <2>3. QED
        BY <2>2 DEF AcceptsOrder, MapPageInv, RequestIsOfThePage, ShownOrderIsTheSaved
<1>2. QED
    BY <1>1, MapPageStarts, MapPageSteps, PTL DEF MapPageSpec, OrderReplacesTheLoaded

\* The order of the maps: shown as saved, and saved over what was loaded.
THEOREM MapPageCorrect ==
  MapPageSpec => []ShownOrderIsTheSaved /\ OrderReplacesTheLoaded
    BY OrderOnDisplayCorrect, OrderReplacesLoaded

-----------------------------------------------------------------------------
(***************************************************************************)
(* MatchEditor, the form of a match over the checks of the server.         *)
(***************************************************************************)

FormValues == [idSeasonDivision : Competitions \cup {NoValue},
               idRound : (UNION Range(RoundsIn)) \cup {NoRow},
               team1Id : FormTeams \cup {NoValue}, team2Id : FormTeams \cup {NoValue},
               winnerTeamId : FormTeams \cup {NoValue}]
FixtureRows == [values : FormValues, version : Nat, linked : BOOLEAN, late : BOOLEAN]
OptionRows == {NoOptions} \cup [phase : {"shown"}, rows : [FormTeams -> Competitions]]

MatchFormTypes ==
    /\ competitionOf \in [FormTeams -> Competitions]
    /\ fixtures \in Seq(FixtureRows) /\ Len(fixtures) \in 1..LastFixture
    /\ edits \in Nat /\ teamMoves \in Nat
    /\ formOpened \in [id : {0, 1, LastFixture + 1}, version : Nat]
    /\ values \in FormValues
    /\ teamRows \in [TeamFields -> OptionRows]
    /\ submitted \in [phase : {"none", "sent", "checked", "refused", "written"}, checked : Nat]

\* The winner is one of the teams, and the round one of the competition.
ValuesAreConsistent ==
    /\ values.winnerTeamId \in {NoValue, values.team1Id, values.team2Id}
    /\ values.idRound \in RoundsOf(values.idSeasonDivision) \cup {NoRow}

\* Until a team is moved the teams of the form are those of its competition.
TeamsAreOfTheForm ==
    teamMoves = 0 =>
        /\ competitionOf = FirstCompetition
        /\ \A f \in TeamFields :
              teamRows[f].phase = "shown" => teamRows[f].rows = FirstCompetition
        /\ \A t \in {values.team1Id, values.team2Id} \ {NoValue} :
              values.idSeasonDivision \in {NoValue, FirstCompetition[t]}

\* What was sent is complete, and what was checked still passes the checks
\* that a write relies on, unless a team was moved since.
SentIsChecked ==
    /\ Busy => FormIsOpen /\ IsComplete(values)
    /\ submitted.phase = "checked" =>
          /\ ResultIsValid(values)
          /\ submitted.checked <= teamMoves
          /\ submitted.checked = teamMoves => TeamsAreOfCompetition(values)

\* What is stored has all its values.
StoredIsComplete == \A i \in DOMAIN fixtures : IsComplete(fixtures[i].values)

MatchFormInv ==
    /\ MatchFormTypes /\ ValuesAreConsistent /\ TeamsAreOfTheForm /\ SentIsChecked
    /\ StoredIsComplete /\ StoredMatchesAreSound

LEMMA FormConstants ==
  /\ NoValue \notin Competitions /\ NoValue \notin FormTeams
  /\ NewValues \in FormValues /\ FirstFixture \in FormValues
  /\ NoOptions \in OptionRows
  /\ \A c \in Competitions : RoundsIn[c] \subseteq UNION Range(RoundsIn)
  /\ LastFixture \in Nat /\ LastFixture > 0
<1>1. \A c \in Competitions : RoundsIn[c] \in Range(RoundsIn)
    BY MatchFormAssumption DEF Range
<1>2. \A c \in Competitions : RoundsIn[c] \subseteq UNION Range(RoundsIn)
    BY <1>1
<1>3. FirstFixture.idRound \in (UNION Range(RoundsIn)) \cup {NoRow}
    <2>1. FirstFixture.idSeasonDivision \in Competitions
          /\ FirstFixture.idRound \in RoundsIn[FirstFixture.idSeasonDivision] \cup {NoRow}
        BY MatchFormAssumption
    <2>2. QED
        BY <2>1, <1>2
<1>4. FirstFixture \in FormValues
    BY <1>3, MatchFormAssumption DEF FormValues
<1>5. NewValues \in FormValues
    <2>1. NoRow \in (UNION Range(RoundsIn)) \cup {NoRow}
        OBVIOUS
    <2> HIDE DEF NoRow
    <2>2. QED
        BY <2>1, Zenon DEF NewValues, FormValues
<1>6. QED
    BY <1>2, <1>4, <1>5, MatchFormAssumption DEF OptionRows

LEMMA FixtureTypes ==
  ASSUME MatchFormTypes, NEW i \in DOMAIN fixtures
  PROVE  fixtures[i] \in FixtureRows /\ i \in 1..Len(fixtures) /\ fixtures[i].values \in FormValues
<1>1. i \in 1..Len(fixtures) /\ fixtures[i] \in FixtureRows
    BY DEF MatchFormTypes
<1>2. QED
    BY <1>1 DEF FixtureRows

\* What changes neither teams nor the values of matches leaves the matches sound.
LEMMA ValuesAreKept ==
  ASSUME StoredIsComplete, StoredMatchesAreSound, UNCHANGED competitionOf,
         DOMAIN fixtures' = DOMAIN fixtures,
         \A i \in DOMAIN fixtures : fixtures'[i].values = fixtures[i].values
                                   /\ fixtures'[i].late = fixtures[i].late
  PROVE  StoredIsComplete' /\ StoredMatchesAreSound'
    BY DEF StoredIsComplete, StoredMatchesAreSound, TeamsAreOfCompetition, IsUnique, Pairing, IsComplete,
       RoundsOf

LEMMA StoreIsKept ==
  ASSUME StoredIsComplete, StoredMatchesAreSound, UNCHANGED <<fixtures, competitionOf>>
  PROVE  StoredIsComplete' /\ StoredMatchesAreSound'
    BY ValuesAreKept

LEMMA LoadOptionsKeeps ==
  ASSUME MatchFormInv, NEW f \in TeamFields, LoadOptions(f)
  PROVE  MatchFormInv'
<1>1. MatchFormTypes'
    BY FormConstants DEF LoadOptions, OptionRows, MatchFormTypes, MatchFormInv
<1>2. ValuesAreConsistent'
    BY FormConstants DEF LoadOptions, ValuesAreConsistent, RoundsOf, MatchFormInv
<1>3. TeamsAreOfTheForm'
    BY FormConstants DEF LoadOptions, MatchFormTypes, OptionRows, TeamsAreOfTheForm,
       MatchFormInv
<1>4. SentIsChecked'
    BY FormConstants DEF LoadOptions, SentIsChecked, Busy, FormIsOpen, IsComplete,
       ResultIsValid, TeamsAreOfCompetition, MatchFormTypes, MatchFormInv
<1>5. StoredIsComplete'
    BY FormConstants, StoreIsKept DEF LoadOptions, MatchFormInv
<1>6. StoredMatchesAreSound'
    BY FormConstants, StoreIsKept DEF LoadOptions, MatchFormInv
<1>7. QED
    BY <1>1, <1>2, <1>3, <1>4, <1>5, <1>6 DEF MatchFormInv

LEMMA PickCompetitionKeeps ==
  ASSUME MatchFormInv, NEW c \in Competitions \cup {NoValue}, PickCompetition(c)
  PROVE  MatchFormInv'
<1>1. MatchFormTypes'
    BY FormConstants DEF PickCompetition, FormValues, Change, NewValues, MatchFormTypes,
       MatchFormInv
<1>2. ValuesAreConsistent'
    BY FormConstants DEF PickCompetition, MatchFormTypes, FormValues, Change, NewValues,
       ValuesAreConsistent, RoundsOf, MatchFormInv
<1>3. TeamsAreOfTheForm'
    BY FormConstants DEF PickCompetition, Change, NewValues, TeamsAreOfTheForm, MatchFormInv
<1>4. SentIsChecked'
    BY FormConstants DEF PickCompetition, Change, NewValues, SentIsChecked, Busy, FormIsOpen,
       IsComplete, ResultIsValid, TeamsAreOfCompetition, MatchFormTypes, MatchFormInv
<1>5. StoredIsComplete'
    BY FormConstants, StoreIsKept DEF PickCompetition, Change, NewValues, MatchFormInv
<1>6. StoredMatchesAreSound'
    BY FormConstants, StoreIsKept DEF PickCompetition, Change, NewValues, MatchFormInv
<1>7. QED
    BY <1>1, <1>2, <1>3, <1>4, <1>5, <1>6 DEF MatchFormInv

LEMMA PickTeamKeeps ==
  ASSUME MatchFormInv, NEW f \in TeamFields, NEW t \in FormTeams \cup {NoValue}, PickTeam(f, t)
  PROVE  MatchFormInv'
<1>1. /\ UNCHANGED <<competitionOf, fixtures, edits, teamMoves, formOpened, teamRows, submitted>>
      /\ FormIsOpen /\ ~ Busy
      /\ f \in {"team1Id", "team2Id"} /\ teamRows[f].phase = "shown"
      /\ t \in EligibleTeams(f) \cup {NoValue} \/ t = values[f]
    BY Zenon DEF PickTeam, Change, Offered, TeamFields
<1>2. \/ f = "team1Id" /\ values' = [values EXCEPT !.team1Id = t, !.winnerTeamId = NoValue]
      \/ f = "team2Id" /\ values' = [values EXCEPT !.team2Id = t, !.winnerTeamId = NoValue]
    BY <1>1, Zenon DEF PickTeam, Change
<1>3. /\ values' \in FormValues /\ values'.winnerTeamId = NoValue
      /\ values'.idSeasonDivision = values.idSeasonDivision /\ values'.idRound = values.idRound
      /\ {values'.team1Id, values'.team2Id} \subseteq {values.team1Id, values.team2Id, t}
    <2>1. values \in FormValues
        BY DEF MatchFormTypes, MatchFormInv
    <2>2. QED
        BY <1>2, <2>1, FormConstants DEF FormValues
<1>4. MatchFormTypes'
    BY <1>1, <1>3 DEF MatchFormTypes, MatchFormInv
<1>5. ValuesAreConsistent'
    BY <1>1, <1>3 DEF ValuesAreConsistent, RoundsOf, MatchFormInv
<1>6. TeamsAreOfTheForm'
    <2>1. CASE t \in {NoValue, values.team1Id, values.team2Id}
        BY <1>1, <1>3, <2>1 DEF TeamsAreOfTheForm, MatchFormInv
    <2>2. CASE t \in EligibleTeams(f)
        <3>1. values.idSeasonDivision \in {NoValue, teamRows[f].rows[t]}
            BY <1>1, <2>2 DEF EligibleTeams
        <3>2. QED
            BY <1>1, <1>3, <3>1 DEF TeamsAreOfTheForm, MatchFormInv
    <2>3. CASE t = values[f]
        BY <1>1, <2>1, <2>3, Zenon
    <2>4. QED
        BY <1>1, <2>1, <2>2, <2>3
<1>7. SentIsChecked'
    BY <1>1 DEF SentIsChecked, Busy, FormIsOpen, MatchFormTypes, MatchFormInv
<1>8. StoredIsComplete' /\ StoredMatchesAreSound'
    BY <1>1, StoreIsKept DEF MatchFormInv
<1>9. QED
    BY <1>4, <1>5, <1>6, <1>7, <1>8 DEF MatchFormInv

LEMMA PickWinnerKeeps ==
  ASSUME MatchFormInv, NEW t \in FormTeams \cup {NoValue}, PickWinner(t)
  PROVE  MatchFormInv'
<1>1. MatchFormTypes'
    BY FormConstants DEF PickWinner, FormValues, Change, MatchFormTypes, MatchFormInv
<1>2. ValuesAreConsistent'
    <2>1. t \in EligibleTeams("winnerTeamId") \cup {NoValue, values.winnerTeamId}
        BY Zenon DEF PickWinner, Offered
    <2>2. QED
        BY <2>1, FormConstants DEF PickWinner, MatchFormTypes, FormValues, EligibleTeams, Change,
           ValuesAreConsistent, RoundsOf, MatchFormInv
<1>3. TeamsAreOfTheForm'
    BY FormConstants DEF PickWinner, MatchFormTypes, FormValues, Change, TeamsAreOfTheForm,
       MatchFormInv
<1>4. SentIsChecked'
    BY FormConstants DEF PickWinner, Change, SentIsChecked, Busy, FormIsOpen, IsComplete,
       ResultIsValid, TeamsAreOfCompetition, MatchFormTypes, MatchFormInv
<1>5. StoredIsComplete'
    BY FormConstants, StoreIsKept DEF PickWinner, Change, MatchFormInv
<1>6. StoredMatchesAreSound'
    BY FormConstants, StoreIsKept DEF PickWinner, Change, MatchFormInv
<1>7. QED
    BY <1>1, <1>2, <1>3, <1>4, <1>5, <1>6 DEF MatchFormInv

LEMMA PickRoundKeeps ==
  ASSUME MatchFormInv, NEW r \in (UNION Range(RoundsIn)) \cup {NoRow}, PickRound(r)
  PROVE  MatchFormInv'
<1>1. MatchFormTypes'
    BY FormConstants DEF PickRound, FormValues, Change, MatchFormTypes, MatchFormInv
<1>2. ValuesAreConsistent'
    BY FormConstants DEF PickRound, MatchFormTypes, FormValues, Change, ValuesAreConsistent,
       RoundsOf, MatchFormInv
<1>3. TeamsAreOfTheForm'
    BY FormConstants DEF PickRound, MatchFormTypes, FormValues, Change, TeamsAreOfTheForm,
       MatchFormInv
<1>4. SentIsChecked'
    BY FormConstants DEF PickRound, Change, SentIsChecked, Busy, FormIsOpen, IsComplete,
       ResultIsValid, TeamsAreOfCompetition, MatchFormTypes, MatchFormInv
<1>5. StoredIsComplete'
    BY FormConstants, StoreIsKept DEF PickRound, Change, MatchFormInv
<1>6. StoredMatchesAreSound'
    BY FormConstants, StoreIsKept DEF PickRound, Change, MatchFormInv
<1>7. QED
    BY <1>1, <1>2, <1>3, <1>4, <1>5, <1>6 DEF MatchFormInv

LEMMA SubmitFormKeeps ==
  ASSUME MatchFormInv, SubmitForm
  PROVE  MatchFormInv'
<1>1. MatchFormTypes'
    BY FormConstants DEF SubmitForm, MatchFormTypes, MatchFormInv
<1>2. ValuesAreConsistent'
    BY FormConstants DEF SubmitForm, ValuesAreConsistent, RoundsOf, MatchFormInv
<1>3. TeamsAreOfTheForm'
    BY FormConstants DEF SubmitForm, TeamsAreOfTheForm, MatchFormInv
<1>4. SentIsChecked'
    BY FormConstants DEF SubmitForm, SentIsChecked, Busy, FormIsOpen, IsComplete,
       ResultIsValid, TeamsAreOfCompetition, MatchFormTypes, MatchFormInv
<1>5. StoredIsComplete'
    BY FormConstants, StoreIsKept DEF SubmitForm, MatchFormInv
<1>6. StoredMatchesAreSound'
    BY FormConstants, StoreIsKept DEF SubmitForm, MatchFormInv
<1>7. QED
    BY <1>1, <1>2, <1>3, <1>4, <1>5, <1>6 DEF MatchFormInv

LEMMA CheckFormKeeps ==
  ASSUME MatchFormInv, CheckForm
  PROVE  MatchFormInv'
<1>1. MatchFormTypes'
    BY FormConstants DEF CheckForm, MatchFormTypes, MatchFormInv
<1>2. ValuesAreConsistent'
    BY FormConstants DEF CheckForm, ValuesAreConsistent, RoundsOf, MatchFormInv
<1>3. TeamsAreOfTheForm'
    BY FormConstants DEF CheckForm, TeamsAreOfTheForm, MatchFormInv
<1>4. SentIsChecked'
    <2>1. Busy /\ FormIsOpen /\ IsComplete(values) /\ teamMoves \in Nat
        BY DEF CheckForm, SentIsChecked, Busy, MatchFormTypes, MatchFormInv
    <2>2. CASE PassesChecks(values)
        <3>1. submitted' = [phase |-> "checked", checked |-> teamMoves]
            BY <2>2 DEF CheckForm
        <3>2. ResultIsValid(values) /\ TeamsAreOfCompetition(values)
            BY <2>2 DEF PassesChecks
        <3>3. QED
            BY <2>1, <3>1, <3>2 DEF CheckForm, SentIsChecked, FormIsOpen, IsComplete, ResultIsValid,
               TeamsAreOfCompetition
    <2>3. CASE ~ PassesChecks(values)
        <3>1. submitted' = [submitted EXCEPT !.phase = "refused"]
            BY <2>3 DEF CheckForm
        <3>2. submitted'.phase = "refused"
            BY <3>1 DEF MatchFormTypes, MatchFormInv
        <3>3. QED
            BY <2>1, <3>2 DEF CheckForm, SentIsChecked, FormIsOpen, IsComplete
    <2>4. QED
        BY <2>2, <2>3
<1>5. StoredIsComplete'
    BY FormConstants, StoreIsKept DEF CheckForm, MatchFormInv
<1>6. StoredMatchesAreSound'
    BY FormConstants, StoreIsKept DEF CheckForm, MatchFormInv
<1>7. QED
    BY <1>1, <1>2, <1>3, <1>4, <1>5, <1>6 DEF MatchFormInv

LEMMA SavedArrivesKeeps ==
  ASSUME MatchFormInv, SavedArrives
  PROVE  MatchFormInv'
<1>1. MatchFormTypes'
    BY FormConstants DEF SavedArrives, formIsClosed, NotSent, MatchFormTypes, MatchFormInv
<1>2. ValuesAreConsistent'
    BY FormConstants DEF SavedArrives, NewValues, NotSent, formIsClosed, ValuesAreConsistent,
       RoundsOf, MatchFormInv
<1>3. TeamsAreOfTheForm'
    BY FormConstants DEF SavedArrives, NewValues, NoOptions, NotSent, formIsClosed,
       TeamsAreOfTheForm, MatchFormInv
<1>4. SentIsChecked'
    BY FormConstants DEF SavedArrives, NotSent, formIsClosed, SentIsChecked, Busy, FormIsOpen,
       IsComplete, ResultIsValid, TeamsAreOfCompetition, MatchFormTypes, MatchFormInv
<1>5. StoredIsComplete'
    BY FormConstants, StoreIsKept DEF SavedArrives, NotSent, formIsClosed, MatchFormInv
<1>6. StoredMatchesAreSound'
    BY FormConstants, StoreIsKept DEF SavedArrives, NotSent, formIsClosed, MatchFormInv
<1>7. QED
    BY <1>1, <1>2, <1>3, <1>4, <1>5, <1>6 DEF MatchFormInv

LEMMA SaveFailedKeeps ==
  ASSUME MatchFormInv, SaveFailed
  PROVE  MatchFormInv'
<1>1. MatchFormTypes'
    BY FormConstants DEF SaveFailed, NotSent, MatchFormTypes, MatchFormInv
<1>2. ValuesAreConsistent'
    BY FormConstants DEF SaveFailed, NotSent, ValuesAreConsistent, RoundsOf, MatchFormInv
<1>3. TeamsAreOfTheForm'
    BY FormConstants DEF SaveFailed, NotSent, TeamsAreOfTheForm, MatchFormInv
<1>4. SentIsChecked'
    BY FormConstants DEF SaveFailed, NotSent, SentIsChecked, Busy, FormIsOpen, IsComplete,
       ResultIsValid, TeamsAreOfCompetition, MatchFormTypes, MatchFormInv
<1>5. StoredIsComplete'
    BY FormConstants, StoreIsKept DEF SaveFailed, NotSent, MatchFormInv
<1>6. StoredMatchesAreSound'
    BY FormConstants, StoreIsKept DEF SaveFailed, NotSent, MatchFormInv
<1>7. QED
    BY <1>1, <1>2, <1>3, <1>4, <1>5, <1>6 DEF MatchFormInv

LEMMA MoveTeamKeeps ==
  ASSUME MatchFormInv, NEW t \in Movable, NEW c \in Competitions, MoveTeam(t, c)
  PROVE  MatchFormInv'
<1>1. MatchFormTypes'
    BY MatchFormAssumption DEF MoveTeam, MatchFormTypes, MatchFormInv
<1>2. ValuesAreConsistent'
    BY FormConstants DEF MoveTeam, ValuesAreConsistent, RoundsOf, MatchFormInv
<1>3. TeamsAreOfTheForm'
    BY FormConstants DEF MoveTeam, MatchFormTypes, TeamsAreOfTheForm, MatchFormInv
<1>4. SentIsChecked'
    BY FormConstants DEF MoveTeam, SentIsChecked, Busy, FormIsOpen, IsComplete, ResultIsValid,
       TeamsAreOfCompetition, MatchFormTypes, MatchFormInv
<1>5. StoredIsComplete'
    BY DEF MoveTeam, StoredIsComplete, IsComplete, MatchFormInv
<1>6. StoredMatchesAreSound'
    <2>1. \A i \in DOMAIN fixtures : /\ fixtures[i].values.team1Id \in FormTeams \ {t}
                                    /\ fixtures[i].values.team2Id \in FormTeams \ {t}
        BY FixtureTypes, FormConstants
           DEF MoveTeam, StoredIsComplete, IsComplete, FormValues, MatchFormInv
    <2>2. competitionOf \in [FormTeams -> Competitions]
        BY DEF MatchFormInv, MatchFormTypes
    <2>3. \A i \in DOMAIN fixtures : TeamsAreOfCompetition(fixtures[i].values) =>
             {competitionOf'[fixtures[i].values.team1Id], competitionOf'[fixtures[i].values.team2Id]}
                 = {fixtures[i].values.idSeasonDivision}
        BY <2>1, <2>2 DEF MoveTeam, TeamsAreOfCompetition
    <2>4. QED
        BY <2>3 DEF MoveTeam, StoredMatchesAreSound, TeamsAreOfCompetition, IsUnique, Pairing, RoundsOf,
           MatchFormInv
<1>7. QED
    BY <1>1, <1>2, <1>3, <1>4, <1>5, <1>6 DEF MatchFormInv

LEMMA OthersEditKeeps ==
  ASSUME MatchFormInv, NEW id \in DOMAIN fixtures, OthersEdit(id)
  PROVE  MatchFormInv'
<1>1. MatchFormTypes'
    <2>1. fixtures[id] \in FixtureRows /\ id \in 1..Len(fixtures) /\ edits + 1 \in Nat
        BY FixtureTypes DEF MatchFormInv, MatchFormTypes
    <2>2. [fixtures[id] EXCEPT !.version = edits + 1, !.linked = TRUE] \in FixtureRows
        BY <2>1 DEF FixtureRows
    <2>3. fixtures' = [fixtures EXCEPT ![id] =
                          [fixtures[id] EXCEPT !.version = edits + 1, !.linked = TRUE]]
        BY DEF OthersEdit
    <2>4. fixtures' \in Seq(FixtureRows) /\ Len(fixtures') = Len(fixtures)
        BY <2>1, <2>2, <2>3 DEF MatchFormInv, MatchFormTypes
    <2>5. QED
        BY <2>1, <2>4 DEF OthersEdit, MatchFormInv, MatchFormTypes
<1>2. ValuesAreConsistent'
    BY FormConstants DEF OthersEdit, ValuesAreConsistent, RoundsOf, MatchFormInv
<1>3. TeamsAreOfTheForm'
    BY FormConstants DEF OthersEdit, TeamsAreOfTheForm, MatchFormInv
<1>4. SentIsChecked'
    BY FormConstants DEF OthersEdit, SentIsChecked, Busy, FormIsOpen, IsComplete,
       ResultIsValid, TeamsAreOfCompetition, MatchFormTypes, MatchFormInv
<1>5. StoredIsComplete'
    <2>1. /\ DOMAIN fixtures' = DOMAIN fixtures
          /\ \A i \in DOMAIN fixtures : /\ fixtures'[i].values = fixtures[i].values
                                        /\ fixtures'[i].late = fixtures[i].late
        BY FixtureTypes DEF OthersEdit, FixtureRows, MatchFormInv
    <2>2. QED
        BY <2>1, ValuesAreKept DEF OthersEdit, MatchFormInv
<1>6. StoredMatchesAreSound'
    <2>1. /\ DOMAIN fixtures' = DOMAIN fixtures
          /\ \A i \in DOMAIN fixtures : /\ fixtures'[i].values = fixtures[i].values
                                        /\ fixtures'[i].late = fixtures[i].late
        BY FixtureTypes DEF OthersEdit, FixtureRows, MatchFormInv
    <2>2. QED
        BY <2>1, ValuesAreKept DEF OthersEdit, MatchFormInv
<1>7. QED
    BY <1>1, <1>2, <1>3, <1>4, <1>5, <1>6 DEF MatchFormInv
\* A write: the match is complete, its teams and its winner were checked, and
\* the index keeps it apart from the other matches.
LEMMA WriteFormKeeps ==
  ASSUME MatchFormInv, WriteForm
  PROVE  MatchFormInv'
<1> DEFINE written == [Stored(values, edits + 1) EXCEPT
                          !.linked = ~ IsNew /\ StoredBefore.linked,
                          !.late = submitted.checked # teamMoves]
           place == IF IsNew THEN Len(fixtures) + 1 ELSE formOpened.id
<1>1. /\ submitted.phase = "checked" /\ values \in FormValues /\ edits \in Nat
      /\ fixtures \in Seq(FixtureRows) /\ Len(fixtures) \in 1..LastFixture
      /\ formOpened.id \in {0, 1} /\ submitted \in [phase : {"none", "sent", "checked", "refused",
                                                      "written"}, checked : Nat]
      /\ IsComplete(values)
    BY FormConstants
       DEF WriteForm, MatchFormInv, MatchFormTypes, SentIsChecked, FormIsOpen, Busy
<1>2. CASE ~ IsUnique(values, formOpened.id)
    <2>1. UNCHANGED <<fixtures, edits, competitionOf, teamMoves, formOpened, values, teamRows>>
          /\ submitted' = [submitted EXCEPT !.phase = "refused"]
        BY <1>2 DEF WriteForm
    <2>2. MatchFormTypes'
        BY <2>1, <1>1 DEF MatchFormInv, MatchFormTypes
    <2>3. ValuesAreConsistent' /\ TeamsAreOfTheForm'
        BY <2>1 DEF MatchFormInv, ValuesAreConsistent, TeamsAreOfTheForm, RoundsOf
    <2>4. SentIsChecked'
        BY <2>1, <1>1 DEF MatchFormInv, SentIsChecked, Busy, FormIsOpen, IsComplete
    <2>5. QED
        BY <2>1, <2>2, <2>3, <2>4, StoreIsKept DEF MatchFormInv
<1>3. CASE IsUnique(values, formOpened.id)
    <2>1. /\ fixtures' = IF IsNew THEN Append(fixtures, written)
                         ELSE [fixtures EXCEPT ![formOpened.id] = written]
          /\ edits' = edits + 1 /\ submitted' = [submitted EXCEPT !.phase = "written"]
          /\ UNCHANGED <<competitionOf, teamMoves, formOpened, values, teamRows>>
          /\ IsNew => Len(fixtures) < LastFixture
        BY <1>3 DEF WriteForm
    <2>2. written.values = values /\ written.late = (submitted.checked # teamMoves)
        BY DEF Stored
    <2>3. written \in FixtureRows
        <3>1. (~ IsNew /\ StoredBefore.linked) \in BOOLEAN /\ (submitted.checked # teamMoves) \in BOOLEAN
            <4>1. ASSUME ~ IsNew PROVE StoredBefore.linked \in BOOLEAN
                <5>1. formOpened.id \in 1..Len(fixtures)
                    BY <1>1, <4>1 DEF IsNew
                <5>2. fixtures[formOpened.id] \in FixtureRows
                    BY <5>1, <1>1
                <5>3. QED
                    BY <5>2 DEF StoredBefore, FixtureRows
            <4>2. QED
                BY <4>1, Zenon
        <3>2. edits + 1 \in Nat
            BY <1>1
        <3>3. QED
            BY <3>1, <3>2, <1>1 DEF Stored, FixtureRows
    <2> HIDE DEF written
    <2>4. /\ fixtures' \in Seq(FixtureRows) /\ Len(fixtures') \in 1..LastFixture
          /\ place \in 1..Len(fixtures') /\ fixtures'[place] = written
          /\ \A i \in 1..Len(fixtures') \ {place} : i \in 1..Len(fixtures) /\ fixtures'[i] = fixtures[i]
          /\ \A i \in 1..Len(fixtures') \ {place} : i # formOpened.id
        <3>1. CASE IsNew
            <4>1. fixtures' = Append(fixtures, written) /\ place = Len(fixtures) + 1
                BY <3>1, <2>1
            <4>2. /\ fixtures' \in Seq(FixtureRows) /\ Len(fixtures') = Len(fixtures) + 1
                  /\ fixtures'[Len(fixtures) + 1] = written
                  /\ \A i \in 1..Len(fixtures) : fixtures'[i] = fixtures[i]
                BY <4>1, <1>1, <2>3, AppendProperties
            <4>3. QED
                BY <4>1, <4>2, <3>1, <2>1, <1>1, FormConstants DEF IsNew
        <3>2. CASE ~ IsNew
            <4>1. fixtures' = [fixtures EXCEPT ![formOpened.id] = written] /\ place = formOpened.id
                  /\ place = 1
                BY <3>2, <2>1, <1>1 DEF IsNew
            <4>2. QED
                BY <4>1, <1>1, <2>3, FormConstants
        <3>3. QED
            BY <3>1, <3>2
    <2> HIDE DEF place
    <2>5. DOMAIN fixtures' = 1..Len(fixtures') /\ DOMAIN fixtures = 1..Len(fixtures)
        BY <2>4, <1>1
    <2>6. MatchFormTypes'
        <3>1. edits' \in Nat
            BY <2>1, <1>1
        <3>2. submitted' \in [phase : {"none", "sent", "checked", "refused", "written"}, checked : Nat]
            BY <2>1, <1>1
        <3>3. QED
            BY <2>1, <2>4, <3>1, <3>2 DEF MatchFormInv, MatchFormTypes
    <2>7. ValuesAreConsistent' /\ TeamsAreOfTheForm'
        BY <2>1 DEF MatchFormInv, ValuesAreConsistent, TeamsAreOfTheForm, RoundsOf
    <2>8. SentIsChecked'
        BY <2>1, <1>1 DEF MatchFormInv, SentIsChecked, Busy, FormIsOpen, IsComplete
    <2>9. StoredIsComplete'
        <3>1. \A i \in 1..Len(fixtures') : IsComplete(fixtures'[i].values)
            BY <2>2, <2>4, <2>5, <1>1 DEF MatchFormInv, StoredIsComplete
        <3>2. QED
            BY <3>1, <2>5 DEF StoredIsComplete, IsComplete
    <2>10. \A i \in 1..Len(fixtures') \ {place} :
              \/ values.idRound = NoRow \/ fixtures[i].values.idRound = NoRow
              \/ fixtures[i].values.idRound # values.idRound
              \/ Pairing(fixtures[i].values) # Pairing(values)
        BY <1>3, <2>4, <2>5 DEF IsUnique
    <2>11. \A i \in DOMAIN fixtures' : \A j \in DOMAIN fixtures' \ {i} :
              \/ fixtures'[j].values.idRound = NoRow
              \/ fixtures'[j].values.idRound # fixtures'[i].values.idRound
              \/ Pairing(fixtures'[j].values) # Pairing(fixtures'[i].values)
        <3>1. SUFFICES ASSUME NEW i \in DOMAIN fixtures', NEW j \in DOMAIN fixtures' \ {i},
                              fixtures'[j].values.idRound # NoRow,
                              fixtures'[j].values.idRound = fixtures'[i].values.idRound,
                              Pairing(fixtures'[j].values) = Pairing(fixtures'[i].values)
                       PROVE  FALSE
            OBVIOUS
        <3>2. CASE i = place
            BY <3>1, <3>2, <2>2, <2>4, <2>5, <2>10
        <3>3. CASE j = place
            BY <3>1, <3>3, <2>2, <2>4, <2>5, <2>10
        <3>4. CASE i # place /\ j # place
            <4>1. i \in DOMAIN fixtures /\ j \in DOMAIN fixtures \ {i} /\ fixtures'[i] = fixtures[i]
                  /\ fixtures'[j] = fixtures[j]
                BY <3>1, <3>4, <2>4, <2>5
            <4>2. IsUnique(fixtures[i].values, i)
                BY <4>1 DEF MatchFormInv, StoredMatchesAreSound
            <4>3. QED
                BY <4>1, <4>2, <3>1 DEF IsUnique
        <3>5. QED
            BY <3>2, <3>3, <3>4
    <2>12. ASSUME NEW i \in DOMAIN fixtures'
           PROVE  /\ {competitionOf[fixtures'[i].values.team1Id],
                         competitionOf[fixtures'[i].values.team2Id]}
                            = {fixtures'[i].values.idSeasonDivision} \/ fixtures'[i].late
                  /\ fixtures'[i].values.team1Id # fixtures'[i].values.team2Id
                  /\ fixtures'[i].values.winnerTeamId \in
                        {NoValue, fixtures'[i].values.team1Id, fixtures'[i].values.team2Id}
                  /\ fixtures'[i].values.idRound \in
                        RoundsOf(fixtures'[i].values.idSeasonDivision) \cup {NoRow}
        <3>1. CASE i = place
            BY <3>1, <1>1, <2>2, <2>4 DEF MatchFormInv, ValuesAreConsistent, SentIsChecked,
               ResultIsValid, TeamsAreOfCompetition
        <3>2. CASE i # place
            <4>1. i \in DOMAIN fixtures /\ fixtures'[i] = fixtures[i]
                BY <3>2, <2>4, <2>5
            <4>2. QED
                BY <4>1 DEF MatchFormInv, StoredMatchesAreSound, TeamsAreOfCompetition
        <3>3. QED
            BY <3>1, <3>2
    <2>13. StoredMatchesAreSound'
        <3>1. \A i \in DOMAIN fixtures' : IsUnique(fixtures[i].values, i)'
            BY <2>11 DEF IsUnique, Pairing
        <3>2. competitionOf' = competitionOf
            BY <2>1
        <3>3. \A i \in DOMAIN fixtures' :
                 LET v == fixtures'[i].values
                 IN  /\ TeamsAreOfCompetition(fixtures[i].values)' \/ fixtures'[i].late
                     /\ v.team1Id # v.team2Id
                     /\ v.winnerTeamId \in {NoValue, v.team1Id, v.team2Id}
                     /\ v.idRound \in RoundsOf(v.idSeasonDivision) \cup {NoRow}
            BY <2>12, <3>2 DEF TeamsAreOfCompetition
        <3>4. QED
            BY <3>1, <3>3 DEF StoredMatchesAreSound
    <2>14. QED
        BY <2>6, <2>7, <2>8, <2>9, <2>13 DEF MatchFormInv
<1>4. QED
    BY <1>2, <1>3

LEMMA MatchFormStarts == MatchFormInit => MatchFormInv
<1> SUFFICES ASSUME MatchFormInit PROVE MatchFormInv
    OBVIOUS
<1>1. fixtures = <<Stored(FirstFixture, 1)>> /\ Stored(FirstFixture, 1) \in FixtureRows
    BY FormConstants DEF MatchFormInit, Stored, FixtureRows
<1>2. /\ fixtures \in Seq(FixtureRows) /\ Len(fixtures) = 1 /\ DOMAIN fixtures = {1}
      /\ fixtures[1].values = FirstFixture
    BY <1>1 DEF Stored
<1>3. MatchFormTypes
    BY <1>2, FormConstants, MatchFormAssumption DEF MatchFormInit, MatchFormTypes, NotSent
<1>4. ValuesAreConsistent
    BY MatchFormAssumption DEF MatchFormInit, ValuesAreConsistent, NewValues, RoundsOf
<1>5. TeamsAreOfTheForm
    BY MatchFormAssumption DEF MatchFormInit, TeamsAreOfTheForm, NewValues, NoOptions
<1>6. SentIsChecked
    BY DEF MatchFormInit, SentIsChecked, NotSent, Busy
<1>7. StoredIsComplete
    BY <1>2, FormConstants, MatchFormAssumption DEF StoredIsComplete, IsComplete
<1>8. StoredMatchesAreSound
    BY <1>2, MatchFormAssumption DEF MatchFormInit, StoredMatchesAreSound, TeamsAreOfCompetition,
       IsUnique, RoundsOf
<1>9. QED
    BY <1>3, <1>4, <1>5, <1>6, <1>7, <1>8 DEF MatchFormInv

LEMMA MatchFormSteps == MatchFormInv /\ [MatchFormNext]_matchFormVars => MatchFormInv'
<1>1. ASSUME MatchFormInv, MatchFormNext PROVE MatchFormInv'
    BY <1>1, LoadOptionsKeeps, PickCompetitionKeeps, PickTeamKeeps, PickWinnerKeeps, PickRoundKeeps,
       SubmitFormKeeps, CheckFormKeeps, WriteFormKeeps, SavedArrivesKeeps, SaveFailedKeeps,
       MoveTeamKeeps, OthersEditKeeps DEF MatchFormNext
<1>2. ASSUME MatchFormInv, UNCHANGED matchFormVars PROVE MatchFormInv'
    <2>1. MatchFormTypes' /\ ValuesAreConsistent' /\ TeamsAreOfTheForm'
        BY <1>2 DEF matchFormVars, MatchFormInv, MatchFormTypes, ValuesAreConsistent,
           TeamsAreOfTheForm, RoundsOf
    <2>2. SentIsChecked'
        BY <1>2 DEF matchFormVars, MatchFormInv, SentIsChecked, Busy, FormIsOpen, IsComplete,
           ResultIsValid, TeamsAreOfCompetition
    <2>3. QED
        BY <1>2, <2>1, <2>2, StoreIsKept DEF matchFormVars, MatchFormInv
<1>3. QED
    BY <1>1, <1>2

\* Whatever is picked in whatever order, a form is refused only for one team
\* twice, a match that somebody changed or that has maps or votes, or a team
\* that was moved (CrudRecordForm against mutate() and validateRelations()).
THEOREM FormsAccepted == MatchFormSpec => []FormsAreAcceptable
<1>1. ASSUME MatchFormInv PROVE FormsAreAcceptable
    <2> SUFFICES ASSUME submitted.phase = "sent", values.team1Id # values.team2Id, VersionIsCurrent,
                        PairingMayChange(values), teamMoves = 0
                 PROVE  ResultIsValid(values) /\ TeamsAreOfCompetition(values)
        BY <1>1 DEF FormsAreAcceptable, PassesChecks, MatchFormInv, MatchFormTypes
    <2>1. IsComplete(values) /\ values \in FormValues
        BY <1>1 DEF MatchFormInv, SentIsChecked, Busy, MatchFormTypes
    <2>2. ResultIsValid(values)
        BY <1>1 DEF MatchFormInv, ValuesAreConsistent, ResultIsValid
    <2>3. TeamsAreOfCompetition(values)
        BY <1>1, <2>1 DEF MatchFormInv, TeamsAreOfTheForm, IsComplete, TeamsAreOfCompetition
    <2>4. QED
        BY <2>2, <2>3
<1>2. QED
    BY <1>1, MatchFormStarts, MatchFormSteps, PTL DEF MatchFormSpec

\* A stored match is between two different teams of its competition (unless one
\* was moved between check and write), in a round of it, won by one of them, and
\* no resent form stores a second match of a round (mutate() of the repository).
THEOREM StoredMatchesCorrect == MatchFormSpec => []StoredMatchesAreSound
<1>1. MatchFormInv => StoredMatchesAreSound
    BY DEF MatchFormInv
<1>2. QED
    BY <1>1, MatchFormStarts, MatchFormSteps, PTL DEF MatchFormSpec

\* The form of a match: it builds what the server accepts, and what is stored
\* is sound.
THEOREM MatchFormCorrect ==
  MatchFormSpec => [](FormsAreAcceptable /\ StoredMatchesAreSound)
    BY FormsAccepted, StoredMatchesCorrect, PTL

-----------------------------------------------------------------------------
(***************************************************************************)
(* CrystalBallScreen, the polls of the ballot page: an answer never takes the*)
(* page back.                                                              *)
(***************************************************************************)

SavingSteps == [step : {"idle", "put", "reread", "answered"}, key : Pages,
                generation : 0..LastGeneration, version : 0..LastVersion]

ScreenTypes ==
    /\ ScreenTypeOK
    /\ saving \in [Saves -> SavingSteps]

\* Loads and saves have generations of their own, none ahead of the page's.
GenerationsAreApart ==
    /\ load.generation <= generation
    /\ load.generation = None => load.version = Unread
    /\ \A s \in Saves : saving[s].step # "idle" =>
          /\ saving[s].generation \in 1..generation
          /\ saving[s].generation # load.generation
          /\ \A t \in Saves \ {s} : saving[t].step # "idle" =>
                saving[s].generation # saving[t].generation
    /\ mutation # None => \E s \in Saves : saving[s].step # "idle" /\ saving[s].generation = mutation

\* What was read is no newer than the server, and what the latest load or save
\* has read is no older than what is on display.
AnswersAreInOrder ==
    /\ snapshot.version <= server[snapshot.key]
    /\ load.version <= server[key]
    /\ load.version # Unread /\ load.generation = generation /\ snapshot.key = key =>
          snapshot.version <= load.version
    /\ \A s \in Saves :
          /\ saving[s].version <= server[saving[s].key]
          /\ saving[s].step = "answered" /\ saving[s].generation = generation
             /\ snapshot.key = saving[s].key => snapshot.version <= saving[s].version

ScreenInv == ScreenTypes /\ GenerationsAreApart /\ AnswersAreInOrder /\ RefreshGoesOn

LEMMA RunEffectKeeps ==
  ASSUME ScreenInv, RunEffect
  PROVE  ScreenInv'
<1>1. ScreenTypes'
    <2>1. revision' = FALSE /\ timer' = TRUE
        BY DEF RunEffect
    <2>2. revision' \in BOOLEAN /\ timer' \in BOOLEAN
        BY <2>1, Zenon
    <2>3. snapshot' \in [key : Pages, version : 0..LastVersion]
        BY ScreenAssumption DEF RunEffect, Unread, ScreenTypes, ScreenTypeOK, ScreenInv
    <2>4. load' \in [generation : 0..LastGeneration, version : 0..LastVersion]
        BY ScreenAssumption DEF RunEffect, MayAdvance, Unread, ScreenTypes, ScreenTypeOK, ScreenInv
    <2>5. QED
        BY <2>2, <2>3, <2>4, ScreenAssumption
           DEF RunEffect, MayAdvance, ScreenTypes, ScreenTypeOK, ScreenInv
<1>2. GenerationsAreApart'
    BY ScreenAssumption DEF RunEffect, MayAdvance, None, Unread, GenerationsAreApart,
       ScreenTypes, ScreenTypeOK, SavingSteps, ScreenInv
<1>3. AnswersAreInOrder'
    BY ScreenAssumption DEF RunEffect, MayAdvance, None, Unread, AnswersAreInOrder,
       GenerationsAreApart, ScreenTypes, ScreenTypeOK, SavingSteps, ScreenInv
<1>4. RefreshGoesOn'
    BY ScreenAssumption DEF RunEffect, MayAdvance, None, Unread, RefreshGoesOn, ScreenTypes,
       ScreenTypeOK, SavingSteps, ScreenInv
<1>5. QED
    BY <1>1, <1>2, <1>3, <1>4 DEF ScreenInv

LEMMA ServerAnswersLoadKeeps ==
  ASSUME ScreenInv, ServerAnswersLoad
  PROVE  ScreenInv'
<1>1. ScreenTypes'
    BY ScreenAssumption DEF ServerAnswersLoad, None, Unread, ScreenTypes, ScreenTypeOK,
       SavingSteps, ScreenInv
<1>2. GenerationsAreApart'
    BY ScreenAssumption DEF ServerAnswersLoad, None, Unread, GenerationsAreApart, ScreenTypes,
       ScreenTypeOK, SavingSteps, ScreenInv
<1>3. AnswersAreInOrder'
    BY ScreenAssumption DEF ServerAnswersLoad, None, Unread, AnswersAreInOrder,
       GenerationsAreApart, ScreenTypes, ScreenTypeOK, SavingSteps, ScreenInv
<1>4. RefreshGoesOn'
    BY ScreenAssumption DEF ServerAnswersLoad, None, Unread, RefreshGoesOn, ScreenTypes,
       ScreenTypeOK, SavingSteps, ScreenInv
<1>5. QED
    BY <1>1, <1>2, <1>3, <1>4 DEF ScreenInv

LEMMA LoadArrivesKeeps ==
  ASSUME ScreenInv, LoadArrives
  PROVE  ScreenInv'
<1>1. ScreenTypes'
    BY ScreenAssumption DEF LoadArrives, IsLatest, NoLoad, None, Unread, ScreenTypes,
       ScreenTypeOK, SavingSteps, ScreenInv
<1>2. GenerationsAreApart'
    BY ScreenAssumption DEF LoadArrives, IsLatest, NoLoad, None, Unread, GenerationsAreApart,
       ScreenTypes, ScreenTypeOK, SavingSteps, ScreenInv
<1>3. AnswersAreInOrder'
    BY ScreenAssumption DEF LoadArrives, IsLatest, NoLoad, None, Unread, AnswersAreInOrder,
       GenerationsAreApart, ScreenTypes, ScreenTypeOK, SavingSteps, ScreenInv
<1>4. RefreshGoesOn'
    BY ScreenAssumption DEF LoadArrives, IsLatest, NoLoad, None, Unread, RefreshGoesOn,
       ScreenTypes, ScreenTypeOK, SavingSteps, ScreenInv
<1>5. QED
    BY <1>1, <1>2, <1>3, <1>4 DEF ScreenInv

LEMMA LoadFailsKeeps ==
  ASSUME ScreenInv, LoadFails
  PROVE  ScreenInv'
<1>1. ScreenTypes'
    BY ScreenAssumption DEF LoadFails, NoLoad, None, Unread, ScreenTypes, ScreenTypeOK,
       SavingSteps, ScreenInv
<1>2. GenerationsAreApart'
    BY ScreenAssumption DEF LoadFails, NoLoad, None, Unread, GenerationsAreApart, ScreenTypes,
       ScreenTypeOK, SavingSteps, ScreenInv
<1>3. AnswersAreInOrder'
    BY ScreenAssumption DEF LoadFails, NoLoad, None, Unread, AnswersAreInOrder,
       GenerationsAreApart, ScreenTypes, ScreenTypeOK, SavingSteps, ScreenInv
<1>4. RefreshGoesOn'
    BY ScreenAssumption DEF LoadFails, NoLoad, None, Unread, RefreshGoesOn, ScreenTypes,
       ScreenTypeOK, SavingSteps, ScreenInv
<1>5. QED
    BY <1>1, <1>2, <1>3, <1>4 DEF ScreenInv

LEMMA TimerFiresKeeps ==
  ASSUME ScreenInv, TimerFires
  PROVE  ScreenInv'
<1>1. ScreenTypes'
    BY ScreenAssumption DEF TimerFires, ScreenTypes, ScreenTypeOK, SavingSteps, ScreenInv
<1>2. GenerationsAreApart'
    BY ScreenAssumption DEF TimerFires, GenerationsAreApart, ScreenTypes, ScreenTypeOK,
       SavingSteps, ScreenInv
<1>3. AnswersAreInOrder'
    BY ScreenAssumption DEF TimerFires, AnswersAreInOrder, GenerationsAreApart, ScreenTypes,
       ScreenTypeOK, SavingSteps, ScreenInv
<1>4. RefreshGoesOn'
    BY ScreenAssumption DEF TimerFires, GenerationsAreApart, RefreshGoesOn, ScreenTypes,
       ScreenTypeOK, SavingSteps, ScreenInv
<1>5. QED
    BY <1>1, <1>2, <1>3, <1>4 DEF ScreenInv

LEMMA RetryKeeps ==
  ASSUME ScreenInv, Retry
  PROVE  ScreenInv'
<1>1. ScreenTypes'
    BY ScreenAssumption DEF Retry, ScreenTypes, ScreenTypeOK, SavingSteps, ScreenInv
<1>2. GenerationsAreApart'
    BY ScreenAssumption DEF Retry, GenerationsAreApart, ScreenTypes, ScreenTypeOK,
       SavingSteps, ScreenInv
<1>3. AnswersAreInOrder'
    BY ScreenAssumption DEF Retry, AnswersAreInOrder, GenerationsAreApart, ScreenTypes,
       ScreenTypeOK, SavingSteps, ScreenInv
<1>4. RefreshGoesOn'
    BY ScreenAssumption DEF Retry, RefreshGoesOn, ScreenTypes, ScreenTypeOK, SavingSteps,
       ScreenInv
<1>5. QED
    BY <1>1, <1>2, <1>3, <1>4 DEF ScreenInv

LEMMA OpenPageKeeps ==
  ASSUME ScreenInv, NEW p \in Pages, OpenPage(p)
  PROVE  ScreenInv'
<1>1. ScreenTypes'
    <2>1. revision' = TRUE /\ timer' = FALSE
        BY DEF OpenPage
    <2>2. revision' \in BOOLEAN /\ timer' \in BOOLEAN
        BY <2>1, Zenon
    <2>3. QED
        BY <2>2, ScreenAssumption
           DEF OpenPage, NoLoad, None, Unread, ScreenTypes, ScreenTypeOK, ScreenInv
<1>2. GenerationsAreApart'
    BY ScreenAssumption DEF OpenPage, NoLoad, None, Unread, GenerationsAreApart, ScreenTypes,
       ScreenTypeOK, SavingSteps, ScreenInv
<1>3. AnswersAreInOrder'
    BY ScreenAssumption DEF OpenPage, NoLoad, None, Unread, AnswersAreInOrder,
       GenerationsAreApart, ScreenTypes, ScreenTypeOK, SavingSteps, ScreenInv
<1>4. RefreshGoesOn'
    BY ScreenAssumption DEF OpenPage, NoLoad, None, Unread, RefreshGoesOn, ScreenTypes,
       ScreenTypeOK, SavingSteps, ScreenInv
<1>5. QED
    BY <1>1, <1>2, <1>3, <1>4 DEF ScreenInv

LEMMA MutateKeeps ==
  ASSUME ScreenInv, NEW s \in Saves, Mutate(s)
  PROVE  ScreenInv'
<1>1. ScreenTypes'
    BY ScreenAssumption DEF Mutate, MayAdvance, None, Unread, ScreenTypes, ScreenTypeOK,
       SavingSteps, ScreenInv
<1>2. GenerationsAreApart'
    BY ScreenAssumption DEF Mutate, MayAdvance, None, Unread, GenerationsAreApart,
       ScreenTypes, ScreenTypeOK, SavingSteps, ScreenInv
<1>3. AnswersAreInOrder'
    BY ScreenAssumption DEF Mutate, MayAdvance, None, Unread, AnswersAreInOrder,
       GenerationsAreApart, ScreenTypes, ScreenTypeOK, SavingSteps, ScreenInv
<1>4. RefreshGoesOn'
    BY ScreenAssumption DEF Mutate, MayAdvance, None, Unread, RefreshGoesOn, ScreenTypes,
       ScreenTypeOK, SavingSteps, ScreenInv
<1>5. QED
    BY <1>1, <1>2, <1>3, <1>4 DEF ScreenInv

LEMMA ServerSavesKeeps ==
  ASSUME ScreenInv, NEW s \in Saves, ServerSaves(s)
  PROVE  ScreenInv'
<1>1. ScreenTypes'
    BY ScreenAssumption DEF ServerSaves, ScreenTypes, ScreenTypeOK, SavingSteps, ScreenInv
<1>2. GenerationsAreApart'
    BY ScreenAssumption DEF ServerSaves, GenerationsAreApart, ScreenTypes, ScreenTypeOK,
       SavingSteps, ScreenInv
<1>3. AnswersAreInOrder'
    BY ScreenAssumption DEF ServerSaves, AnswersAreInOrder, GenerationsAreApart, ScreenTypes,
       ScreenTypeOK, SavingSteps, ScreenInv
<1>4. RefreshGoesOn'
    BY ScreenAssumption DEF ServerSaves, RefreshGoesOn, ScreenTypes, ScreenTypeOK,
       SavingSteps, ScreenInv
<1>5. QED
    BY <1>1, <1>2, <1>3, <1>4 DEF ScreenInv

LEMMA ServerAnswersSaveKeeps ==
  ASSUME ScreenInv, NEW s \in Saves, ServerAnswersSave(s)
  PROVE  ScreenInv'
<1>1. ScreenTypes'
    <2>1. saving[s] \in SavingSteps /\ saving \in [Saves -> SavingSteps]
        BY DEF ScreenTypes, ScreenInv
    <2>2. server[saving[s].key] \in 0..LastVersion
        BY <2>1, ScreenAssumption DEF SavingSteps, ScreenTypes, ScreenTypeOK, ScreenInv
    <2>3. [saving[s] EXCEPT !.step = "answered", !.version = server[saving[s].key]] \in SavingSteps
        BY <2>1, <2>2 DEF SavingSteps
    <2>4. saving' = [saving EXCEPT ![s] =
                        [saving[s] EXCEPT !.step = "answered", !.version = server[saving[s].key]]]
        BY DEF ServerAnswersSave
    <2>5. QED
        BY <2>1, <2>3, <2>4 DEF ServerAnswersSave, ScreenTypes, ScreenTypeOK, ScreenInv
<1>2. GenerationsAreApart'
    BY ScreenAssumption DEF ServerAnswersSave, GenerationsAreApart, ScreenTypes, ScreenTypeOK,
       SavingSteps, ScreenInv
<1>3. AnswersAreInOrder'
    BY ScreenAssumption DEF ServerAnswersSave, AnswersAreInOrder, GenerationsAreApart,
       ScreenTypes, ScreenTypeOK, SavingSteps, ScreenInv
<1>4. RefreshGoesOn'
    BY ScreenAssumption DEF ServerAnswersSave, RefreshGoesOn, ScreenTypes, ScreenTypeOK,
       SavingSteps, ScreenInv
<1>5. QED
    BY <1>1, <1>2, <1>3, <1>4 DEF ScreenInv

LEMMA SaveArrivesKeeps ==
  ASSUME ScreenInv, NEW s \in Saves, SaveArrives(s)
  PROVE  ScreenInv'
<1>1. ScreenTypes'
    BY ScreenAssumption DEF SaveArrives, Finish, NotSaving, IsLatest, None, Unread,
       ScreenTypes, ScreenTypeOK, SavingSteps, ScreenInv
<1>2. GenerationsAreApart'
    BY ScreenAssumption DEF SaveArrives, Finish, NotSaving, IsLatest, None, Unread,
       GenerationsAreApart, ScreenTypes, ScreenTypeOK, SavingSteps, ScreenInv
<1>3. AnswersAreInOrder'
    BY ScreenAssumption DEF SaveArrives, Finish, NotSaving, IsLatest, None, Unread,
       AnswersAreInOrder, GenerationsAreApart, ScreenTypes, ScreenTypeOK, SavingSteps,
       ScreenInv
<1>4. RefreshGoesOn'
    BY ScreenAssumption DEF SaveArrives, Finish, NotSaving, IsLatest, None, Unread,
       RefreshGoesOn, ScreenTypes, ScreenTypeOK, SavingSteps, ScreenInv
<1>5. QED
    BY <1>1, <1>2, <1>3, <1>4 DEF ScreenInv

LEMMA SaveFailsKeeps ==
  ASSUME ScreenInv, NEW s \in Saves, SaveFails(s)
  PROVE  ScreenInv'
<1>1. ScreenTypes'
    BY ScreenAssumption DEF SaveFails, Finish, NotSaving, None, Unread, ScreenTypes,
       ScreenTypeOK, SavingSteps, ScreenInv
<1>2. GenerationsAreApart'
    BY ScreenAssumption DEF SaveFails, Finish, NotSaving, None, Unread, GenerationsAreApart,
       ScreenTypes, ScreenTypeOK, SavingSteps, ScreenInv
<1>3. AnswersAreInOrder'
    BY ScreenAssumption DEF SaveFails, Finish, NotSaving, None, Unread, AnswersAreInOrder,
       GenerationsAreApart, ScreenTypes, ScreenTypeOK, SavingSteps, ScreenInv
<1>4. RefreshGoesOn'
    BY ScreenAssumption DEF SaveFails, Finish, NotSaving, None, Unread, RefreshGoesOn,
       ScreenTypes, ScreenTypeOK, SavingSteps, ScreenInv
<1>5. QED
    BY <1>1, <1>2, <1>3, <1>4 DEF ScreenInv

LEMMA ServerChangesKeeps ==
  ASSUME ScreenInv, NEW p \in Pages, ServerChanges(p)
  PROVE  ScreenInv'
<1>1. ScreenTypes'
    BY ScreenAssumption DEF ServerChanges, ScreenTypes, ScreenTypeOK, SavingSteps, ScreenInv
<1>2. GenerationsAreApart'
    BY ScreenAssumption DEF ServerChanges, GenerationsAreApart, ScreenTypes, ScreenTypeOK,
       SavingSteps, ScreenInv
<1>3. AnswersAreInOrder'
    BY ScreenAssumption DEF ServerChanges, AnswersAreInOrder, GenerationsAreApart,
       ScreenTypes, ScreenTypeOK, SavingSteps, ScreenInv
<1>4. RefreshGoesOn'
    BY ScreenAssumption DEF ServerChanges, RefreshGoesOn, ScreenTypes, ScreenTypeOK,
       SavingSteps, ScreenInv
<1>5. QED
    BY <1>1, <1>2, <1>3, <1>4 DEF ScreenInv

LEMMA ScreenStarts == ScreenInit => ScreenInv
<1> SUFFICES ASSUME ScreenInit PROVE ScreenInv
    OBVIOUS
<1>1. revision = TRUE /\ timer = FALSE
    BY DEF ScreenInit
<1>2. revision \in BOOLEAN /\ timer \in BOOLEAN
    BY <1>1, Zenon
<1>3. NotSaving(FirstPage) \in SavingSteps
    BY ScreenAssumption DEF NotSaving, None, Unread, SavingSteps
<1>4. ScreenTypes
    BY <1>2, <1>3, ScreenAssumption DEF ScreenInit, ScreenTypes, ScreenTypeOK, NoLoad, None, Unread
<1>5. QED
    BY <1>1, <1>4, ScreenAssumption DEF ScreenInit, ScreenInv, GenerationsAreApart,
       AnswersAreInOrder, RefreshGoesOn, NotSaving, NoLoad, None, Unread

LEMMA ScreenSteps == ScreenInv /\ [ScreenNext]_screenVars => ScreenInv'
<1>1. ASSUME ScreenInv, ScreenNext PROVE ScreenInv'
    BY <1>1, RunEffectKeeps, ServerAnswersLoadKeeps, LoadArrivesKeeps, LoadFailsKeeps,
       TimerFiresKeeps, RetryKeeps, OpenPageKeeps, MutateKeeps, ServerSavesKeeps,
       ServerAnswersSaveKeeps, SaveArrivesKeeps, SaveFailsKeeps, ServerChangesKeeps DEF ScreenNext
<1>2. ASSUME ScreenInv, UNCHANGED screenVars PROVE ScreenInv'
    BY <1>2 DEF screenVars, ScreenInv, ScreenTypes, ScreenTypeOK, GenerationsAreApart,
       AnswersAreInOrder, RefreshGoesOn
<1>3. QED
    BY <1>1, <1>2

\* No late answer brings an older campaign or ballot back on a page that has
\* shown a newer one, for any number of saves at once (useCrystalBall.ts).
THEOREM BallotPageNeverGoesBack == ScreenSpec => BallotNeverGoesBack
<1>1. ASSUME ScreenInv, ScreenNext, snapshot'.key = snapshot.key
      PROVE  snapshot'.version >= snapshot.version
    <2>1. snapshot.version \in Nat
        BY <1>1 DEF ScreenInv, ScreenTypes, ScreenTypeOK
    <2>2. CASE UNCHANGED snapshot
        BY <2>1, <2>2
    <2>3. CASE RunEffect
        BY <2>1, <2>3, <1>1 DEF RunEffect
    <2>4. CASE LoadArrives
        BY <2>1, <2>4, <1>1 DEF LoadArrives, IsLatest, ScreenInv, ScreenTypes, ScreenTypeOK,
           AnswersAreInOrder
    <2>5. ASSUME NEW s \in Saves, SaveArrives(s) PROVE snapshot'.version >= snapshot.version
        BY <2>1, <2>5, <1>1 DEF SaveArrives, IsLatest, ScreenInv, ScreenTypes, ScreenTypeOK,
           SavingSteps, AnswersAreInOrder
    <2>6. QED
        BY <2>2, <2>3, <2>4, <2>5, <1>1 DEF ScreenNext, ServerAnswersLoad, LoadFails, TimerFires,
           Retry, OpenPage, ServerChanges, Mutate, ServerSaves, ServerAnswersSave, SaveFails
<1>2. ScreenInv /\ [ScreenNext]_screenVars =>
        [snapshot'.key = snapshot.key => snapshot'.version >= snapshot.version]_screenVars
    BY <1>1
<1>3. QED
    BY <1>2, ScreenStarts, ScreenSteps, PTL DEF ScreenSpec, BallotNeverGoesBack

\* The page never stops refreshing (useCrystalBall.ts).
THEOREM BallotPageGoesOn == ScreenSpec => []RefreshGoesOn
<1>1. ScreenInv => RefreshGoesOn
    BY DEF ScreenInv
<1>2. QED
    BY <1>1, ScreenStarts, ScreenSteps, PTL DEF ScreenSpec

\* The crystal ball page: it goes on refreshing, and never back.
THEOREM BallotPageCorrect == ScreenSpec => []RefreshGoesOn /\ BallotNeverGoesBack
    BY BallotPageGoesOn, BallotPageNeverGoesBack

-----------------------------------------------------------------------------
(***************************************************************************)
(* CrystalBallScreen, the form of the ballot: the picks that are sent, and *)
(* the tournaments that are apart.                                         *)
(***************************************************************************)

BranchAnswers == [Branches -> SUBSET Contenders]
FittingAnswers == {a \in BranchAnswers : \A b \in Branches : Cardinality(a[b]) \in {0, Seats[b]}}
ApartAnswers == {a \in FittingAnswers : AreApart(a)}
ReadBallots == [number : 0..LastBallot, answers : ApartAnswers, open : BOOLEAN]

BallotTypes ==
    /\ storedBallot \in ReadBallots /\ ballotRead \in ReadBallots
    /\ ballotDraft \in FittingAnswers
    /\ ballotDirty \in BOOLEAN /\ pickedAcross \in BOOLEAN
    /\ ballotRequest \in [phase : {"none", "sent", "stored"}, answers : BranchAnswers]
    /\ picker \in [branch : Branches \cup {"none"}, draft : SUBSET Contenders, moved : BOOLEAN]

\* What is picked is apart from the other branch, unless something changed below
\* the dialog; and while a ballot is being saved nothing is picked.
PicksAreApart ==
    picker.branch # "none" /\ ~ picker.moved =>
        /\ ~ pickedAcross => picker.draft \cap ShownAnswers[OtherBranch(picker.branch)] = {}
        /\ BallotBusy => picker.draft = ShownAnswers[picker.branch]

BallotInv == BallotTypes /\ PicksAreApart /\ BranchesStayApart /\ DraftIsWhatWasSent

LEMMA TwoBranches ==
  ASSUME NEW b \in Branches
  PROVE  /\ OtherBranch(b) \in Branches /\ OtherBranch(b) # b
         /\ OtherBranch(OtherBranch(b)) = b /\ b # "none"
         /\ \A c \in Branches : c = b \/ c = OtherBranch(b)
<1>1. PICK x, y \in Branches : x # y /\ Branches = {x, y}
    BY BallotAssumption DEF Branches
<1>2. \A c \in Branches : OtherBranch(c) \in Branches /\ OtherBranch(c) # c
    <2> TAKE c \in Branches
    <2>1. \E o \in Branches : o # c
        BY <1>1
    <2>2. QED
        BY <2>1 DEF OtherBranch
<1>3. b # "none"
    BY BallotAssumption DEF Branches
<1>4. QED
    BY <1>1, <1>2, <1>3

LEMMA NoPickIsApart == NoAnswers \in ApartAnswers
<1>1. NoAnswers \in BranchAnswers
    BY DEF NoAnswers, BranchAnswers
<1>2. Cardinality({}) = 0
    BY FS_EmptySet
<1>3. \A b \in Branches : NoAnswers[b] = {}
    BY DEF NoAnswers
<1>4. AreApart(NoAnswers)
    BY <1>3 DEF AreApart
<1>5. QED
    BY <1>1, <1>2, <1>3, <1>4 DEF ApartAnswers, FittingAnswers

LEMMA AcceptedIsApart ==
  ASSUME NEW a \in BranchAnswers, IsAccepted(a)
  PROVE  a \in ApartAnswers
    BY DEF IsAccepted, IsAnswered, ApartAnswers, FittingAnswers

LEMMA StoredIsApart ==
  ASSUME BallotTypes, NEW a \in BranchAnswers, IsAccepted(a), StoreBallot(a)
  PROVE  storedBallot' \in ReadBallots
<1>1. a \in ApartAnswers /\ storedBallot.number + 1 \in 0..LastBallot
    BY AcceptedIsApart, BallotAssumption DEF StoreBallot, BallotTypes, ReadBallots
<1>2. QED
    BY <1>1 DEF StoreBallot, BallotTypes, ReadBallots

\* What is on display is what was read or what was drafted.
LEMMA ShownFits ==
  ASSUME BallotTypes
  PROVE  /\ ShownAnswers \in FittingAnswers
         /\ ballotDirty => ShownAnswers = ballotDraft
         /\ ~ ballotDirty => ShownAnswers = ballotRead.answers /\ ShownAnswers \in ApartAnswers
    BY DEF BallotTypes, ShownAnswers, ReadBallots, ApartAnswers

\* What leaves read and draft alone leaves what is shown.
LEMMA ShownStays ==
  ASSUME UNCHANGED <<ballotRead, ballotDraft, ballotDirty>>
  PROVE  ShownAnswers' = ShownAnswers
    BY DEF ShownAnswers

\* What changes neither what is shown nor the dialog.
LEMMA PicturesStay ==
  ASSUME BallotInv, BallotTypes', UNCHANGED <<ballotRead, ballotDraft, ballotDirty, picker, pickedAcross>>,
         BallotBusy' => BallotBusy /\ ballotRequest'.answers = ballotRequest.answers
  PROVE  BallotInv'
<1>1. ShownAnswers' = ShownAnswers
    BY ShownStays
<1>2. PicksAreApart'
    BY <1>1 DEF BallotInv, PicksAreApart
<1>3. BranchesStayApart'
    BY <1>1 DEF BallotInv, BranchesStayApart, AreApart
<1>4. DraftIsWhatWasSent'
    BY DEF BallotInv, DraftIsWhatWasSent
<1>5. QED
    BY <1>2, <1>3, <1>4 DEF BallotInv

\* The user of the dialog picks d instead.
LEMMA SetPicksKeeps ==
  ASSUME BallotInv, NEW d \in SUBSET Contenders, SetPicks(d),
         \A t \in d \ picker.draft : t \notin ShownAnswers[OtherBranch(picker.branch)]
  PROVE  BallotInv'
<1>1. ShownAnswers' = ShownAnswers
    BY ShownStays DEF SetPicks
<1>2. BallotTypes'
    BY DEF SetPicks, BallotInv, BallotTypes
<1>3. PicksAreApart'
    <2>1. ~ BallotBusy /\ picker'.draft = d /\ picker'.branch = picker.branch /\ picker'.moved = picker.moved
        BY DEF SetPicks, Editable, BallotInv, BallotTypes
    <2>2. BallotBusy' = BallotBusy /\ pickedAcross' = pickedAcross
        BY DEF SetPicks, BallotBusy
    <2>3. QED
        BY <1>1, <2>1, <2>2 DEF BallotInv, PicksAreApart
<1>4. BranchesStayApart' /\ DraftIsWhatWasSent'
    BY <1>1 DEF SetPicks, BallotInv, BranchesStayApart, AreApart, DraftIsWhatWasSent, BallotBusy
<1>5. QED
    BY <1>2, <1>3, <1>4 DEF BallotInv

LEMMA PickAnswerKeeps == ASSUME BallotInv, NEW t \in Contenders, PickAnswer(t) PROVE BallotInv'
<1> DEFINE d == IF ~ IsMultiple THEN {t}
                ELSE IF t \in picker.draft THEN picker.draft \ {t} ELSE picker.draft \cup {t}
<1>1. d \in SUBSET Contenders /\ d \subseteq picker.draft \cup {t}
    BY DEF BallotInv, BallotTypes
<1>2. t \notin ShownAnswers[OtherBranch(picker.branch)] /\ SetPicks(d)
    BY DEF PickAnswer, IsBlocked
<1>3. QED
    BY <1>1, <1>2, SetPicksKeeps

LEMMA ClearAnswersKeeps == ASSUME BallotInv, ClearAnswers PROVE BallotInv'
    BY SetPicksKeeps DEF ClearAnswers

LEMMA OpenPickerKeeps == ASSUME BallotInv, NEW b \in Branches, OpenPicker(b) PROVE BallotInv'
<1>1. ShownAnswers' = ShownAnswers /\ ShownAnswers \in FittingAnswers
    BY ShownStays, ShownFits DEF OpenPicker, BallotInv
<1>2. ShownAnswers[b] \in SUBSET Contenders
    BY <1>1 DEF FittingAnswers, BranchAnswers
<1>3. picker' = [branch |-> b, draft |-> ShownAnswers[b], moved |-> FALSE]
    BY DEF OpenPicker
<1>4. picker' \in [branch : Branches \cup {"none"}, draft : SUBSET Contenders, moved : BOOLEAN]
    BY <1>2, <1>3
<1>5. BallotTypes'
    BY <1>4 DEF OpenPicker, BallotInv, BallotTypes
<1>6. PicksAreApart'
    <2>1. ~ pickedAcross => ShownAnswers[b] \cap ShownAnswers[OtherBranch(b)] = {}
        BY DEF BallotInv, BranchesStayApart, AreApart
    <2>2. BallotBusy' = BallotBusy /\ pickedAcross' = pickedAcross
        BY DEF OpenPicker, BallotBusy
    <2>3. picker'.branch = b /\ picker'.draft = ShownAnswers[b]
        BY <1>3
    <2>4. QED
        BY <1>1, <2>1, <2>2, <2>3 DEF PicksAreApart
<1>7. BranchesStayApart' /\ DraftIsWhatWasSent'
    BY <1>1 DEF OpenPicker, BallotInv, BranchesStayApart, AreApart, DraftIsWhatWasSent, BallotBusy
<1>8. QED
    BY <1>5, <1>6, <1>7 DEF BallotInv

LEMMA ClosedIsType ==
  PickerClosed \in [branch : Branches \cup {"none"}, draft : SUBSET Contenders, moved : BOOLEAN]
<1>1. FALSE \in BOOLEAN /\ {} \in SUBSET Contenders /\ "none" \in Branches \cup {"none"}
    OBVIOUS
<1>2. QED
    BY <1>1, Zenon DEF PickerClosed

LEMMA ClosePickerKeeps == ASSUME BallotInv, ClosePicker PROVE BallotInv'
<1>1. ShownAnswers' = ShownAnswers
    BY ShownStays DEF ClosePicker
<1>2. BallotTypes'
    BY ClosedIsType DEF ClosePicker, BallotInv, BallotTypes
<1>3. PicksAreApart'
    BY DEF ClosePicker, PickerClosed, PicksAreApart
<1>4. BranchesStayApart' /\ DraftIsWhatWasSent'
    BY <1>1 DEF ClosePicker, BallotInv, BranchesStayApart, AreApart, DraftIsWhatWasSent, BallotBusy
<1>5. QED
    BY <1>2, <1>3, <1>4 DEF BallotInv

\* What was picked becomes the answer of its branch.
LEMMA ConfirmPicksKeeps == ASSUME BallotInv, ConfirmPicks PROVE BallotInv'
<1> DEFINE b == picker.branch
<1>1. b \in Branches /\ ~ BallotBusy /\ picker.draft \in SUBSET Contenders
      /\ Cardinality(picker.draft) \in {0, Seats[b]}
    BY DEF ConfirmPicks, Editable, BallotInv, BallotTypes
<1>2. ShownAnswers \in FittingAnswers
    BY ShownFits DEF BallotInv
<1>3. ballotDraft' = [ShownAnswers EXCEPT ![b] = picker.draft] /\ ballotDirty' = TRUE
      /\ pickedAcross' = (picker.moved \/ pickedAcross) /\ picker' = PickerClosed
      /\ UNCHANGED <<storedBallot, ballotRead, ballotRequest>>
    BY DEF ConfirmPicks
<1>4. ballotDraft' \in FittingAnswers
    BY <1>1, <1>2, <1>3 DEF FittingAnswers, BranchAnswers
<1>5. ballotDirty' \in BOOLEAN /\ pickedAcross' \in BOOLEAN
    BY <1>3, Zenon
<1>6. BallotTypes'
    BY <1>3, <1>4, <1>5, ClosedIsType DEF BallotInv, BallotTypes
<1>7. ShownAnswers' = ballotDraft'
    BY <1>3 DEF ShownAnswers
<1>8. ASSUME ~ pickedAcross' PROVE AreApart(ballotDraft')
    <2>1. ~ picker.moved /\ ~ pickedAcross
        BY <1>3, <1>8
    <2>2. picker.draft \cap ShownAnswers[OtherBranch(b)] = {}
        BY <1>1, <2>1, TwoBranches DEF BallotInv, PicksAreApart
    <2>3. ballotDraft'[b] = picker.draft /\ ballotDraft'[OtherBranch(b)] = ShownAnswers[OtherBranch(b)]
        BY <1>1, <1>2, <1>3, TwoBranches DEF FittingAnswers, BranchAnswers
    <2> HIDE DEF b
    <2>4. ASSUME NEW c \in Branches PROVE ballotDraft'[c] \cap ballotDraft'[OtherBranch(c)] = {}
        <3>1. CASE c = b
            BY <3>1, <2>2, <2>3
        <3>2. CASE c = OtherBranch(b)
            <4>1. OtherBranch(c) = b
                BY <3>2, <1>1, TwoBranches
            <4>2. QED
                BY <3>2, <4>1, <2>2, <2>3
        <3>3. QED
            BY <1>1, <3>1, <3>2, TwoBranches
    <2>5. QED
        BY <2>4 DEF AreApart
<1>9. BranchesStayApart'
    BY <1>4, <1>7, <1>8 DEF BranchesStayApart, AreApart, FittingAnswers
<1>10. PicksAreApart' /\ DraftIsWhatWasSent'
    BY <1>1, <1>3 DEF PicksAreApart, PickerClosed, DraftIsWhatWasSent, BallotBusy
<1>11. QED
    BY <1>6, <1>9, <1>10 DEF BallotInv

LEMMA SubmitBallotKeeps == ASSUME BallotInv, SubmitBallot PROVE BallotInv'
<1>1. ShownAnswers' = ShownAnswers /\ ShownAnswers \in FittingAnswers
    BY ShownStays, ShownFits DEF SubmitBallot, BallotInv
<1>2. BallotTypes'
    BY <1>1 DEF SubmitBallot, BallotInv, BallotTypes, FittingAnswers
<1>3. PicksAreApart'
    BY DEF SubmitBallot, PicksAreApart
<1>4. BranchesStayApart'
    BY <1>1 DEF SubmitBallot, BallotInv, BranchesStayApart, AreApart
<1>5. DraftIsWhatWasSent'
    BY DEF SubmitBallot, DraftIsWhatWasSent, ShownAnswers
<1>6. QED
    BY <1>2, <1>3, <1>4, <1>5 DEF BallotInv

LEMMA ServeBallotKeeps == ASSUME BallotInv, ServeBallot PROVE BallotInv'
<1>1. storedBallot' \in ReadBallots
    BY StoredIsApart DEF ServeBallot, BallotInv, BallotTypes
<1>2. ballotRequest' = [ballotRequest EXCEPT !.phase = "stored"] /\ ballotRequest.phase = "sent"
    BY DEF ServeBallot
<1>3. BallotTypes'
    BY <1>1, <1>2 DEF ServeBallot, BallotInv, BallotTypes
<1>4. BallotBusy /\ ballotRequest'.answers = ballotRequest.answers
    BY <1>2 DEF BallotBusy, BallotInv, BallotTypes
<1>5. QED
    BY <1>3, <1>4, PicturesStay DEF ServeBallot

LEMMA BallotNotSavedKeeps == ASSUME BallotInv, BallotNotSaved PROVE BallotInv'
<1>1. NoBallotRequest \in [phase : {"none", "sent", "stored"}, answers : BranchAnswers]
    BY NoPickIsApart DEF NoBallotRequest, ApartAnswers, FittingAnswers
<1>2. BallotTypes'
    BY <1>1 DEF BallotNotSaved, BallotInv, BallotTypes
<1>3. ~ BallotBusy'
    BY DEF BallotNotSaved, BallotBusy, NoBallotRequest
<1>4. QED
    BY <1>2, <1>3, PicturesStay DEF BallotNotSaved

LEMMA BallotElsewhereKeeps ==
  ASSUME BallotInv, NEW a \in Ballots, BallotElsewhere(a) PROVE BallotInv'
<1>1. storedBallot' \in ReadBallots
    BY StoredIsApart DEF BallotElsewhere, BallotInv, Ballots, BranchAnswers
<1>2. BallotTypes'
    BY <1>1 DEF BallotElsewhere, BallotInv, BallotTypes
<1>3. QED
    BY <1>2, PicturesStay DEF BallotElsewhere, BallotBusy

LEMMA CampaignClosesKeeps == ASSUME BallotInv, CampaignCloses PROVE BallotInv'
<1>1. PICK o \in BOOLEAN : o = FALSE
    OBVIOUS
<1>2. storedBallot' = [storedBallot EXCEPT !.open = o]
    BY <1>1 DEF CampaignCloses
<1>3. storedBallot' \in ReadBallots
    BY <1>2 DEF BallotInv, BallotTypes, ReadBallots
<1>4. BallotTypes'
    BY <1>3 DEF CampaignCloses, BallotInv, BallotTypes
<1>5. QED
    BY <1>4, PicturesStay DEF CampaignCloses, BallotBusy

\* What the dialog does not notice is noted.
LEMMA MovedIsNoted ==
  ASSUME BallotTypes, AnswersMayMove
  PROVE  /\ picker' \in [branch : Branches \cup {"none"}, draft : SUBSET Contenders, moved : BOOLEAN]
         /\ picker'.branch = picker.branch /\ picker'.draft = picker.draft
         /\ picker.branch # "none" /\ ~ picker'.moved => ~ picker.moved /\ ShownAnswers' = ShownAnswers
<1>1. PICK m \in BOOLEAN : m = (picker.moved \/ (picker.branch # "none" /\ ShownAnswers' # ShownAnswers))
    BY Zenon
<1>2. picker' = [picker EXCEPT !.moved = m]
    BY <1>1 DEF AnswersMayMove
<1>3. picker \in [branch : Branches \cup {"none"}, draft : SUBSET Contenders, moved : BOOLEAN]
    BY DEF BallotTypes
<1>4. QED
    BY <1>1, <1>2, <1>3

LEMMA BallotSavedKeeps == ASSUME BallotInv, BallotSaved PROVE BallotInv'
<1>1. ballotDirty' = FALSE /\ pickedAcross' = FALSE
    BY DEF BallotSaved
<1>2. ballotDirty' \in BOOLEAN /\ pickedAcross' \in BOOLEAN
    BY <1>1, Zenon
<1>3. NoBallotRequest \in [phase : {"none", "sent", "stored"}, answers : BranchAnswers]
    BY NoPickIsApart DEF NoBallotRequest, ApartAnswers, FittingAnswers
<1>4. ballotRead' \in ReadBallots /\ BallotTypes
    BY DEF BallotSaved, BallotInv, BallotTypes
<1>5. BallotTypes'
    BY <1>2, <1>3, <1>4, MovedIsNoted DEF BallotSaved, BallotTypes
<1>6. ShownAnswers' = ballotRead'.answers /\ ShownAnswers' \in ApartAnswers
    BY <1>1, <1>4 DEF ShownAnswers, ReadBallots
<1>7. ~ BallotBusy'
    BY DEF BallotSaved, BallotBusy, NoBallotRequest
<1>8. BallotBusy
    BY DEF BallotSaved, BallotBusy
<1>9. PicksAreApart'
    <2>1. SUFFICES ASSUME picker'.branch # "none", ~ picker'.moved
                   PROVE  picker'.draft \cap ShownAnswers'[OtherBranch(picker'.branch)] = {}
        BY <1>7 DEF PicksAreApart
    <2>2. picker'.branch = picker.branch /\ picker'.draft = ShownAnswers[picker.branch]
          /\ ShownAnswers' = ShownAnswers
        BY <1>4, <1>8, <2>1, MovedIsNoted DEF BallotSaved, BallotInv, PicksAreApart
    <2>3. picker'.branch \in Branches
        BY <1>5, <2>1 DEF BallotTypes
    <2>4. \A c \in Branches : ShownAnswers'[c] \cap ShownAnswers'[OtherBranch(c)] = {}
        BY <1>6 DEF ApartAnswers, AreApart
    <2>5. QED
        BY <2>2, <2>3, <2>4
<1>10. BranchesStayApart'
    BY <1>6 DEF BranchesStayApart, ApartAnswers, FittingAnswers, AreApart
<1>11. DraftIsWhatWasSent'
    BY <1>7 DEF DraftIsWhatWasSent
<1>12. QED
    BY <1>5, <1>9, <1>10, <1>11 DEF BallotInv

LEMMA BallotPolledKeeps == ASSUME BallotInv, BallotPolled PROVE BallotInv'
<1>1. ballotRead' \in ReadBallots /\ BallotTypes
    BY DEF BallotPolled, BallotInv, BallotTypes
<1>2. BallotTypes'
    BY <1>1, MovedIsNoted DEF BallotPolled, BallotTypes
<1>3. PicksAreApart'
    <2>1. BallotBusy' = BallotBusy /\ pickedAcross' = pickedAcross
        BY DEF BallotPolled, BallotBusy
    <2>2. QED
        BY <1>1, <2>1, MovedIsNoted DEF BallotPolled, BallotInv, PicksAreApart
<1>4. CASE ballotDirty
    <2>1. ShownAnswers' = ShownAnswers
        BY <1>4 DEF BallotPolled, ShownAnswers
    <2>2. BranchesStayApart' /\ DraftIsWhatWasSent'
        BY <2>1 DEF BallotPolled, BallotInv, BranchesStayApart, AreApart, DraftIsWhatWasSent, BallotBusy
    <2>3. QED
        BY <1>2, <1>3, <2>2 DEF BallotInv
<1>5. CASE ~ ballotDirty
    <2>1. ShownAnswers' \in ApartAnswers /\ ballotDirty' = ballotDirty
        BY <1>1, <1>5 DEF BallotPolled, ShownAnswers, ReadBallots
    <2>2. BranchesStayApart' /\ DraftIsWhatWasSent'
        BY <1>5, <2>1 DEF BranchesStayApart, AreApart, ApartAnswers, FittingAnswers, DraftIsWhatWasSent
    <2>3. QED
        BY <1>2, <1>3, <2>2 DEF BallotInv
<1>6. QED
    BY <1>4, <1>5

LEMMA BallotStarts == BallotInit => BallotInv
<1> SUFFICES ASSUME BallotInit PROVE BallotInv
    OBVIOUS
<1>1. PICK o \in BOOLEAN : o = TRUE
    OBVIOUS
<1>2. storedBallot = [number |-> 0, answers |-> NoAnswers, open |-> o] /\ 0 \in 0..LastBallot
    BY <1>1, BallotAssumption DEF BallotInit
<1>3. storedBallot \in ReadBallots /\ ballotRead = storedBallot
    BY <1>2, NoPickIsApart DEF BallotInit, ReadBallots
<1>4. ballotDirty = FALSE /\ pickedAcross = FALSE
    BY DEF BallotInit
<1>5. ballotDirty \in BOOLEAN /\ pickedAcross \in BOOLEAN
    BY <1>4, Zenon
<1>6. NoBallotRequest \in [phase : {"none", "sent", "stored"}, answers : BranchAnswers]
    BY NoPickIsApart DEF NoBallotRequest, ApartAnswers, FittingAnswers
<1>7. BallotTypes
    BY <1>3, <1>5, <1>6, NoPickIsApart, ClosedIsType DEF BallotInit, BallotTypes, ApartAnswers
<1>8. ShownAnswers \in ApartAnswers
    BY <1>4, <1>7, ShownFits
<1>9. BranchesStayApart
    BY <1>8 DEF BranchesStayApart, ApartAnswers, FittingAnswers
<1>10. PicksAreApart /\ DraftIsWhatWasSent
    BY <1>4 DEF BallotInit, PicksAreApart, PickerClosed, DraftIsWhatWasSent
<1>11. QED
    BY <1>7, <1>9, <1>10 DEF BallotInv

LEMMA BallotSteps == BallotInv /\ [BallotNext]_ballotFormVars => BallotInv'
<1>1. ASSUME BallotInv, BallotNext PROVE BallotInv'
    BY <1>1, OpenPickerKeeps, PickAnswerKeeps, ClearAnswersKeeps, ConfirmPicksKeeps, ClosePickerKeeps,
       SubmitBallotKeeps, ServeBallotKeeps, BallotSavedKeeps, BallotNotSavedKeeps, BallotPolledKeeps,
       CampaignClosesKeeps, BallotElsewhereKeeps DEF BallotNext
<1>2. ASSUME BallotInv, UNCHANGED ballotFormVars PROVE BallotInv'
    <2>1. BallotTypes'
        BY <1>2 DEF ballotFormVars, BallotInv, BallotTypes
    <2>2. QED
        BY <1>2, <2>1, PicturesStay DEF ballotFormVars, BallotBusy
<1>3. QED
    BY <1>1, <1>2

\* The dialog never puts a team into both branches, nor too many into one, and
\* what is saved is what is on display, for any branches' sizes and any teams
\* (CrystalAnswerPicker.tsx, CrystalSeason.tsx).
THEOREM BallotFormCorrect == BallotSpec => [](BranchesStayApart /\ DraftIsWhatWasSent)
<1>1. BallotInv => BranchesStayApart /\ DraftIsWhatWasSent
    BY DEF BallotInv
<1>2. QED
    BY <1>1, BallotStarts, BallotSteps, PTL DEF BallotSpec

-----------------------------------------------------------------------------
(***************************************************************************)
(* CrystalBallScreen, the administration: the panel saves and publishes    *)
(* what it shows.                                                          *)
(***************************************************************************)

Campaigns == [closed : BOOLEAN, now : [Sections -> SectionValues], number : 0..LastPublished]

AdminTypes ==
    /\ campaignServer \in Campaigns /\ campaignRead \in Campaigns
    /\ sectionDraft \in [Sections -> SectionValues]
    /\ sectionDirty \in [Sections -> BOOLEAN]
    /\ adminDirty \in BOOLEAN /\ adminBusy \in BOOLEAN /\ chosenAgain \in BOOLEAN
    /\ publishing \in [phase : {"none", "sent", "stored"}, section : Sections,
                       value : SectionValues, rest : BOOLEAN]

\* While an answer is awaited both forms are as perform() captured them.
CapturedIsCurrent ==
    AdminBusy =>
        /\ publishing.rest = sectionDirty[OtherSection(publishing.section)]
        /\ sectionDirty[publishing.section] =>
              publishing.value = sectionDraft[publishing.section]

AdminInv == AdminTypes /\ CapturedIsCurrent /\ PanelKnowsItsForms

LEMMA SectionsAreTwo ==
  /\ \A f \in Sections : OtherSection(f) \in Sections /\ OtherSection(f) # f
  /\ \A f, g \in Sections : g = f \/ g = OtherSection(f)
    BY DEF Sections, OtherSection

LEMMA ShownSectionType ==
  ASSUME AdminTypes, NEW f \in Sections
  PROVE  ShownSection(f) \in SectionValues
    BY DEF AdminTypes, ShownSection, Campaigns

LEMMA NotPublishingType ==
  NotPublishing \in [phase : {"none", "sent", "stored"}, section : Sections,
                     value : SectionValues, rest : BOOLEAN]
<1>1. FALSE \in BOOLEAN /\ 0 \in SectionValues /\ "window" \in Sections
    BY CrystalAdminAssumption DEF SectionValues, Sections
<1>2. QED
    BY <1>1, Zenon DEF NotPublishing

LEMMA StoreSectionType ==
  ASSUME AdminTypes, NEW f \in Sections, NEW v \in SectionValues, StoreSection(f, v)
  PROVE  campaignServer' \in Campaigns
<1>1. campaignServer.number + 1 \in 0..LastPublished
    BY CrystalAdminAssumption DEF AdminTypes, Campaigns, StoreSection
<1>2. [campaignServer.now EXCEPT ![f] = v] \in [Sections -> SectionValues]
    BY DEF AdminTypes, Campaigns
<1>3. campaignServer' = [campaignServer EXCEPT !.number = campaignServer.number + 1,
                            !.now = [campaignServer.now EXCEPT ![f] = v]]
    BY DEF StoreSection, AdminTypes, Campaigns
<1>4. QED
    BY <1>1, <1>2, <1>3 DEF AdminTypes, Campaigns

LEMMA EditSectionKeeps ==
  ASSUME AdminInv, NEW f \in Sections, NEW v \in SectionValues, EditSection(f, v)
  PROVE  AdminInv'
<1>1. AdminTypes'
    <2>1. adminDirty' = TRUE /\ chosenAgain' = FALSE
        BY DEF EditSection
    <2>2. adminDirty' \in BOOLEAN /\ chosenAgain' \in BOOLEAN
        BY <2>1, Zenon
    <2>3. sectionDirty' \in [Sections -> BOOLEAN] /\ sectionDraft' \in [Sections -> SectionValues]
        BY DEF EditSection, AdminTypes, AdminInv
    <2>4. QED
        BY <2>2, <2>3 DEF EditSection, AdminTypes, AdminInv
<1>2. CapturedIsCurrent'
    BY CrystalAdminAssumption, SectionsAreTwo DEF EditSection, TakesInput, AdminBusy,
       CapturedIsCurrent, AdminTypes, AdminInv
<1>3. PanelKnowsItsForms'
    BY CrystalAdminAssumption, SectionsAreTwo DEF EditSection, TakesInput, AdminBusy,
       PanelKnowsItsForms, AdminTypes, AdminInv
<1>4. QED
    BY <1>1, <1>2, <1>3 DEF AdminInv

LEMMA PublishSectionKeeps ==
  ASSUME AdminInv, NEW f \in Sections, PublishSection(f)
  PROVE  AdminInv'
<1>1. AdminTypes'
    <2>1. adminBusy' = TRUE
        BY DEF PublishSection
    <2>2. adminBusy' \in BOOLEAN
        BY <2>1, Zenon
    <2>3. ShownSection(f) \in SectionValues /\ sectionDirty[OtherSection(f)] \in BOOLEAN
        BY ShownSectionType, SectionsAreTwo DEF AdminTypes, AdminInv
    <2>4. QED
        BY <2>2, <2>3 DEF PublishSection, AdminTypes, AdminInv
<1>2. CapturedIsCurrent'
    BY CrystalAdminAssumption, SectionsAreTwo DEF PublishSection, ShownSection, TakesInput,
       AdminBusy, CapturedIsCurrent, AdminTypes, AdminInv
<1>3. PanelKnowsItsForms'
    BY CrystalAdminAssumption, SectionsAreTwo DEF PublishSection, TakesInput, AdminBusy,
       PanelKnowsItsForms, AdminTypes, AdminInv
<1>4. QED
    BY <1>1, <1>2, <1>3 DEF AdminInv

LEMMA ServePublishingKeeps ==
  ASSUME AdminInv, ServePublishing
  PROVE  AdminInv'
<1>1. AdminTypes'
    <2>1. publishing.section \in Sections /\ publishing.value \in SectionValues
        BY DEF AdminTypes, AdminInv
    <2>2. campaignServer' \in Campaigns
        BY <2>1, StoreSectionType DEF ServePublishing, AdminInv
    <2>3. QED
        BY <2>2 DEF ServePublishing, AdminTypes, AdminInv
<1>2. CapturedIsCurrent'
    BY CrystalAdminAssumption, SectionsAreTwo DEF ServePublishing, StoreSection,
       CapturedIsCurrent, AdminBusy, AdminTypes, AdminInv
<1>3. PanelKnowsItsForms'
    BY CrystalAdminAssumption, SectionsAreTwo DEF ServePublishing, StoreSection,
       PanelKnowsItsForms, AdminBusy, AdminTypes, AdminInv
<1>4. QED
    BY <1>1, <1>2, <1>3 DEF AdminInv

LEMMA PublishedKeeps ==
  ASSUME AdminInv, Published
  PROVE  AdminInv'
<1>1. AdminTypes'
    <2>1. /\ adminBusy' = FALSE /\ adminDirty' = publishing.rest /\ publishing.rest \in BOOLEAN
          /\ chosenAgain' = FALSE
        BY DEF Published, AdminTypes, AdminInv
    <2>2. adminBusy' \in BOOLEAN /\ adminDirty' \in BOOLEAN /\ chosenAgain' \in BOOLEAN
        BY <2>1, Zenon
    <2>3. sectionDirty' \in [Sections -> BOOLEAN]
        BY DEF Published, AdminTypes, AdminInv
    <2>4. QED
        BY <2>2, <2>3, NotPublishingType DEF Published, AdminTypes, AdminInv
<1>2. CapturedIsCurrent'
    BY CrystalAdminAssumption, SectionsAreTwo DEF Published, NotPublishing, CapturedIsCurrent,
       AdminBusy, AdminTypes, AdminInv
<1>3. PanelKnowsItsForms'
    <2> DEFINE f == publishing.section
               g == OtherSection(f)
    <2>1. f \in Sections /\ g \in Sections /\ g # f
        BY SectionsAreTwo DEF AdminTypes, AdminInv
    <2>2. sectionDirty' = [sectionDirty EXCEPT ![f] = FALSE] /\ adminDirty' = sectionDirty[g]
        BY DEF Published, AdminInv, CapturedIsCurrent, AdminBusy
    <2>3. \A h \in Sections : h = f \/ h = g
        BY <2>1, SectionsAreTwo
    <2> HIDE DEF f, g
    <2>4. ~ sectionDirty'[f] /\ sectionDirty'[g] = sectionDirty[g]
        BY <2>1, <2>2 DEF AdminTypes, AdminInv
    <2>5. adminDirty' <=> \E h \in Sections : sectionDirty'[h]
        BY <2>1, <2>2, <2>3, <2>4
    <2>6. adminBusy' = FALSE /\ publishing'.phase = "none"
        BY DEF Published, NotPublishing
    <2>7. QED
        BY <2>5, <2>6 DEF PanelKnowsItsForms, AdminBusy
<1>4. QED
    BY <1>1, <1>2, <1>3 DEF AdminInv

LEMMA NotPublishedKeeps ==
  ASSUME AdminInv, NotPublished
  PROVE  AdminInv'
<1>1. AdminTypes'
    <2>1. adminBusy' = FALSE
        BY DEF NotPublished
    <2>2. adminBusy' \in BOOLEAN
        BY <2>1, Zenon
    <2>3. QED
        BY <2>2, NotPublishingType DEF NotPublished, AdminTypes, AdminInv
<1>2. CapturedIsCurrent'
    BY CrystalAdminAssumption, SectionsAreTwo DEF NotPublished, NotPublishing, AdminBusy,
       CapturedIsCurrent, AdminTypes, AdminInv
<1>3. PanelKnowsItsForms'
    BY CrystalAdminAssumption, SectionsAreTwo DEF NotPublished, NotPublishing, AdminBusy,
       PanelKnowsItsForms, AdminTypes, AdminInv
<1>4. QED
    BY <1>1, <1>2, <1>3 DEF AdminInv

LEMMA CampaignPolledKeeps ==
  ASSUME AdminInv, CampaignPolled
  PROVE  AdminInv'
<1>1. AdminTypes'
    BY CrystalAdminAssumption, SectionsAreTwo DEF CampaignPolled, AdminTypes, AdminInv
<1>2. CapturedIsCurrent'
    BY CrystalAdminAssumption, SectionsAreTwo DEF CampaignPolled, CapturedIsCurrent,
       AdminBusy, AdminTypes, AdminInv
<1>3. PanelKnowsItsForms'
    BY CrystalAdminAssumption, SectionsAreTwo DEF CampaignPolled, PanelKnowsItsForms,
       AdminBusy, AdminTypes, AdminInv
<1>4. QED
    BY <1>1, <1>2, <1>3 DEF AdminInv

LEMMA OthersPublishKeeps ==
  ASSUME AdminInv, NEW f \in Sections, NEW v \in SectionValues, OthersPublish(f, v)
  PROVE  AdminInv'
<1>1. AdminTypes'
    BY StoreSectionType DEF OthersPublish, AdminTypes, AdminInv
<1>2. CapturedIsCurrent'
    BY CrystalAdminAssumption, SectionsAreTwo DEF OthersPublish, StoreSection,
       CapturedIsCurrent, AdminBusy, AdminTypes, AdminInv
<1>3. PanelKnowsItsForms'
    BY CrystalAdminAssumption, SectionsAreTwo DEF OthersPublish, StoreSection,
       PanelKnowsItsForms, AdminBusy, AdminTypes, AdminInv
<1>4. QED
    BY <1>1, <1>2, <1>3 DEF AdminInv

LEMMA ClosingComesKeeps ==
  ASSUME AdminInv, ClosingComes
  PROVE  AdminInv'
<1>1. AdminTypes'
    BY CrystalAdminAssumption, SectionsAreTwo DEF ClosingComes, Campaigns, AdminTypes,
       AdminInv
<1>2. CapturedIsCurrent'
    BY CrystalAdminAssumption, SectionsAreTwo DEF ClosingComes, CapturedIsCurrent, AdminBusy,
       AdminTypes, AdminInv
<1>3. PanelKnowsItsForms'
    BY CrystalAdminAssumption, SectionsAreTwo DEF ClosingComes, PanelKnowsItsForms, AdminBusy,
       AdminTypes, AdminInv
<1>4. QED
    BY <1>1, <1>2, <1>3 DEF AdminInv

LEMMA LeaguePickedKeeps ==
  ASSUME AdminInv, LeaguePicked
  PROVE  AdminInv'
<1>1. AdminTypes'
    <2>1. /\ adminDirty' = FALSE /\ chosenAgain' = FALSE /\ adminBusy' = adminBusy
          /\ publishing' = NotPublishing
        BY DEF LeaguePicked, PickLeague
    <2>2. adminDirty' \in BOOLEAN /\ chosenAgain' \in BOOLEAN
        BY <2>1, Zenon
    <2>3. sectionDirty' \in [Sections -> BOOLEAN]
        <3>1. sectionDirty' = [g \in Sections |-> FALSE] /\ FALSE \in BOOLEAN
            BY DEF LeaguePicked
        <3>2. QED
            BY <3>1, Zenon
    <2>4. campaignServer.now \in [Sections -> SectionValues]
        BY DEF AdminTypes, Campaigns, AdminInv
    <2>5. QED
        BY <2>1, <2>2, <2>3, <2>4, NotPublishingType DEF LeaguePicked, AdminTypes, AdminInv
<1>2. CapturedIsCurrent'
    BY CrystalAdminAssumption, SectionsAreTwo DEF LeaguePicked, PickLeague, NotPublishing,
       CapturedIsCurrent, AdminBusy, AdminTypes, AdminInv
<1>3. PanelKnowsItsForms'
    BY CrystalAdminAssumption, SectionsAreTwo DEF LeaguePicked, PickLeague, NotPublishing,
       PanelKnowsItsForms, AdminBusy, AdminTypes, AdminInv
<1>4. QED
    BY <1>1, <1>2, <1>3 DEF AdminInv

LEMMA LeagueChosenAgainKeeps ==
  ASSUME AdminInv, LeagueChosenAgain
  PROVE  AdminInv'
<1>1. /\ adminDirty' = FALSE /\ chosenAgain' = (\E f \in Sections : sectionDirty[f])
      /\ UNCHANGED <<campaignServer, campaignRead, sectionDraft, sectionDirty, adminBusy, publishing>>
    BY DEF LeagueChosenAgain, PickLeague
<1>2. adminDirty' \in BOOLEAN /\ chosenAgain' \in BOOLEAN
    BY <1>1, Zenon
<1>3. AdminTypes'
    BY <1>1, <1>2 DEF AdminTypes, AdminInv
<1>4. CapturedIsCurrent'
    BY <1>1 DEF CapturedIsCurrent, AdminBusy, AdminInv
<1>5. PanelKnowsItsForms'
    <2>1. adminBusy' <=> AdminBusy'
        BY <1>1 DEF PanelKnowsItsForms, AdminBusy, AdminInv
    <2>2. (\E f \in Sections : sectionDirty'[f]) => chosenAgain'
        BY <1>1, Zenon
    <2>3. QED
        BY <1>1, <2>1, <2>2 DEF PanelKnowsItsForms
<1>6. QED
    BY <1>3, <1>4, <1>5 DEF AdminInv

LEMMA AdminStarts == CrystalAdminInit => AdminInv
<1> SUFFICES ASSUME CrystalAdminInit PROVE AdminInv
    OBVIOUS
<1>1. adminDirty = FALSE /\ adminBusy = FALSE /\ chosenAgain = FALSE
    BY DEF CrystalAdminInit
<1>2. adminDirty \in BOOLEAN /\ adminBusy \in BOOLEAN /\ chosenAgain \in BOOLEAN
    BY <1>1, Zenon
<1>3. 0 \in SectionValues /\ 0 \in 0..LastPublished /\ "window" \in Sections
    BY CrystalAdminAssumption DEF SectionValues, Sections
<1>4. AdminTypes
    BY <1>2, <1>3 DEF CrystalAdminInit, AdminTypes, Campaigns, NotPublishing
<1>5. QED
    BY <1>1, <1>4 DEF CrystalAdminInit, AdminInv, CapturedIsCurrent, PanelKnowsItsForms, AdminBusy,
       NotPublishing

LEMMA AdminSteps == AdminInv /\ [CrystalAdminNext]_crystalAdminVars => AdminInv'
<1>1. ASSUME AdminInv, CrystalAdminNext PROVE AdminInv'
    BY <1>1, EditSectionKeeps, PublishSectionKeeps, ServePublishingKeeps, PublishedKeeps,
       NotPublishedKeeps, CampaignPolledKeeps, OthersPublishKeeps, ClosingComesKeeps,
       LeaguePickedKeeps, LeagueChosenAgainKeeps DEF CrystalAdminNext
<1>2. ASSUME AdminInv, UNCHANGED crystalAdminVars PROVE AdminInv'
    BY <1>2 DEF crystalAdminVars, AdminInv, AdminTypes, CapturedIsCurrent, PanelKnowsItsForms, AdminBusy
<1>3. QED
    BY <1>1, <1>2

\* What the panel holds to be unsaved or running is so, for any number of
\* publications and polls, and it holds every change unless its league was chosen
\* again over it (CrystalAdmin.tsx, CrystalAdminPanel.tsx).
THEOREM PanelKnows == CrystalAdminSpec => []PanelKnowsItsForms
<1>1. AdminInv => PanelKnowsItsForms
    BY DEF AdminInv
<1>2. QED
    BY <1>1, AdminStarts, AdminSteps, PTL DEF CrystalAdminSpec

\* Publishing one form keeps what was changed in the other (CrystalAdmin.tsx).
THEOREM PublishingKeepsOther == CrystalAdminSpec => OtherFormIsKept
<1>1. ASSUME AdminInv, CrystalAdminNext, NEW f \in Sections, sectionDirty[f], ~ sectionDirty'[f]
      PROVE  \/ publishing.phase = "stored" /\ publishing.section = f
                /\ publishing.value = sectionDraft[f]
             \/ ~ adminBusy /\ (adminDirty \/ chosenAgain)
    <2>1. \A g \in Sections, v \in SectionValues : ~ EditSection(g, v)
        BY <1>1 DEF EditSection, AdminInv, AdminTypes
    <2>2. Published \/ LeaguePicked
        BY <1>1, <2>1 DEF CrystalAdminNext, PublishSection, ServePublishing, NotPublished,
           CampaignPolled, OthersPublish, ClosingComes, LeagueChosenAgain
    <2>3. CASE Published
        <3>1. publishing.section = f /\ publishing.phase = "stored"
            BY <1>1, <2>3 DEF Published, AdminInv, AdminTypes
        <3>2. QED
            BY <1>1, <3>1 DEF AdminInv, CapturedIsCurrent, AdminBusy
    <2>4. CASE LeaguePicked
        BY <1>1, <2>4 DEF LeaguePicked, PickLeague, AdminInv, PanelKnowsItsForms
    <2>5. QED
        BY <2>2, <2>3, <2>4
<1>2. AdminInv /\ [CrystalAdminNext]_crystalAdminVars =>
        [\A f \in Sections :
           sectionDirty[f] /\ ~ sectionDirty'[f] =>
             \/ publishing.phase = "stored" /\ publishing.section = f
                /\ publishing.value = sectionDraft[f]
             \/ ~ adminBusy /\ (adminDirty \/ chosenAgain)]_crystalAdminVars
    BY <1>1
<1>3. QED
    BY <1>2, AdminStarts, AdminSteps, PTL DEF CrystalAdminSpec, OtherFormIsKept

\* The administration of the crystal ball: no change is given up unasked, unless
\* the league on display was chosen again over it.
THEOREM CrystalPanelCorrect == CrystalAdminSpec => []PanelKnowsItsForms /\ OtherFormIsKept
    BY PanelKnows, PublishingKeepsOther

-----------------------------------------------------------------------------
(***************************************************************************)
(* PredictionScreen: the card is of the data that was loaded for its match.*)
(***************************************************************************)

FittingPicks == {pick \in [team : {"none", "home", "away"},
                           score : {<<>>} \cup ScoresFor("home") \cup ScoresFor("away")] :
                    pick.score = <<>> \/ pick.score \in ScoresFor(pick.team)}
PickResults == {NoResult} \cup [key : PredictionPages, open : BOOLEAN, version : Nat]
PickCards == [phase : {"none", "shown"}, open : BOOLEAN, draft : FittingPicks,
              saving : PickSaves \cup {NoSave}]
PickRequests == [step : {"idle", "sent", "stored", "over"}, key : PredictionPages \cup {"none"},
                 pick : FittingPicks, version : Nat]

PredictionTypes ==
    /\ picksOf \in [PredictionPages -> Seq(FittingPicks)]
    /\ voting \in [PredictionPages -> BOOLEAN]
    /\ predictionsKey \in PredictionPages
    /\ picksResult \in PickResults
    /\ picksDue \in BOOLEAN
    /\ picksLoad \in [phase : {"none", "sent", "answered"}, seen : PickResults]
    /\ card \in PickCards
    /\ pickSaves \in [PickSaves -> PickRequests]
    /\ answered \in [PredictionPages -> Nat]

\* A version is the number of a pick that is stored.
VersionsAreStored ==
    /\ picksResult # NoResult => picksResult.version <= Len(picksOf[picksResult.key])
    /\ picksLoad.seen # NoResult => picksLoad.seen.version <= Len(picksOf[picksLoad.seen.key])
    /\ \A s \in PickSaves :
          /\ pickSaves[s].step \in {"sent", "stored"} => pickSaves[s].key \in PredictionPages
          /\ pickSaves[s].step = "stored" => pickSaves[s].version <= Len(picksOf[pickSaves[s].key])
    /\ \A p \in PredictionPages : answered[p] <= Len(picksOf[p])

\* A card is there while the data of the page are.
CardIsOfTheData == card.phase = "shown" <=> PredictionsShown

\* Unless the effect is due again, the load under way is of the page, and reads
\* what its user was told of.
LoadIsOfThePage ==
    /\ picksLoad.phase # "none" => picksLoad.seen.key \in PredictionPages
    /\ ~ picksDue /\ picksLoad.phase # "none" => picksLoad.seen.key = predictionsKey
    /\ ~ picksDue /\ picksLoad.phase = "answered" =>
          picksLoad.seen.version >= answered[predictionsKey]

PredictionInv ==
    /\ PredictionTypes /\ VersionsAreStored /\ CardIsOfTheData /\ LoadIsOfThePage
    /\ SavedPickIsReadBack

LEMMA SomeValues ==
  /\ NoPrediction \in FittingPicks /\ NoResult \in PickResults /\ NoResult.key \notin PredictionPages
  /\ Unmounted \in PickCards /\ NotSavingPick \in PickRequests
  /\ NoSave \notin PickSaves /\ LastPickSave \in Nat
<1>1. NoPrediction \in FittingPicks
    BY DEF NoPrediction, FittingPicks
<1>2. FALSE \in BOOLEAN
    OBVIOUS
<1>3. Unmounted \in PickCards
    <2>1. NoSave \in PickSaves \cup {NoSave}
        OBVIOUS
    <2> HIDE DEF NoSave
    <2>2. QED
        BY <1>1, <1>2, <2>1, Zenon DEF Unmounted, PickCards
<1>4. NotSavingPick \in PickRequests
    BY <1>1 DEF NotSavingPick, PickRequests
<1>5. QED
    BY <1>1, <1>3, <1>4, PredictionScreenAssumption DEF PickResults, NoResult, NoSave, PickSaves

LEMMA PickFits ==
  ASSUME NEW P, NEW q \in Seq(P), NEW v \in Nat, v # 0, v <= Len(q)
  PROVE  q[v] \in P
<1>1. v \in 1..Len(q)
    OBVIOUS
<1>2. QED
    BY <1>1, ElementOfSeq

LEMMA ResultIsKnown ==
  ASSUME NEW r \in PickResults
  PROVE  /\ r.key \in PredictionPages \cup {"none"} /\ r.version \in Nat /\ r.open \in BOOLEAN
         /\ r.key \in PredictionPages => r # NoResult
         /\ r # NoResult => r.key \in PredictionPages
         /\ r.key \notin PredictionPages => r = NoResult /\ r.version = 0
<1>1. CASE r = NoResult
    <2>1. r.open = FALSE
        BY <1>1 DEF NoResult
    <2>2. r.open \in BOOLEAN
        BY <2>1, Zenon
    <2>3. QED
        BY <1>1, <2>2, PredictionScreenAssumption DEF NoResult
<1>2. CASE r \in [key : PredictionPages, open : BOOLEAN, version : Nat]
    BY <1>2, PredictionScreenAssumption DEF NoResult
<1>3. QED
    BY <1>1, <1>2 DEF PickResults

\* What is rendered when the data or the page change.
LEMMA RenderedIsCard ==
  ASSUME PredictionInv, picksOf' = picksOf, picksResult' \in PickResults, predictionsKey' \in PredictionPages,
         picksResult' # NoResult => picksResult'.version <= Len(picksOf[picksResult'.key])
  PROVE  Rendered \in PickCards /\ (Rendered.phase = "shown" <=> PredictionsShown')
<1>1. ShownPick' \in FittingPicks
    <2>1. CASE picksResult'.version = 0
        BY <2>1, SomeValues DEF ShownPick, PickAt
    <2>2. CASE picksResult'.version # 0
        <3>1. picksResult'.key \in PredictionPages /\ picksResult'.version \in Nat
              /\ picksResult'.version <= Len(picksOf[picksResult'.key])
            BY <2>2, ResultIsKnown
        <3>2. picksOf[picksResult'.key] \in Seq(FittingPicks)
            BY <3>1 DEF PredictionInv, PredictionTypes
        <3>3. picksOf[picksResult'.key][picksResult'.version] \in FittingPicks
            BY <2>2, <3>1, <3>2, PickFits
        <3>4. QED
            BY <2>2, <3>3 DEF ShownPick, PickAt
    <2>3. QED
        BY <2>1, <2>2
<1>2. card \in PickCards
    BY DEF PredictionInv, PredictionTypes
<1>3. CASE ~ PredictionsShown'
    BY <1>3, SomeValues DEF Rendered, Unmounted
<1>4. CASE PredictionsShown' /\ (~ PredictionsShown \/ card.open # picksResult'.open)
    <2>1. Rendered = [phase |-> "shown", open |-> picksResult'.open, draft |-> ShownPick', saving |-> NoSave]
        BY <1>4 DEF Rendered, NewCard
    <2>2. picksResult'.open \in BOOLEAN
        BY ResultIsKnown
    <2>3. Rendered \in PickCards
        <3>1. NoSave \in PickSaves \cup {NoSave}
            OBVIOUS
        <3> HIDE DEF NoSave
        <3>2. QED
            BY <1>1, <2>1, <2>2, <3>1, Zenon DEF PickCards
    <2>4. QED
        BY <1>4, <2>1, <2>3
<1>5. CASE PredictionsShown' /\ PredictionsShown /\ card.open = picksResult'.open
    <2>1. Rendered = card \/ Rendered = [card EXCEPT !.draft = ShownPick']
        BY <1>5 DEF Rendered
    <2>2. card.phase = "shown"
        BY <1>5 DEF PredictionInv, CardIsOfTheData
    <2>3. QED
        BY <1>1, <1>2, <1>5, <2>1, <2>2 DEF PickCards
<1>6. QED
    BY <1>3, <1>4, <1>5

LEMMA LoadPredictionsKeeps ==
  ASSUME PredictionInv, LoadPredictions
  PROVE  PredictionInv'
<1>1. PredictionTypes'
    <2>1. picksDue' = FALSE /\ picksLoad' = [phase |-> "sent", seen |-> [NoResult EXCEPT !.key = predictionsKey]]
        BY DEF LoadPredictions
    <2>2. picksDue' \in BOOLEAN
        BY <2>1, Zenon
    <2>3. PICK o \in BOOLEAN : o = FALSE
        OBVIOUS
    <2>4. [NoResult EXCEPT !.key = predictionsKey]
             \in [key : PredictionPages, open : BOOLEAN, version : Nat]
        <3>1. NoResult = [key |-> "none", open |-> o, version |-> 0]
            BY <2>3 DEF NoResult
        <3>2. QED
            BY <3>1 DEF PredictionTypes, PredictionInv
    <2>6. picksLoad' \in [phase : {"none", "sent", "answered"}, seen : PickResults]
        BY <2>1, <2>4 DEF PickResults
    <2>7. QED
        BY <2>2, <2>6 DEF LoadPredictions, PredictionTypes, PredictionInv
<1>2. VersionsAreStored'
    <2>1. /\ picksLoad'.phase = "sent" /\ picksLoad'.seen.key = predictionsKey
          /\ picksLoad'.seen.version = 0 /\ predictionsKey \in PredictionPages
        BY DEF LoadPredictions, NoResult, PredictionTypes, PredictionInv
    <2>2. Len(picksOf[predictionsKey]) \in Nat
        BY <2>1, LenProperties DEF PredictionTypes, PredictionInv
    <2>3. QED
        BY <2>1, <2>2 DEF LoadPredictions, VersionsAreStored, PredictionInv
<1>3. CardIsOfTheData'
    BY SomeValues, PredictionScreenAssumption DEF LoadPredictions, CardIsOfTheData,
       PredictionsShown, PredictionTypes, PredictionInv
<1>4. LoadIsOfThePage'
    <2>1. /\ picksLoad'.phase = "sent" /\ picksLoad'.seen.key = predictionsKey
          /\ picksLoad'.seen.version = 0 /\ predictionsKey \in PredictionPages
        BY DEF LoadPredictions, NoResult, PredictionTypes, PredictionInv
    <2>2. QED
        BY <2>1 DEF LoadPredictions, LoadIsOfThePage, PredictionInv
<1>5. SavedPickIsReadBack'
    <2>1. /\ picksLoad'.phase = "sent" /\ picksLoad'.seen.key = predictionsKey
          /\ picksLoad'.seen.version = 0 /\ predictionsKey \in PredictionPages
        BY DEF LoadPredictions, NoResult, PredictionTypes, PredictionInv
    <2>2. QED
        BY <2>1 DEF SavedPickIsReadBack, NoPicksLoad
<1>6. QED
    BY <1>1, <1>2, <1>3, <1>4, <1>5 DEF PredictionInv

LEMMA ServePredictionsKeeps ==
  ASSUME PredictionInv, ServePredictions
  PROVE  PredictionInv'
<1>1. PredictionTypes'
    <2> DEFINE q == picksLoad.seen.key
               found == [key |-> q, open |-> voting[q], version |-> Len(picksOf[q])]
    <2>1. q \in PredictionPages
        BY DEF ServePredictions, LoadIsOfThePage, PredictionInv
    <2>2. voting[q] \in BOOLEAN /\ picksOf[q] \in Seq(FittingPicks)
        BY <2>1 DEF PredictionTypes, PredictionInv
    <2>3. Len(picksOf[q]) \in Nat
        BY <2>2, LenProperties
    <2>4. picksLoad' = [phase |-> "answered", seen |-> found]
        BY DEF ServePredictions
    <2>5. found \in [key : PredictionPages, open : BOOLEAN, version : Nat]
        BY <2>1, <2>2, <2>3
    <2> HIDE DEF found
    <2>6. picksLoad' \in [phase : {"none", "sent", "answered"}, seen : PickResults]
        BY <2>4, <2>5 DEF PickResults
    <2>7. QED
        BY <2>6 DEF ServePredictions, PredictionTypes, PredictionInv
<1>2. VersionsAreStored'
    BY SomeValues, PredictionScreenAssumption DEF ServePredictions, VersionsAreStored,
       PredictionTypes, PredictionInv
<1>3. CardIsOfTheData'
    BY SomeValues, PredictionScreenAssumption DEF ServePredictions, CardIsOfTheData,
       PredictionsShown, PredictionTypes, PredictionInv
<1>4. LoadIsOfThePage'
    BY SomeValues, PredictionScreenAssumption, ResultIsKnown DEF ServePredictions,
       LoadIsOfThePage, VersionsAreStored, PredictionTypes, PredictionInv
<1>5. SavedPickIsReadBack'
    BY DEF ServePredictions, SavedPickIsReadBack, NoPicksLoad
<1>6. QED
    BY <1>1, <1>2, <1>3, <1>4, <1>5 DEF PredictionInv

LEMMA PredictionsArriveKeeps ==
  ASSUME PredictionInv, PredictionsArrive
  PROVE  PredictionInv'
<1>1. PredictionTypes'
    <2>1. picksLoad.seen \in PickResults /\ picksResult' = picksLoad.seen /\ picksOf' = picksOf
          /\ predictionsKey' = predictionsKey /\ predictionsKey \in PredictionPages
        BY DEF PredictionsArrive, PredictionTypes, PredictionInv
    <2>2. picksResult' # NoResult => picksResult'.version <= Len(picksOf[picksResult'.key])
        BY <2>1 DEF VersionsAreStored, PredictionInv
    <2>3. Rendered \in PickCards /\ (Rendered.phase = "shown" <=> PredictionsShown')
        BY <2>1, <2>2, RenderedIsCard
    <2>4. picksLoad' \in [phase : {"none", "sent", "answered"}, seen : PickResults]
        BY SomeValues DEF PredictionsArrive, NoPicksLoad
    <2>5. QED
        BY <2>1, <2>3, <2>4 DEF PredictionsArrive, PredictionTypes, PredictionInv
<1>2. VersionsAreStored'
    BY SomeValues, PredictionScreenAssumption DEF PredictionsArrive, NoPicksLoad,
       VersionsAreStored, PredictionTypes, PredictionInv
<1>3. CardIsOfTheData'
    <2>1. picksLoad.seen \in PickResults /\ picksResult' = picksLoad.seen /\ picksOf' = picksOf
          /\ predictionsKey' = predictionsKey /\ predictionsKey \in PredictionPages
        BY DEF PredictionsArrive, PredictionTypes, PredictionInv
    <2>2. picksResult' # NoResult => picksResult'.version <= Len(picksOf[picksResult'.key])
        BY <2>1 DEF VersionsAreStored, PredictionInv
    <2>3. Rendered \in PickCards /\ (Rendered.phase = "shown" <=> PredictionsShown')
        BY <2>1, <2>2, RenderedIsCard
    <2>4. QED
        BY <2>3 DEF PredictionsArrive, CardIsOfTheData
<1>4. LoadIsOfThePage'
    BY SomeValues, PredictionScreenAssumption, ResultIsKnown DEF PredictionsArrive,
       NoPicksLoad, LoadIsOfThePage, VersionsAreStored, PredictionTypes, PredictionInv
<1>5. SavedPickIsReadBack'
    BY SomeValues, PredictionScreenAssumption DEF PredictionsArrive, NoPicksLoad,
       SavedPickIsReadBack, LoadIsOfThePage, PredictionsShown, PredictionTypes, PredictionInv
<1>6. QED
    BY <1>1, <1>2, <1>3, <1>4, <1>5 DEF PredictionInv

LEMMA PredictionsFailKeeps ==
  ASSUME PredictionInv, PredictionsFail
  PROVE  PredictionInv'
<1>1. PredictionTypes'
    <2>1. picksResult' = NoResult /\ picksOf' = picksOf /\ NoResult \in PickResults
          /\ predictionsKey' = predictionsKey /\ predictionsKey \in PredictionPages
        BY SomeValues DEF PredictionsFail, PredictionTypes, PredictionInv
    <2>2. Rendered \in PickCards /\ (Rendered.phase = "shown" <=> PredictionsShown')
        BY <2>1, RenderedIsCard
    <2>3. picksLoad' \in [phase : {"none", "sent", "answered"}, seen : PickResults]
        BY SomeValues DEF PredictionsFail, NoPicksLoad
    <2>4. QED
        BY <2>1, <2>2, <2>3 DEF PredictionsFail, PredictionTypes, PredictionInv
<1>2. VersionsAreStored'
    BY SomeValues, PredictionScreenAssumption DEF PredictionsFail, NoPicksLoad,
       VersionsAreStored, PredictionTypes, PredictionInv
<1>3. CardIsOfTheData'
    <2>1. picksResult' = NoResult /\ picksOf' = picksOf /\ NoResult \in PickResults
          /\ predictionsKey' = predictionsKey /\ predictionsKey \in PredictionPages
        BY SomeValues DEF PredictionsFail, PredictionTypes, PredictionInv
    <2>2. Rendered \in PickCards /\ (Rendered.phase = "shown" <=> PredictionsShown')
        BY <2>1, RenderedIsCard
    <2>3. QED
        BY <2>2 DEF PredictionsFail, CardIsOfTheData
<1>4. LoadIsOfThePage'
    BY SomeValues, PredictionScreenAssumption, ResultIsKnown DEF PredictionsFail, NoPicksLoad,
       LoadIsOfThePage, VersionsAreStored, PredictionTypes, PredictionInv
<1>5. SavedPickIsReadBack'
    BY SomeValues, PredictionScreenAssumption DEF PredictionsFail, NoResult, NoPicksLoad,
       SavedPickIsReadBack, LoadIsOfThePage, PredictionsShown, PredictionTypes, PredictionInv
<1>6. QED
    BY <1>1, <1>2, <1>3, <1>4, <1>5 DEF PredictionInv

LEMMA PredictionsAgainKeeps ==
  ASSUME PredictionInv, PredictionsAgain
  PROVE  PredictionInv'
<1>1. PredictionTypes'
    BY SomeValues, PredictionScreenAssumption DEF PredictionsAgain, PredictionTypes,
       PredictionInv
<1>2. VersionsAreStored'
    BY SomeValues, PredictionScreenAssumption DEF PredictionsAgain, VersionsAreStored,
       PredictionTypes, PredictionInv
<1>3. CardIsOfTheData'
    BY SomeValues, PredictionScreenAssumption DEF PredictionsAgain, CardIsOfTheData,
       PredictionsShown, PredictionTypes, PredictionInv
<1>4. LoadIsOfThePage'
    BY SomeValues, PredictionScreenAssumption, ResultIsKnown DEF PredictionsAgain,
       LoadIsOfThePage, VersionsAreStored, PredictionTypes, PredictionInv
<1>5. SavedPickIsReadBack'
    BY SomeValues, PredictionScreenAssumption DEF PredictionsAgain, SavedPickIsReadBack,
       LoadIsOfThePage, PredictionsShown, PredictionTypes, PredictionInv
<1>6. QED
    BY <1>1, <1>2, <1>3, <1>4, <1>5 DEF PredictionInv

LEMMA ShowPredictionsKeeps ==
  ASSUME PredictionInv, NEW p \in PredictionPages, ShowPredictions(p)
  PROVE  PredictionInv'
<1>1. PredictionTypes'
    <2>1. picksResult' = picksResult /\ picksOf' = picksOf /\ picksResult \in PickResults
          /\ predictionsKey' \in PredictionPages
        BY DEF ShowPredictions, PredictionTypes, PredictionInv
    <2>2. picksResult' # NoResult => picksResult'.version <= Len(picksOf[picksResult'.key])
        BY <2>1 DEF VersionsAreStored, PredictionInv
    <2>3. Rendered \in PickCards /\ (Rendered.phase = "shown" <=> PredictionsShown')
        BY <2>1, <2>2, RenderedIsCard
    <2>4. picksDue' = TRUE
        BY DEF ShowPredictions
    <2>5. picksDue' \in BOOLEAN
        BY <2>4, Zenon
    <2>6. QED
        BY <2>1, <2>3, <2>5 DEF ShowPredictions, PredictionTypes, PredictionInv
<1>2. VersionsAreStored'
    BY SomeValues, PredictionScreenAssumption DEF ShowPredictions, VersionsAreStored,
       PredictionTypes, PredictionInv
<1>3. CardIsOfTheData'
    <2>1. picksResult' = picksResult /\ picksOf' = picksOf /\ picksResult \in PickResults
          /\ predictionsKey' \in PredictionPages
        BY DEF ShowPredictions, PredictionTypes, PredictionInv
    <2>2. picksResult' # NoResult => picksResult'.version <= Len(picksOf[picksResult'.key])
        BY <2>1 DEF VersionsAreStored, PredictionInv
    <2>3. Rendered \in PickCards /\ (Rendered.phase = "shown" <=> PredictionsShown')
        BY <2>1, <2>2, RenderedIsCard
    <2>4. QED
        BY <2>3 DEF ShowPredictions, CardIsOfTheData
<1>4. LoadIsOfThePage'
    BY SomeValues, PredictionScreenAssumption, ResultIsKnown DEF ShowPredictions,
       LoadIsOfThePage, VersionsAreStored, PredictionTypes, PredictionInv
<1>5. SavedPickIsReadBack'
    BY SomeValues, PredictionScreenAssumption DEF ShowPredictions, SavedPickIsReadBack,
       LoadIsOfThePage, PredictionsShown, PredictionTypes, PredictionInv
<1>6. QED
    BY <1>1, <1>2, <1>3, <1>4, <1>5 DEF PredictionInv

LEMMA ChooseTeamKeeps ==
  ASSUME PredictionInv, NEW t \in {"home", "away"}, ChooseTeam(t)
  PROVE  PredictionInv'
<1>1. PredictionTypes'
    <2>1. WithTeam(t) \in FittingPicks
        BY DEF WithTeam, FittingPicks
    <2>2. card' \in PickCards
        BY <2>1 DEF ChooseTeam, Edit, PickCards, PredictionTypes, PredictionInv
    <2>3. QED
        BY <2>2 DEF ChooseTeam, Edit, PredictionTypes, PredictionInv
<1>2. VersionsAreStored'
    BY SomeValues, PredictionScreenAssumption DEF ChooseTeam, Edit, MayVote,
       VersionsAreStored, PredictionTypes, PredictionInv
<1>3. CardIsOfTheData'
    BY SomeValues, PredictionScreenAssumption DEF ChooseTeam, Edit, MayVote, CardIsOfTheData,
       PredictionsShown, PredictionTypes, PredictionInv
<1>4. LoadIsOfThePage'
    BY SomeValues, PredictionScreenAssumption, ResultIsKnown DEF ChooseTeam, Edit, MayVote,
       LoadIsOfThePage, VersionsAreStored, PredictionTypes, PredictionInv
<1>5. SavedPickIsReadBack'
    BY SomeValues, PredictionScreenAssumption DEF ChooseTeam, Edit, MayVote,
       SavedPickIsReadBack, LoadIsOfThePage, PredictionsShown, PredictionTypes, PredictionInv
<1>6. QED
    BY <1>1, <1>2, <1>3, <1>4, <1>5 DEF PredictionInv

LEMMA ChooseScoreKeeps ==
  ASSUME PredictionInv, ChooseScore
  PROVE  PredictionInv'
<1>1. PredictionTypes'
    <2>1. card.draft \in FittingPicks /\ card.draft.team # "none"
        BY DEF ChooseScore, PickCards, PredictionTypes, PredictionInv
    <2>2. PICK x \in ScoresFor(card.draft.team) \cup {<<>>} : Edit([card.draft EXCEPT !.score = x])
        BY DEF ChooseScore
    <2>3. card.draft.team \in {"home", "away"}
        BY <2>1 DEF FittingPicks
    <2>4. x \in {<<>>} \cup ScoresFor("home") \cup ScoresFor("away")
        BY <2>2, <2>3
    <2>5. [card.draft EXCEPT !.score = x] \in FittingPicks
        BY <2>1, <2>2, <2>4 DEF FittingPicks
    <2>6. card' \in PickCards
        BY <2>2, <2>5 DEF Edit, PickCards, PredictionTypes, PredictionInv
    <2>7. QED
        BY <2>2, <2>6 DEF Edit, PredictionTypes, PredictionInv
<1>2. VersionsAreStored'
    BY SomeValues, PredictionScreenAssumption DEF ChooseScore, Edit, MayVote,
       VersionsAreStored, PredictionTypes, PredictionInv
<1>3. CardIsOfTheData'
    BY SomeValues, PredictionScreenAssumption DEF ChooseScore, Edit, MayVote, CardIsOfTheData,
       PredictionsShown, PredictionTypes, PredictionInv
<1>4. LoadIsOfThePage'
    BY SomeValues, PredictionScreenAssumption, ResultIsKnown DEF ChooseScore, Edit, MayVote,
       LoadIsOfThePage, VersionsAreStored, PredictionTypes, PredictionInv
<1>5. SavedPickIsReadBack'
    BY SomeValues, PredictionScreenAssumption DEF ChooseScore, Edit, MayVote,
       SavedPickIsReadBack, LoadIsOfThePage, PredictionsShown, PredictionTypes, PredictionInv
<1>6. QED
    BY <1>1, <1>2, <1>3, <1>4, <1>5 DEF PredictionInv

LEMMA SubmitPickKeeps ==
  ASSUME PredictionInv, NEW s \in PickSaves, SubmitPick(s)
  PROVE  PredictionInv'
<1>1. PredictionTypes'
    <2> DEFINE request == [step |-> "sent", key |-> predictionsKey, pick |-> card.draft, version |-> 0]
    <2>1. request \in PickRequests
        BY DEF PickRequests, PickCards, PredictionTypes, PredictionInv
    <2>2. pickSaves' = [pickSaves EXCEPT ![s] = request] /\ card' = [card EXCEPT !.saving = s]
        BY DEF SubmitPick
    <2> HIDE DEF request
    <2>3. card' \in PickCards
        BY <2>2 DEF PickCards, PredictionTypes, PredictionInv
    <2>4. QED
        BY <2>1, <2>2, <2>3 DEF SubmitPick, PredictionTypes, PredictionInv
<1>2. VersionsAreStored'
    BY SomeValues, PredictionScreenAssumption DEF SubmitPick, MayVote, VersionsAreStored,
       PredictionTypes, PredictionInv
<1>3. CardIsOfTheData'
    BY SomeValues, PredictionScreenAssumption DEF SubmitPick, MayVote, CardIsOfTheData,
       PredictionsShown, PredictionTypes, PredictionInv
<1>4. LoadIsOfThePage'
    BY SomeValues, PredictionScreenAssumption, ResultIsKnown DEF SubmitPick, MayVote,
       LoadIsOfThePage, VersionsAreStored, PredictionTypes, PredictionInv
<1>5. SavedPickIsReadBack'
    BY SomeValues, PredictionScreenAssumption DEF SubmitPick, MayVote, SavedPickIsReadBack,
       LoadIsOfThePage, PredictionsShown, PredictionTypes, PredictionInv
<1>6. QED
    BY <1>1, <1>2, <1>3, <1>4, <1>5 DEF PredictionInv

LEMMA StorePickKeeps ==
  ASSUME PredictionInv, NEW s \in PickSaves, StorePick(s)
  PROVE  PredictionInv'
<1>1. PredictionTypes'
    <2> DEFINE q == pickSaves[s].key
               request == [NotSavingPick EXCEPT !.step = "stored", !.key = q, !.version = Len(picksOf[q]) + 1]
    <2>1. q \in PredictionPages /\ pickSaves[s].pick \in FittingPicks /\ picksOf[q] \in Seq(FittingPicks)
        BY DEF StorePick, VersionsAreStored, PickRequests, PredictionTypes, PredictionInv
    <2>2. Append(picksOf[q], pickSaves[s].pick) \in Seq(FittingPicks)
          /\ Len(Append(picksOf[q], pickSaves[s].pick)) = Len(picksOf[q]) + 1 /\ Len(picksOf[q]) \in Nat
        BY <2>1, AppendProperties, LenProperties
    <2>3. picksOf' = [picksOf EXCEPT ![q] = Append(picksOf[q], pickSaves[s].pick)]
          /\ pickSaves' = [pickSaves EXCEPT ![s] = request]
        BY DEF StorePick
    <2>4. request \in PickRequests /\ request.step = "stored" /\ request.key = q
          /\ request.version = Len(picksOf[q]) + 1
        <3>1. PICK l \in Nat : l = Len(picksOf[q]) + 1
            BY <2>2
        <3>2. PICK k \in PredictionPages : k = q
            BY <2>1
        <3>3. request = [NotSavingPick EXCEPT !.step = "stored", !.key = k, !.version = l]
            BY <3>1, <3>2
        <3>4. QED
            BY <3>1, <3>2, <3>3, SomeValues DEF PickRequests
    <2> HIDE DEF request, q
    <2>5. picksOf' \in [PredictionPages -> Seq(FittingPicks)]
        BY <2>1, <2>2, <2>3 DEF PredictionTypes, PredictionInv
    <2>6. pickSaves' \in [PickSaves -> PickRequests]
        BY <2>3, <2>4 DEF PredictionTypes, PredictionInv
    <2>7. QED
        BY <2>5, <2>6 DEF StorePick, PredictionTypes, PredictionInv
<1>2. VersionsAreStored'
    <2> DEFINE q == pickSaves[s].key
               request == [NotSavingPick EXCEPT !.step = "stored", !.key = q, !.version = Len(picksOf[q]) + 1]
    <2>1. q \in PredictionPages /\ pickSaves[s].pick \in FittingPicks /\ picksOf[q] \in Seq(FittingPicks)
        BY DEF StorePick, VersionsAreStored, PickRequests, PredictionTypes, PredictionInv
    <2>2. Append(picksOf[q], pickSaves[s].pick) \in Seq(FittingPicks)
          /\ Len(Append(picksOf[q], pickSaves[s].pick)) = Len(picksOf[q]) + 1 /\ Len(picksOf[q]) \in Nat
        BY <2>1, AppendProperties, LenProperties
    <2>3. picksOf' = [picksOf EXCEPT ![q] = Append(picksOf[q], pickSaves[s].pick)]
          /\ pickSaves' = [pickSaves EXCEPT ![s] = request]
        BY DEF StorePick
    <2>4. request \in PickRequests /\ request.step = "stored" /\ request.key = q
          /\ request.version = Len(picksOf[q]) + 1
        <3>1. PICK l \in Nat : l = Len(picksOf[q]) + 1
            BY <2>2
        <3>2. PICK k \in PredictionPages : k = q
            BY <2>1
        <3>3. request = [NotSavingPick EXCEPT !.step = "stored", !.key = k, !.version = l]
            BY <3>1, <3>2
        <3>4. QED
            BY <3>1, <3>2, <3>3, SomeValues DEF PickRequests
    <2> HIDE DEF request, q
    <2>5. \A p \in PredictionPages : /\ Len(picksOf'[p]) >= Len(picksOf[p])
                                    /\ Len(picksOf[p]) \in Nat /\ Len(picksOf'[p]) \in Nat
        <3>1. \A p \in PredictionPages : picksOf[p] \in Seq(FittingPicks)
            BY DEF PredictionTypes, PredictionInv
        <3>2. \A p \in PredictionPages : Len(picksOf[p]) \in Nat
            BY <3>1, LenProperties
        <3>3. \A p \in PredictionPages : picksOf'[p] =
                 IF p = q THEN Append(picksOf[q], pickSaves[s].pick) ELSE picksOf[p]
            BY <2>3 DEF PredictionTypes, PredictionInv
        <3>4. ASSUME NEW p \in PredictionPages
              PROVE  Len(picksOf'[p]) >= Len(picksOf[p]) /\ Len(picksOf'[p]) \in Nat
            <4>1. CASE p = q
                <5>1. Len(picksOf'[p]) = Len(picksOf[p]) + 1 /\ Len(picksOf[p]) \in Nat
                    BY <2>2, <3>3, <4>1
                <5>2. QED
                    BY <5>1
            <4>2. CASE p # q
                <5>1. picksOf'[p] = picksOf[p] /\ Len(picksOf[p]) \in Nat
                    BY <3>2, <3>3, <4>2
                <5>2. QED
                    BY <5>1
            <4>3. QED
                BY <4>1, <4>2
        <3>5. QED
            BY <3>2, <3>4
    <2>6. Len(picksOf'[q]) = Len(picksOf[q]) + 1
        BY <2>1, <2>2, <2>3 DEF PredictionTypes, PredictionInv
    <2>7. \A r \in PickSaves : pickSaves'[r] = IF r = s THEN request ELSE pickSaves[r]
        BY <2>3 DEF PredictionTypes, PredictionInv
    <2>8. \A r \in PickSaves :
             /\ pickSaves'[r].step \in {"sent", "stored"} => pickSaves'[r].key \in PredictionPages
             /\ pickSaves'[r].step = "stored" => pickSaves'[r].version <= Len(picksOf'[pickSaves'[r].key])
        <3>1. \A r \in PickSaves : pickSaves[r] \in PickRequests
            BY DEF PredictionTypes, PredictionInv
        <3>2. \A r \in PickSaves : pickSaves[r].version \in Nat
            BY <3>1 DEF PickRequests
        <3>3. QED
            BY <2>1, <2>4, <2>5, <2>6, <2>7, <3>2 DEF VersionsAreStored, PredictionInv
    <2>9. \A p \in PredictionPages : answered[p] \in Nat
        BY DEF PredictionTypes, PredictionInv
    <2>10. /\ picksResult \in PickResults /\ picksLoad.seen \in PickResults
        BY DEF PredictionTypes, PredictionInv
    <2>11. /\ picksResult' = picksResult /\ picksLoad' = picksLoad /\ answered' = answered
        BY DEF StorePick
    <2>12. picksResult # NoResult => picksResult.version <= Len(picksOf'[picksResult.key])
        BY <2>5, <2>10, ResultIsKnown DEF VersionsAreStored, PredictionInv
    <2>13. picksLoad.seen # NoResult => picksLoad.seen.version <= Len(picksOf'[picksLoad.seen.key])
        BY <2>5, <2>10, ResultIsKnown DEF VersionsAreStored, PredictionInv
    <2>14. \A p \in PredictionPages : answered[p] <= Len(picksOf'[p])
        BY <2>5, <2>9 DEF VersionsAreStored, PredictionInv
    <2>15. QED
        BY <2>8, <2>11, <2>12, <2>13, <2>14 DEF VersionsAreStored
<1>3. CardIsOfTheData'
    BY SomeValues, PredictionScreenAssumption DEF StorePick, NotSavingPick, CardIsOfTheData,
       PredictionsShown, PredictionTypes, PredictionInv
<1>4. LoadIsOfThePage'
    BY SomeValues, PredictionScreenAssumption, ResultIsKnown DEF StorePick, NotSavingPick,
       LoadIsOfThePage, VersionsAreStored, PredictionTypes, PredictionInv
<1>5. SavedPickIsReadBack'
    BY SomeValues, PredictionScreenAssumption DEF StorePick, NotSavingPick,
       SavedPickIsReadBack, LoadIsOfThePage, PredictionsShown, PredictionTypes, PredictionInv
<1>6. QED
    BY <1>1, <1>2, <1>3, <1>4, <1>5 DEF PredictionInv

LEMMA PickSavedKeeps ==
  ASSUME PredictionInv, NEW s \in PickSaves, PickSaved(s)
  PROVE  PredictionInv'
<1>1. PredictionTypes'
    <2> DEFINE q == pickSaves[s].key
    <2>1. q \in PredictionPages /\ pickSaves[s].version \in Nat /\ pickSaves[s].version <= Len(picksOf[q])
        BY DEF PickSaved, VersionsAreStored, PickRequests, PredictionTypes, PredictionInv
    <2>2. picksResult \in PickResults /\ picksOf' = picksOf /\ predictionsKey' = predictionsKey
          /\ predictionsKey \in PredictionPages
        BY DEF PickSaved, PredictionTypes, PredictionInv
    <2>3. \/ picksResult' = picksResult
          \/ /\ picksResult.key = q
             /\ picksResult' = [picksResult EXCEPT !.version = pickSaves[s].version]
        BY DEF PickSaved
    <2>4. picksResult.key = q => picksResult \in [key : PredictionPages, open : BOOLEAN, version : Nat]
        BY <2>1, <2>2, ResultIsKnown DEF PickResults
    <2> HIDE DEF q
    <2>5. picksResult' \in PickResults
        BY <2>1, <2>2, <2>3, <2>4 DEF PickResults
    <2>6. picksResult' # NoResult => picksResult'.version <= Len(picksOf[picksResult'.key])
        BY <2>1, <2>2, <2>3, <2>4 DEF VersionsAreStored, PredictionInv
    <2>7. Rendered \in PickCards /\ (Rendered.phase = "shown" <=> PredictionsShown')
        BY <2>2, <2>5, <2>6, RenderedIsCard
    <2>8. Released(Rendered, s) \in PickCards /\ Released(Rendered, s).phase = Rendered.phase
        <3>1. PICK c \in PickCards : c = Rendered
            BY <2>7
        <3>2. Released(c, s) \in PickCards /\ Released(c, s).phase = c.phase
            BY DEF Released, PickCards
        <3>3. QED
            BY <3>1, <3>2 DEF Released
    <2>9. card' = Released(Rendered, s)
        BY DEF PickSaved
    <2>10. picksDue' = TRUE
        BY DEF PickSaved
    <2>11. picksDue' \in BOOLEAN
        BY <2>10, Zenon
    <2>12. pickSaves' \in [PickSaves -> PickRequests]
        <3>1. [NotSavingPick EXCEPT !.step = "over"] \in PickRequests
            BY SomeValues DEF PickRequests
        <3>2. QED
            BY <3>1 DEF PickSaved, PredictionTypes, PredictionInv
    <2>13. answered' \in [PredictionPages -> Nat]
        BY <2>1 DEF q, PickSaved, PredictionTypes, PredictionInv
    <2>14. QED
        BY <2>2, <2>5, <2>8, <2>9, <2>11, <2>12, <2>13 DEF PickSaved, PredictionTypes, PredictionInv
<1>2. VersionsAreStored'
    BY SomeValues, PredictionScreenAssumption DEF PickSaved, NotSavingPick, VersionsAreStored,
       PredictionTypes, PredictionInv
<1>3. CardIsOfTheData'
    <2> DEFINE q == pickSaves[s].key
    <2>1. q \in PredictionPages /\ pickSaves[s].version \in Nat /\ pickSaves[s].version <= Len(picksOf[q])
        BY DEF PickSaved, VersionsAreStored, PickRequests, PredictionTypes, PredictionInv
    <2>2. picksResult \in PickResults /\ picksOf' = picksOf /\ predictionsKey' = predictionsKey
          /\ predictionsKey \in PredictionPages
        BY DEF PickSaved, PredictionTypes, PredictionInv
    <2>3. \/ picksResult' = picksResult
          \/ /\ picksResult.key = q
             /\ picksResult' = [picksResult EXCEPT !.version = pickSaves[s].version]
        BY DEF PickSaved
    <2>4. picksResult.key = q => picksResult \in [key : PredictionPages, open : BOOLEAN, version : Nat]
        BY <2>1, <2>2, ResultIsKnown DEF PickResults
    <2> HIDE DEF q
    <2>5. picksResult' \in PickResults
        BY <2>1, <2>2, <2>3, <2>4 DEF PickResults
    <2>6. picksResult' # NoResult => picksResult'.version <= Len(picksOf[picksResult'.key])
        BY <2>1, <2>2, <2>3, <2>4 DEF VersionsAreStored, PredictionInv
    <2>7. Rendered \in PickCards /\ (Rendered.phase = "shown" <=> PredictionsShown')
        BY <2>2, <2>5, <2>6, RenderedIsCard
    <2>8. Released(Rendered, s) \in PickCards /\ Released(Rendered, s).phase = Rendered.phase
        <3>1. PICK c \in PickCards : c = Rendered
            BY <2>7
        <3>2. Released(c, s) \in PickCards /\ Released(c, s).phase = c.phase
            BY DEF Released, PickCards
        <3>3. QED
            BY <3>1, <3>2 DEF Released
    <2>9. card' = Released(Rendered, s)
        BY DEF PickSaved
    <2>10. QED
        BY <2>7, <2>8, <2>9 DEF CardIsOfTheData
<1>4. LoadIsOfThePage'
    BY SomeValues, PredictionScreenAssumption, ResultIsKnown DEF PickSaved, NotSavingPick,
       LoadIsOfThePage, VersionsAreStored, PredictionTypes, PredictionInv
<1>5. SavedPickIsReadBack'
    BY SomeValues, PredictionScreenAssumption DEF PickSaved, NotSavingPick,
       SavedPickIsReadBack, LoadIsOfThePage, PredictionsShown, PredictionTypes, PredictionInv
<1>6. QED
    BY <1>1, <1>2, <1>3, <1>4, <1>5 DEF PredictionInv

LEMMA PickNotSavedKeeps ==
  ASSUME PredictionInv, NEW s \in PickSaves, PickNotSaved(s)
  PROVE  PredictionInv'
<1>1. PredictionTypes'
    <2>1. [NotSavingPick EXCEPT !.step = "over"] \in PickRequests
        BY SomeValues DEF PickRequests
    <2>2. pickSaves' \in [PickSaves -> PickRequests]
        BY <2>1 DEF PickNotSaved, PredictionTypes, PredictionInv
    <2>3. card' \in PickCards
        BY DEF PickNotSaved, Released, PickCards, PredictionTypes, PredictionInv
    <2>4. QED
        BY <2>2, <2>3 DEF PickNotSaved, PredictionTypes, PredictionInv
<1>2. VersionsAreStored'
    BY SomeValues, PredictionScreenAssumption DEF PickNotSaved, NotSavingPick, Released,
       VersionsAreStored, PredictionTypes, PredictionInv
<1>3. CardIsOfTheData'
    BY SomeValues, PredictionScreenAssumption DEF PickNotSaved, NotSavingPick, Released,
       CardIsOfTheData, PredictionsShown, PredictionTypes, PredictionInv
<1>4. LoadIsOfThePage'
    BY SomeValues, PredictionScreenAssumption, ResultIsKnown DEF PickNotSaved, NotSavingPick,
       Released, LoadIsOfThePage, VersionsAreStored, PredictionTypes, PredictionInv
<1>5. SavedPickIsReadBack'
    BY SomeValues, PredictionScreenAssumption DEF PickNotSaved, NotSavingPick, Released,
       SavedPickIsReadBack, LoadIsOfThePage, PredictionsShown, PredictionTypes, PredictionInv
<1>6. QED
    BY <1>1, <1>2, <1>3, <1>4, <1>5 DEF PredictionInv

LEMMA VotingClosesKeeps ==
  ASSUME PredictionInv, NEW p \in PredictionPages, VotingCloses(p)
  PROVE  PredictionInv'
<1>1. PredictionTypes'
    BY SomeValues, PredictionScreenAssumption DEF VotingCloses, PredictionTypes, PredictionInv
<1>2. VersionsAreStored'
    BY SomeValues, PredictionScreenAssumption DEF VotingCloses, VersionsAreStored,
       PredictionTypes, PredictionInv
<1>3. CardIsOfTheData'
    BY SomeValues, PredictionScreenAssumption DEF VotingCloses, CardIsOfTheData,
       PredictionsShown, PredictionTypes, PredictionInv
<1>4. LoadIsOfThePage'
    BY SomeValues, PredictionScreenAssumption, ResultIsKnown DEF VotingCloses,
       LoadIsOfThePage, VersionsAreStored, PredictionTypes, PredictionInv
<1>5. SavedPickIsReadBack'
    BY SomeValues, PredictionScreenAssumption DEF VotingCloses, SavedPickIsReadBack,
       LoadIsOfThePage, PredictionsShown, PredictionTypes, PredictionInv
<1>6. QED
    BY <1>1, <1>2, <1>3, <1>4, <1>5 DEF PredictionInv

LEMMA PredictionStarts == PredictionScreenInit => PredictionInv
<1> SUFFICES ASSUME PredictionScreenInit PROVE PredictionInv
    OBVIOUS
<1>1. picksDue = TRUE
    BY DEF PredictionScreenInit
<1>2. picksDue \in BOOLEAN
    BY <1>1, Zenon
<1>3. <<>> \in Seq(FittingPicks) /\ Len(<<>>) = 0
    BY EmptySeq
<1>4. picksLoad \in [phase : {"none", "sent", "answered"}, seen : PickResults]
    BY SomeValues DEF PredictionScreenInit, NoPicksLoad
<1>5. PredictionTypes
    BY <1>2, <1>3, <1>4, SomeValues, PredictionScreenAssumption DEF PredictionScreenInit, PredictionTypes
<1>6. VersionsAreStored
    BY <1>3 DEF PredictionScreenInit, VersionsAreStored, NoPicksLoad, NotSavingPick
<1>7. CardIsOfTheData /\ LoadIsOfThePage /\ SavedPickIsReadBack
    BY <1>1, PredictionScreenAssumption DEF PredictionScreenInit, CardIsOfTheData, LoadIsOfThePage,
       SavedPickIsReadBack, PredictionsShown, Unmounted, NoResult, NoPicksLoad
<1>8. QED
    BY <1>5, <1>6, <1>7 DEF PredictionInv

LEMMA PredictionSteps == PredictionInv /\ [PredictionScreenNext]_predictionScreenVars => PredictionInv'
<1>1. ASSUME PredictionInv, PredictionScreenNext PROVE PredictionInv'
    BY <1>1, LoadPredictionsKeeps, ServePredictionsKeeps, PredictionsArriveKeeps, PredictionsFailKeeps,
       PredictionsAgainKeeps, ShowPredictionsKeeps, ChooseTeamKeeps, ChooseScoreKeeps, SubmitPickKeeps,
       StorePickKeeps, PickSavedKeeps, PickNotSavedKeeps, VotingClosesKeeps DEF PredictionScreenNext
<1>2. ASSUME PredictionInv, UNCHANGED predictionScreenVars PROVE PredictionInv'
    BY <1>2 DEF predictionScreenVars, PredictionInv, PredictionTypes, VersionsAreStored, CardIsOfTheData,
       LoadIsOfThePage, SavedPickIsReadBack, PredictionsShown
<1>3. QED
    BY <1>1, <1>2

\* Once nothing is on its way the page does not show an older pick than one it
\* was told of, in whatever order reads and saves are answered
\* (usePredictions.ts).
THEOREM SavedPickRead == PredictionScreenSpec => []SavedPickIsReadBack
<1>1. PredictionInv => SavedPickIsReadBack
    BY DEF PredictionInv
<1>2. QED
    BY <1>1, PredictionStarts, PredictionSteps, PTL DEF PredictionScreenSpec

\* A score that is stored, sent or drafted is one that its team wins
\* (PredictionCard.tsx).
THEOREM ScoresFit == PredictionScreenSpec => []ScoresFitTheirTeam
<1>1. ASSUME PredictionInv PROVE ScoresFitTheirTeam
    <2>1. card.draft \in FittingPicks /\ \A s \in PickSaves : pickSaves[s].pick \in FittingPicks
        BY <1>1 DEF PredictionInv, PredictionTypes, PickCards, PickRequests
    <2>2. QED
        BY <2>1 DEF ScoresFitTheirTeam, FittingPicks
<1>2. QED
    BY <1>1, PredictionStarts, PredictionSteps, PTL DEF PredictionScreenSpec

\* What a user is choosing is not lost to polls, failed saves and late answers
\* (PredictionCard.tsx).
THEOREM ChoiceKept == PredictionScreenSpec => ChoiceIsKept
<1>1. ASSUME PredictionInv, PredictionScreenNext, card.phase = "shown", card'.phase = "shown",
             predictionsKey' = predictionsKey, card'.open = card.open, ShownPick' = ShownPick,
             <<picksResult, picksLoad, picksDue, pickSaves>>' # <<picksResult, picksLoad, picksDue, pickSaves>>
      PROVE  card'.draft = card.draft
    <2>1. PredictionsShown
        BY <1>1 DEF PredictionInv, CardIsOfTheData
    <2>2. card \in PickCards
        BY <1>1 DEF PredictionInv, PredictionTypes
    <2>3. \A c : c = Rendered /\ c.phase = "shown" /\ c.open = card.open => c.draft = card.draft
        <3>1. SUFFICES ASSUME NEW c, c = Rendered, c.phase = "shown", c.open = card.open
                       PROVE  c.draft = card.draft
            OBVIOUS
        <3>2. PredictionsShown'
            BY <3>1 DEF Rendered, Unmounted
        <3>3. CASE card.open # picksResult'.open
            <4>1. c = NewCard'
                BY <3>1, <3>2, <3>3 DEF Rendered
            <4>2. c.open = picksResult'.open
                BY <4>1 DEF NewCard
            <4>3. QED
                BY <3>1, <3>3, <4>2
        <3>4. CASE card.open = picksResult'.open
            BY <1>1, <2>1, <3>1, <3>2, <3>4 DEF Rendered
        <3>5. QED
            BY <3>3, <3>4
    <2>4. \A d : ~ Edit(d)
        BY <1>1 DEF Edit
    <2>5. card' = card \/ card' = Rendered \/ (\E s \in PickSaves : card' = [card EXCEPT !.saving = s])
          \/ \E s \in PickSaves : card' = Released(Rendered, s) \/ card' = Released(card, s)
        BY <1>1, <2>4 DEF PredictionScreenNext, LoadPredictions, ServePredictions, PredictionsArrive,
           PredictionsFail, PredictionsAgain, ShowPredictions, ChooseTeam, ChooseScore, SubmitPick,
           StorePick, PickSaved, PickNotSaved, VotingCloses
    <2>6. \A c, s : Released(c, s).phase = c.phase /\ Released(c, s).open = c.open
                    /\ Released(c, s).draft = c.draft
        BY DEF Released
    <2>7. QED
        BY <1>1, <2>2, <2>3, <2>5, <2>6 DEF PickCards
<1>2. PredictionInv /\ [PredictionScreenNext]_predictionScreenVars =>
        [(/\ card.phase = "shown" /\ card'.phase = "shown"
          /\ predictionsKey' = predictionsKey /\ card'.open = card.open
          /\ ShownPick' = ShownPick
          /\ <<picksResult, picksLoad, picksDue, pickSaves>>'
                # <<picksResult, picksLoad, picksDue, pickSaves>>)
         => card'.draft = card.draft]_predictionScreenVars
    BY <1>1
<1>3. QED
    BY <1>2, PredictionStarts, PredictionSteps, PTL DEF PredictionScreenSpec, ChoiceIsKept

\* The predictions page: current picks, scores that fit, choices that stay.
THEOREM PredictionPageCorrect ==
  PredictionScreenSpec => [](SavedPickIsReadBack /\ ScoresFitTheirTeam) /\ ChoiceIsKept
    BY SavedPickRead, ScoresFit, ChoiceKept, PTL
=============================================================================
