-------------------------- MODULE SuggestionScreen --------------------------
(***************************************************************************)
(* The suggestion box of the web client: useSuggestion() and its reducer   *)
(* (apps/web/src/features/suggestions), with the buttons SuggestionForm    *)
(* offers in each status.  A suggestion is posted, then its status is      *)
(* polled until it is final or five polls in a row fail; a poll may be     *)
(* answered late, fail, or find the record gone.                           *)
(*                                                                         *)
(* "queued" stands for every status in progress but "retrying".  What the  *)
(* server does to a suggestion is SuggestionsService.                      *)
(***************************************************************************)
EXTENDS Naturals

CONSTANTS
    MaxPosts,        \* bound: suggestions posted
    MaxPollErrors,   \* MAX_CONSECUTIVE_POLL_ERRORS
    RetryDelay       \* nextRetryInSeconds of a suggestion that is retried

ASSUME SuggestionScreenAssumption ==
    MaxPosts \in Nat /\ MaxPollErrors \in Nat \ {0} /\ RetryDelay \in Nat

NoId == 0
SuggestionIds == 1..MaxPosts
InProgress == {"queued", "retrying"}
Final == {"confirmed", "failed"}

VARIABLES
    record,    \* id -> its status on the server; the ids are given in order
    posted,    \* suggestions the server has accepted
    view,      \* the state of the reducer
    post,      \* POST on its way: "none", "sent" or "accepted"
    poll,      \* GET on its way: the suggestion and the answer, if any
    pollTimer, \* the suggestion of pollTimerRef, or NoId
    current,   \* currentSuggestionIdRef
    pollErrors,\* consecutiveErrorsRef
    mounted

suggestionScreenVars == <<record, posted, view, post, poll, pollTimer, current,
                          pollErrors, mounted>>

Empty == [id |-> NoId, status |-> "idle", submitting |-> FALSE, countdown |-> 0]
NoPoll == [id |-> NoId, answer |-> "none"]

SuggestionScreenInit ==
    /\ record = [i \in SuggestionIds |-> "none"]
    /\ posted = 0
    /\ view = Empty
    /\ post = "none"
    /\ poll = NoPoll
    /\ pollTimer = NoId
    /\ current = NoId
    /\ pollErrors = 0
    /\ mounted = TRUE

-----------------------------------------------------------------------------
(* The server. *)

Progresses(i) ==
    /\ record[i] \in InProgress
    /\ \E s \in (InProgress \cup Final) \ {record[i]} :
           record' = [record EXCEPT ![i] = s]
    /\ UNCHANGED <<posted, view, post, poll, pollTimer, current, pollErrors,
                   mounted>>

\* The record of a final suggestion is dropped: a poll finds nothing.
RecordGoes(i) ==
    /\ record[i] \in Final
    /\ record' = [record EXCEPT ![i] = "gone"]
    /\ UNCHANGED <<posted, view, post, poll, pollTimer, current, pollErrors,
                   mounted>>

AcceptPost ==
    /\ post = "sent"
    /\ post' = "accepted"
    /\ posted' = posted + 1
    /\ record' = [record EXCEPT ![posted + 1] = "queued"]
    /\ UNCHANGED <<view, poll, pollTimer, current, pollErrors, mounted>>

AnswerPoll ==
    /\ poll.id # NoId /\ poll.answer = "none"
    /\ record[poll.id] # "gone"
    /\ poll' = [poll EXCEPT !.answer = record[poll.id]]
    /\ UNCHANGED <<record, posted, view, post, pollTimer, current, pollErrors,
                   mounted>>

-----------------------------------------------------------------------------
(* The page. *)

\* The form accepts a submission unless one is in progress; a confirmed one
\* has to be put away first.
MaySubmit ==
    /\ mounted
    /\ view.status \notin InProgress \cup {"confirmed"}
    /\ ~view.submitting

\* The timers stop; whatever is on its way is aborted, which its catch sees.
Submit ==
    /\ MaySubmit /\ posted < MaxPosts
    /\ view' = [Empty EXCEPT !.submitting = TRUE]
    /\ post' = "sent"
    /\ pollTimer' = NoId
    /\ UNCHANGED <<record, posted, poll, current, pollErrors, mounted>>

\* startPolling().
PostArrives ==
    /\ post = "accepted" /\ mounted
    /\ view' = [view EXCEPT !.id = posted, !.status = "queued", !.submitting = FALSE]
    /\ post' = "none"
    /\ current' = posted
    /\ pollErrors' = 0
    /\ pollTimer' = posted
    /\ UNCHANGED <<record, posted, poll, mounted>>

\* Refused by the server or lost, before or after it was accepted.
PostFails ==
    /\ post # "none" /\ mounted
    /\ view' = [view EXCEPT !.status = "failed", !.submitting = FALSE]
    /\ post' = "none"
    /\ UNCHANGED <<record, posted, poll, pollTimer, current, pollErrors, mounted>>

PollTick ==
    /\ pollTimer # NoId
    /\ pollTimer' = NoId
    /\ poll' = IF mounted /\ current = pollTimer
               THEN [id |-> pollTimer, answer |-> "none"] ELSE poll
    /\ UNCHANGED <<record, posted, view, post, current, pollErrors, mounted>>

\* An answer for a page that is gone or shows another suggestion is ignored.
Expected == mounted /\ poll.id = current

\* STATUS_POLL_RESULT.
Showing(i, status) ==
    [id |-> i, status |-> status, submitting |-> FALSE,
     countdown |-> IF status = "retrying" THEN RetryDelay ELSE 0]

PollArrives ==
    /\ poll.answer # "none"
    /\ poll' = NoPoll
    /\ IF Expected
       THEN /\ view' = Showing(poll.id, poll.answer)
            /\ pollErrors' = 0
            /\ pollTimer' = IF poll.answer \in Final THEN NoId ELSE poll.id
       ELSE UNCHANGED <<view, pollErrors, pollTimer>>
    /\ UNCHANGED <<record, posted, post, current, mounted>>

PollFails ==
    /\ poll.id # NoId
    /\ poll' = NoPoll
    /\ IF Expected
       THEN /\ pollErrors' = pollErrors + 1
            /\ IF pollErrors + 1 >= MaxPollErrors
               THEN /\ view' = [view EXCEPT !.status = "failed", !.submitting = FALSE]
                    /\ pollTimer' = NoId
               ELSE pollTimer' = poll.id /\ UNCHANGED view
       ELSE UNCHANGED <<view, pollErrors, pollTimer>>
    /\ UNCHANGED <<record, posted, post, current, mounted>>

CountdownTick ==
    /\ mounted /\ view.status = "retrying" /\ view.countdown > 0
    /\ view' = [view EXCEPT !.countdown = @ - 1]
    /\ UNCHANGED <<record, posted, post, poll, pollTimer, current, pollErrors,
                   mounted>>

\* The buttons of a confirmed and of a failed suggestion.
Reset ==
    /\ mounted /\ view.status \in Final
    /\ view' = Empty
    /\ pollTimer' = NoId /\ current' = NoId /\ pollErrors' = 0
    /\ UNCHANGED <<record, posted, post, poll, mounted>>

\* The modal closes: timers and requests end, the suggestion goes on.
CloseModal ==
    /\ mounted
    /\ mounted' = FALSE
    /\ pollTimer' = NoId
    /\ UNCHANGED <<record, posted, view, post, poll, current, pollErrors>>

SuggestionScreenNext ==
    \/ AcceptPost \/ AnswerPoll
    \/ \E i \in SuggestionIds : Progresses(i) \/ RecordGoes(i)
    \/ Submit \/ PostArrives \/ PostFails
    \/ PollTick \/ PollArrives \/ PollFails
    \/ CountdownTick \/ Reset \/ CloseModal

SuggestionScreenSpec ==
    SuggestionScreenInit /\ [][SuggestionScreenNext]_suggestionScreenVars

-----------------------------------------------------------------------------

SuggestionScreenTypeOK ==
    /\ record \in [SuggestionIds -> InProgress \cup Final \cup {"none", "gone"}]
    /\ posted \in 0..MaxPosts
    /\ view \in [id : 0..MaxPosts, status : InProgress \cup Final \cup {"idle"},
                 submitting : BOOLEAN, countdown : 0..RetryDelay]
    /\ post \in {"none", "sent", "accepted"}
    /\ poll \in [id : 0..MaxPosts, answer : InProgress \cup Final \cup {"none"}]
    /\ pollTimer \in 0..MaxPosts /\ current \in 0..MaxPosts
    /\ pollErrors \in 0..MaxPollErrors
    /\ mounted \in BOOLEAN

\* While a suggestion is shown in progress exactly one thing is going to change
\* that (its next poll or the answer of the last one), and nothing polls for a
\* suggestion that is no longer shown: the page neither hangs nor polls twice.
OnePollerPerSuggestion ==
    mounted =>
        /\ view.status \in InProgress =>
               /\ view.id = current
               /\ {pollTimer, poll.id} = {view.id, NoId}
        /\ view.status \notin InProgress => pollTimer = NoId /\ poll.id = NoId

\* A suggestion is shown as confirmed only if it was, and as the last one that
\* was posted: no late answer about an earlier suggestion is taken for it.
ConfirmationIsReal ==
    view.status = "confirmed" =>
        record[view.id] \in {"confirmed", "gone"} /\ view.id = posted
=============================================================================
