------------------------- MODULE SuggestionsService -------------------------
(***************************************************************************)
(* The suggestions service and its in-memory store, on top of the Discord  *)
(* bridge client (apps/api/src/modules/suggestions/suggestions.service.ts  *)
(* and suggestion.store.ts).  Frame f of the bridge carries suggestion f.  *)
(*                                                                         *)
(* The service never calls the bridge except for send(); it reacts to the  *)
(* events the bridge emits within a step and to the promise of send().     *)
(* The reaction to a settled promise is a microtask of its own in the      *)
(* program; it only reads and writes the record of its suggestion, and no  *)
(* turn starts before it has run, so it is part of the settling step here. *)
(***************************************************************************)
EXTENDS DiscordBridgeClient, FiniteSets

CONSTANT MaxRecords \* maxRecords of the store

ASSUME StoreAssumption == MaxRecords \in Nat \ {0}

VARIABLES
    record,     \* status of each suggestion in the store
    published,  \* suggestions the bot has given its verdict on
    unanswered \* suggestions written on the connection that is up, not acknowledged

serviceVars == <<vars, record, published, unanswered>>

Suggestions == Frames
Progress == {"queued", "sending", "retrying", "processing"}
Terminal == {"confirmed", "failed"}
Live == Progress \cup Terminal
Statuses == Live \cup {"none", "expired"}

ServiceInit ==
    /\ Init
    /\ record = [f \in Suggestions |-> "none"]
    /\ published = {}
    /\ unanswered = {}

-----------------------------------------------------------------------------
(* The store.                                                              *)

\* Mutant: one record too many.
StoreHasCapacityOffByOne ==
    Cardinality({f \in Suggestions : record[f] \in Live}) <= MaxRecords

\* Records past their time to live are pruned before they are counted, so only
\* live ones count.
StoreHasCapacity ==
    Cardinality({f \in Suggestions : record[f] \in Live}) < MaxRecords

\* Mutant: a late event overwrites a final status.
AdvanceUnguarded(status, new) == IF status \in Live THEN new ELSE status

\* A progress update: it leaves final statuses and missing records alone.
Advance(status, new) == IF status \in Progress THEN new ELSE status

\* A final update: store.update() protects a final status only against a
\* progress status, not against the other final one.
Conclude(status, new) == IF status \in Live THEN new ELSE status

\* The record reaches its time to live, whatever its status.  All records live
\* equally long, so the oldest goes first.
Expire(f) ==
    /\ record[f] \in Live
    /\ \A g \in 1..(f-1) : record[g] \notin Live
    /\ record' = [record EXCEPT ![f] = "expired"]
    /\ UNCHANGED <<vars, published, unanswered>>

-----------------------------------------------------------------------------
(* The listeners and dispatchToBridge().                                   *)

Sent(f) == attempts'[f] > attempts[f]
Rejections == {"refused", "unavailable", "errored", "dropped", "limited", "closed"}

\* What the bot knows of a connection is gone with it.
NoteWrites ==
    unanswered' = IF link' = "ready"
                  THEN (unanswered \cup {f \in Suggestions : Sent(f)}) \ acked'
                  ELSE {}

JustSettled(f, hows) == outcome'[f] # outcome[f] /\ outcome'[f] \in hows

\* Mutant: the catch of dispatchToBridge() does not touch the store.
OnRejectedForgotten(status) == status

OnRejected(status) == Conclude(status, "failed")

OnSending(status) == Advance(status, "sending")

\* The status of f after a step of the bridge: frame:sending was emitted, or
\* the promise of send() settled.
React(f) ==
    CASE JustSettled(f, {"resolved"}) -> Advance(record[f], "processing")
      [] JustSettled(f, Rejections)   -> OnRejected(record[f])
      [] Sent(f)                      -> OnSending(record[f])
      [] OTHER                        -> record[f]

BridgeTurn ==
    /\ Turn
    /\ record' = [f \in Suggestions |-> React(f)]
    /\ NoteWrites
    /\ UNCHANGED <<faults, published>>

\* frame:retrying names the head of the queue.
FrameRetrying(p) ==
    /\ RateLimited(p)
    /\ record' = [record EXCEPT ![Head(queue)] = Advance(@, "retrying")]
    /\ NoteWrites
    /\ UNCHANGED <<faults, published>>

\* submit() is accepted: the record is written and send() is called.  With the
\* store or the queue full it answers 503 and changes nothing.
Submit(f) ==
    /\ StoreHasCapacity /\ HasCapacity
    /\ \/ /\ SendRefused(f)
          /\ record' = [record EXCEPT ![f] = OnRejected("queued")]
       \/ /\ Send(f)
          /\ record' = [g \in Suggestions |->
                          IF g # f THEN React(g)
                          ELSE IF Sent(f) THEN "sending" ELSE "queued"]
    /\ NoteWrites
    /\ UNCHANGED <<faults, published>>

\* The bot, external: its verdict on a suggestion it was sent.  On one connection
\* it acknowledges a suggestion before it gives its verdict; over a reconnection
\* the acknowledgement may have been lost and the verdict come first.  The
\* listeners take a verdict whatever became of the promise of send(); one whose
\* record is gone changes nothing.
Verdict(f, status) ==
    /\ FrameArrives
    /\ attempts[f] > 0 /\ f \notin published
    /\ f \notin unanswered /\ record[f] \in Live
    /\ published' = published \cup {f}
    /\ record' = [record EXCEPT ![f] = Conclude(@, status)]
    /\ UNCHANGED <<vars, unanswered>>

ServiceNext ==
    \/ \E f \in Suggestions : Submit(f) \/ Expire(f)
    \/ \E f \in Suggestions, s \in Terminal : Verdict(f, s)
    \/ BridgeTurn
    \/ \E p \in Pauses : FrameRetrying(p)

ServiceSpec == ServiceInit /\ [][ServiceNext]_serviceVars

-----------------------------------------------------------------------------
(* Properties.                                                             *)

ServiceTypeOK ==
    /\ TypeOK
    /\ record \in [Suggestions -> Statuses]
    /\ published \subseteq Suggestions /\ unanswered \subseteq Suggestions
    /\ Cardinality({f \in Suggestions : record[f] \in Live}) <= MaxRecords

\* The status a client polls neither lags behind the delivery nor runs ahead of
\* it: once the bridge has decided a frame, its suggestion is processing, final
\* or expired; "processing" is shown for acknowledged ones only, "sending" and
\* "retrying" for the head of the queue only (unless its connection is lost).
StatusFollowsDelivery ==
    \A f \in Suggestions :
        /\ outcome[f] \notin {"new", "waiting"} =>
             record[f] \in {"processing", "confirmed", "failed", "expired"}
        /\ record[f] = "processing" => f \in acked
        /\ record[f] \in {"sending", "retrying"} /\ LinkOutlivesFrame =>
             queue # <<>> /\ Head(queue) = f

\* No late event takes a final status back to a progress status.  What the bot
\* has confirmed stays confirmed until it expires once its frame is acknowledged
\* or decided; the failure of the connection does not turn it into a failure.
NoWayBack ==
    [][\A f \in Suggestions :
         /\ record[f] \in Terminal => record'[f] \in Terminal \cup {"expired"}
         /\ record[f] = "confirmed" /\ (outcome[f] # "waiting" \/ (worker = "acked" /\ current = f)) =>
              record'[f] \in {"confirmed", "expired"}]_serviceVars

\* docs/api/suggestions/processing.md calls both final statuses definitive.
FailedIsFinal ==
    [][\A f \in Suggestions : record[f] = "failed" =>
         record'[f] \in {"failed", "expired"}]_serviceVars

\* The same for a confirmation, whatever became of the promise of send(): the
\* document calls "confirmed" a definitive success.
ConfirmedIsFinal ==
    [][\A f \in Suggestions : record[f] = "confirmed" =>
         record'[f] \in {"confirmed", "expired"}]_serviceVars
=============================================================================
