--------------------------- MODULE FrameDelivery ---------------------------
(***************************************************************************)
(* What send() of the Discord bridge client promises its callers, with no  *)
(* socket, timer or pause in sight: a frame is refused at once or waits;   *)
(* every waiting frame is decided once; frames are decided in the order of *)
(* their send() calls, or all together when the connection cannot be made  *)
(* or the client is closed.                                                *)
(*                                                                         *)
(* The order is promised only when orderly: see LinkOutlivesFrame of       *)
(* DiscordBridgeClient.  A behaviour that is not may decide the waiting    *)
(* frames in any order, several of them together.                          *)
(***************************************************************************)
EXTENDS Naturals, FiniteSets

CONSTANTS MaxFrames, MaxQueueSize

VARIABLES
    status,  \* of each frame: new, refused, waiting, resolved or rejected
    open,    \* the client was not closed
    orderly  \* never changes

vars == <<status, open, orderly>>

Frames == 1..MaxFrames
Waiting == {f \in Frames : status[f] = "waiting"}

Init ==
    /\ status = [f \in Frames |-> "new"]
    /\ open = TRUE
    /\ orderly \in BOOLEAN

IsNext(f) == status[f] = "new" /\ \A g \in 1..(f-1) : status[g] # "new"

Accept(f) ==
    /\ open /\ IsNext(f)
    /\ orderly => Cardinality(Waiting) < MaxQueueSize
    /\ status' = [status EXCEPT ![f] = "waiting"]
    /\ UNCHANGED open

Refuse(f) ==
    /\ IsNext(f)
    /\ open => Cardinality(Waiting) >= MaxQueueSize
    /\ status' = [status EXCEPT ![f] = "refused"]
    /\ UNCHANGED open

\* The oldest waiting frame is decided by itself.
Decide(f) ==
    /\ f \in Waiting
    /\ orderly => \A g \in Waiting : f <= g
    /\ \E how \in {"resolved", "rejected"} : status' = [status EXCEPT ![f] = how]
    /\ UNCHANGED open

\* The waiting frames are rejected together.
RejectAll(S) ==
    /\ orderly => S = Waiting
    /\ status' = [f \in Frames |-> IF f \in S THEN "rejected" ELSE status[f]]

Fail == \E S \in SUBSET Waiting : RejectAll(S) /\ UNCHANGED open

Close == open /\ open' = FALSE /\ \E S \in SUBSET Waiting : RejectAll(S)

Next ==
    /\ \/ \E f \in Frames : Accept(f) \/ Refuse(f) \/ Decide(f)
       \/ Fail
       \/ Close
    /\ UNCHANGED orderly

Spec == Init /\ [][Next]_vars
=============================================================================
