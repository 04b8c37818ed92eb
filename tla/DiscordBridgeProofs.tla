------------------------ MODULE DiscordBridgeProofs ------------------------
(***************************************************************************)
(* Theorems about the bridge client, for every number of frames, queue     *)
(* size, retry budget, set of pauses and set of faults: the queue and the  *)
(* promises; the connection, the pauses and the retries; what holds while  *)
(* the link outlives the frame in flight; the client as an implementation  *)
(* of FrameDelivery; and the suggestions service, which is its one caller. *)
(***************************************************************************)
EXTENDS SuggestionsService, FiniteSetTheorems, SequenceTheorems, TLAPS

LEMMA ShiftType ==
    ASSUME NEW q \in Seq(Frames)
    PROVE  Shift(q) \in Seq(Frames) /\ Len(Shift(q)) <= Len(q)
BY DEF Shift

LEMMA PushType ==
    ASSUME TypeOK, NEW f \in Frames
    PROVE  /\ Push(f) \in Seq(Frames)
           /\ Push(f) # <<>>
           /\ Len(Push(f)) = Len(queue) + 1
           /\ \A i \in 1..Len(queue) : Push(f)[i] = queue[i]
           /\ Push(f)[Len(queue) + 1] = f
<1>1. queue \in Seq(Frames)
  BY DEF TypeOK
<1>2. /\ Append(queue, f) \in Seq(Frames) /\ Append(queue, f) # <<>>
      /\ Len(Append(queue, f)) = Len(queue) + 1
      /\ \A i \in 1..Len(queue) : Append(queue, f)[i] = queue[i]
      /\ Append(queue, f)[Len(queue) + 1] = f
  BY <1>1, AppendProperties
<1> QED
  BY <1>2 DEF Push

LEMMA HeadType ==
    ASSUME NEW q \in Seq(Frames), q # <<>>
    PROVE  Head(q) \in Frames
OBVIOUS

LEMMA TransmitType ==
    ASSUME TypeOK, NEW q \in Seq(Frames), q # <<>>, Transmit(q)
    PROVE  /\ worker' \in Workers
           /\ current' \in Frames \cup {NoFrame}
           /\ attempts' \in [Frames -> Nat]
           /\ idleArmed' \in BOOLEAN
<1>1. Head(q) \in Frames
  BY HeadType
<1> QED
  BY <1>1 DEF Transmit, TypeOK, Workers

LEMMA ProcessQueueType ==
    ASSUME TypeOK, NEW q \in Seq(Frames), ProcessQueue(q)
    PROVE  /\ worker' \in Workers
           /\ current' \in Frames \cup {NoFrame}
           /\ attempts' \in [Frames -> Nat]
           /\ link' \in Links
           /\ connecting' \in BOOLEAN
           /\ idleArmed' \in BOOLEAN
<1>1. CASE ~CanProcess(q) /\ UNCHANGED <<connection, job, attempts>>
  BY <1>1 DEF TypeOK, connection, job
<1>2. CASE CanProcess(q) /\ Transmit(q) /\ UNCHANGED <<link, connecting>>
  <2>1. q # <<>>
    BY <1>2 DEF CanProcess
  <2> QED
    BY <1>2, <2>1, TransmitType DEF TypeOK
<1>3. CASE Connect
  BY <1>3 DEF TypeOK, Connect, job, Links
<1> QED
  BY <1>1, <1>2, <1>3 DEF ProcessQueue

-----------------------------------------------------------------------------
(* Type correctness: one step per action.                                  *)

LEMMA ShrunkQueueType ==
    ASSUME TypeOK, NEW how, RejectQueue(how), how \in Outcomes
    PROVE  queue' \in Seq(Frames) /\ Len(queue') <= MaxQueueSize /\ outcome' \in [Frames -> Outcomes]
<1>1. MaxQueueSize \in Nat
  BY BridgeAssumption
<1>2. queue' = <<>> /\ Len(queue') = 0 /\ queue' \in Seq(Frames)
  BY DEF RejectQueue
<1>3. outcome' \in [Frames -> Outcomes]
  BY DEF RejectQueue, TypeOK
<1> QED
  BY <1>1, <1>2, <1>3

LEMMA FinishType ==
    ASSUME TypeOK, NEW how, Finish(how), how \in Outcomes
    PROVE  /\ queue' \in Seq(Frames) /\ Len(queue') <= MaxQueueSize
           /\ outcome' \in [Frames -> Outcomes]
           /\ worker' \in Workers
           /\ current' \in Frames \cup {NoFrame}
<1>1. queue' \in Seq(Frames) /\ Len(queue') <= Len(queue)
  BY ShiftType DEF Finish, TypeOK
<1>2. Len(queue') <= MaxQueueSize
  BY <1>1, BridgeAssumption DEF TypeOK
<1>3. outcome' \in [Frames -> Outcomes]
  BY DEF Finish, Settle, TypeOK
<1> QED
  BY <1>1, <1>2, <1>3 DEF Finish, Workers

\* Every step of the client, its bot and its network keeps every variable in
\* the range TypeOK gives it; above all the queue within maxQueueSize, which
\* send() checks before it pushes.
LEMMA TypeOKStep ==
    ASSUME TypeOK, [Next]_vars
    PROVE  TypeOK'
<1>0. faults' \subseteq FaultKinds
  BY DEF TypeOK, Next, vars
<1>1. ASSUME NEW f \in Frames, SendRefused(f)
      PROVE  TypeOK'
  BY <1>0, <1>1 DEF TypeOK, SendRefused, connection, job, Outcomes
<1>2. ASSUME NEW f \in Frames, Send(f)
      PROVE  TypeOK'
  <2>1. queue' \in Seq(Frames) /\ Len(queue') = Len(queue) + 1 /\ queue' # <<>>
    BY <1>2, PushType DEF Send
  <2>2. Len(queue') <= MaxQueueSize
    BY <1>2, <2>1, BridgeAssumption DEF Send, Accepts, HasCapacity, TypeOK
  <2>3. outcome' \in [Frames -> Outcomes]
    BY <1>2 DEF Send, TypeOK, Outcomes
  <2>4. CASE ProcessQueue(queue')
    BY <1>0, <1>2, <2>1, <2>2, <2>3, <2>4, ProcessQueueType DEF Send, TypeOK
  <2>5. CASE Connect
    <3>1. link' \in Links /\ connecting' \in BOOLEAN /\ UNCHANGED <<idleArmed, job, attempts>>
      BY <2>5 DEF Connect, TypeOK, Links
    <3> QED
      BY <1>0, <1>2, <2>1, <2>2, <2>3, <3>1 DEF Send, job, TypeOK
  <2> QED
    BY <1>2, <2>4, <2>5 DEF Send
<1>3. ASSUME NEW p \in Pauses, RateLimited(p)
      PROVE  TypeOK'
  <2>1. Head(queue) \in Frames
    BY <1>3, HeadType DEF RateLimited, TypeOK
  <2>2. Charge(Head(queue), p) \in 0..MaxRetry
    BY <2>1, BridgeAssumption DEF Charge, TypeOK
  <2>3. elapsed' \in [Frames -> 0..MaxRetry]
    BY <1>3, <2>1, <2>2 DEF RateLimited, TypeOK
  <2> QED
    BY <1>0, <1>3, <2>3 DEF RateLimited, TypeOK, connection, Workers, Settled
<1>4. CASE Close
  BY <1>0, <1>4, ShrunkQueueType DEF Close, Interrupt, TypeOK, Outcomes, Links, Workers, Settled
<1>5. CASE SocketOpens
  BY <1>0, <1>5 DEF SocketOpens, TypeOK, ledger, job, Links
<1>6. CASE LoginSuccess
  <2>1. CASE CanProcess(queue)
    <3>1. queue # <<>> /\ Transmit(queue)
      BY <1>6, <2>1 DEF LoginSuccess, CanProcess
    <3> QED
      BY <1>0, <1>6, <3>1, TransmitType DEF LoginSuccess, TypeOK, Links
  <2>2. CASE ~CanProcess(queue)
    BY <1>0, <1>6, <2>2 DEF LoginSuccess, TypeOK, job, Links
  <2> QED
    BY <2>1, <2>2
<1>7. CASE AttemptFails
  BY <1>0, <1>7, ShrunkQueueType DEF AttemptFails, TypeOK, job, Links, Outcomes
<1>8. CASE PeerGone
  BY <1>0, <1>8 DEF PeerGone, TypeOK, ledger, job, Links
<1>9. CASE Disconnect
  BY <1>0, <1>9 DEF Disconnect, Interrupt, TypeOK, ledger, Links, Workers, Settled
<1>10. CASE IdleTimeout
  BY <1>0, <1>10 DEF IdleTimeout, TypeOK, ledger, job, Links
<1>11. ASSUME NEW f \in Frames, QueuedFrame(f)
       PROVE  TypeOK'
  BY <1>0, <1>11 DEF QueuedFrame, TypeOK, connection, Workers, Settled
<1>12. CASE ErrorFrame
  BY <1>0, <1>12 DEF ErrorFrame, TypeOK, ledger, connection, Workers, Settled
<1>13. CASE ResumeAcked
  <2>1. Finish("resolved") /\ kick' \in BOOLEAN
    BY <1>13 DEF ResumeAcked
  <2> QED
    BY <1>0, <1>13, <2>1, FinishType DEF ResumeAcked, Finish, TypeOK, connection, Outcomes
<1>14. CASE ResumeFailed
  <2>1. PICK how \in {"errored", "dropped"} : Finish(how)
    BY <1>14 DEF ResumeFailed
  <2>2. kick' \in BOOLEAN
    BY <1>14 DEF ResumeFailed, MoreWork
  <2> QED
    BY <1>0, <1>14, <2>1, <2>2, FinishType DEF ResumeFailed, Finish, TypeOK, connection, Outcomes
<1>15. CASE ResumeLimited
  BY <1>0, <1>15 DEF ResumeLimited, TypeOK, ledger, connection, Workers
<1>16. CASE RunKick
  BY <1>0, <1>16, ProcessQueueType DEF RunKick, TypeOK
<1>17. CASE WakeAndGiveUp
  <2>1. Finish("limited") /\ kick' \in BOOLEAN
    BY <1>17 DEF WakeAndGiveUp, MoreWork
  <2> QED
    BY <1>0, <1>17, <2>1, FinishType DEF WakeAndGiveUp, Unpause, Finish, TypeOK, connection, Outcomes
<1>18. CASE WakeAndRetry
  BY <1>0, <1>18 DEF WakeAndRetry, Unpause, MoreWork, TypeOK, ledger, connection, Workers
<1>19. CASE UNCHANGED vars
  BY <1>19 DEF TypeOK, vars, ledger, connection, job
<1> QED
  BY <1>1, <1>2, <1>3, <1>4, <1>5, <1>6, <1>7, <1>8, <1>9, <1>10, <1>11, <1>12, <1>13,
     <1>14, <1>15, <1>16, <1>17, <1>18, <1>19
     DEF Next, Step, Turn, Microtask, Wake, ConnectError, ConnectTimeout

LEMMA InitType ==
    ASSUME Init
    PROVE  TypeOK
<1>1. queue \in Seq(Frames) /\ Len(queue) <= MaxQueueSize
  BY BridgeAssumption DEF Init
<1>2. /\ outcome \in [Frames -> Outcomes]
      /\ elapsed \in [Frames -> 0..MaxRetry]
      /\ attempts \in [Frames -> Nat]
  BY BridgeAssumption DEF Init, Outcomes
<1> QED
  BY <1>1, <1>2 DEF Init, TypeOK, Links, Workers

\* In every behaviour of the client each variable stays in its range: the queue
\* never outgrows maxQueueSize, no frame is charged more than the retry budget.
THEOREM TypeCorrect == Spec => []TypeOK
BY InitType, TypeOKStep, PTL DEF Spec

-----------------------------------------------------------------------------
(* One frame on the wire.  The invariant says who is in the queue, that the *)
(* worker serves a frame that was written, and that an undecided frame that *)
(* was written is both the head of the queue and the frame of the worker.   *)

Increasing(q) == \A i, j \in 1..Len(q) : i < j => q[i] < q[j]

QueueHoldsWaiting == \A i \in 1..Len(queue) : outcome[queue[i]] = "waiting"

CallsInOrder ==
    \A f \in Frames : \A g \in 1..(f-1) : outcome[f] # "new" => outcome[g] # "new"

NewIsUnwritten == \A f \in Frames : outcome[f] = "new" => attempts[f] = 0

WorkerHasFrame == worker # "idle" => current \in Frames /\ attempts[current] > 0

OnWire(f) == outcome[f] = "waiting" /\ attempts[f] > 0

WireIsHead ==
    \A f \in Frames : OnWire(f) =>
        /\ queue # <<>> /\ Head(queue) = f
        /\ worker = "idle" \/ current = f

WireInv ==
    /\ QueueHoldsWaiting
    /\ Increasing(queue)
    /\ CallsInOrder
    /\ NewIsUnwritten
    /\ WorkerHasFrame
    /\ WireIsHead

\* A step that leaves the queue, the promises and the writes alone, and the
\* worker with its frame unless it becomes idle.
LEMMA QuietKeepsWire ==
    ASSUME TypeOK, WireInv, UNCHANGED <<queue, outcome, attempts>>,
           worker' = "idle" \/ (worker # "idle" /\ current' = current)
    PROVE  WireInv'
<1>1. QueueHoldsWaiting' /\ Increasing(queue)' /\ CallsInOrder' /\ NewIsUnwritten'
  BY DEF WireInv, QueueHoldsWaiting, Increasing, CallsInOrder, NewIsUnwritten
<1>2. WorkerHasFrame' /\ WireIsHead'
  BY DEF WireInv, WorkerHasFrame, WireIsHead, OnWire
<1> QED
  BY <1>1, <1>2 DEF WireInv

LEMMA HeadIsFirst ==
    ASSUME NEW q \in Seq(Frames), q # <<>>
    PROVE  Head(q) = q[1] /\ 1 \in 1..Len(q) /\ Head(q) \in Frames
OBVIOUS

\* Writing the head of the queue.
LEMMA TransmitKeepsWire ==
    ASSUME TypeOK, WireInv, worker = "idle", queue # <<>>, Transmit(queue),
           UNCHANGED <<queue, outcome>>
    PROVE  WireInv'
<1> DEFINE h == Head(queue)
<1>1. h = queue[1] /\ 1 \in 1..Len(queue) /\ h \in Frames
  BY HeadIsFirst DEF TypeOK
<1>2. attempts' = [attempts EXCEPT ![h] = @ + 1] /\ attempts \in [Frames -> Nat]
  BY DEF Transmit, TypeOK
<1>3. attempts'[h] > 0 /\ \A f \in Frames : f # h => attempts'[f] = attempts[f]
  BY <1>1, <1>2
<1>4. outcome[h] = "waiting"
  BY <1>1 DEF WireInv, QueueHoldsWaiting
<1>5. QueueHoldsWaiting' /\ Increasing(queue)' /\ CallsInOrder'
  BY DEF WireInv, QueueHoldsWaiting, Increasing, CallsInOrder
<1>6. NewIsUnwritten'
  BY <1>3, <1>4 DEF WireInv, NewIsUnwritten
<1>7. WorkerHasFrame'
  BY <1>1, <1>3 DEF Transmit, WorkerHasFrame
<1>8. WireIsHead'
  BY <1>3 DEF WireInv, WireIsHead, OnWire, Transmit
<1> QED
  BY <1>5, <1>6, <1>7, <1>8 DEF WireInv

LEMMA ProcessQueueKeepsWire ==
    ASSUME TypeOK, WireInv, ProcessQueue(queue), UNCHANGED <<queue, outcome>>
    PROVE  WireInv'
<1>1. CASE ~CanProcess(queue) /\ UNCHANGED <<connection, job, attempts>>
  BY <1>1, QuietKeepsWire DEF job
<1>2. CASE CanProcess(queue) /\ Transmit(queue)
  BY <1>2, TransmitKeepsWire DEF CanProcess
<1>3. CASE Connect
  BY <1>3, QuietKeepsWire DEF Connect, job
<1> QED
  BY <1>1, <1>2, <1>3 DEF ProcessQueue

\* Rejecting the whole queue takes the frame on the wire with it.
LEMMA RejectKeepsWire ==
    ASSUME TypeOK, WireInv, NEW how \in Outcomes \ {"new", "waiting"}, RejectQueue(how),
           UNCHANGED attempts, worker' = "idle" \/ (worker # "idle" /\ current' = current)
    PROVE  WireInv'
<1>1. queue' = <<>> /\ Len(queue') = 0
  BY DEF RejectQueue
<1>2. \A f \in Frames :
        outcome'[f] = IF Queued(f) /\ outcome[f] = "waiting" THEN how ELSE outcome[f]
  BY DEF RejectQueue
<1>3. \A f \in Frames : outcome'[f] = "new" <=> outcome[f] = "new"
  BY <1>2
<1>4. \A f \in Frames : outcome'[f] = "waiting" => outcome[f] = "waiting" /\ ~Queued(f)
  BY <1>2
<1>5. \A f \in Frames : OnWire(f) => Queued(f)
  <2>1. queue # <<>> => Head(queue) = queue[1] /\ 1 \in DOMAIN queue
    BY HeadIsFirst DEF TypeOK
  <2> QED
    BY <2>1 DEF WireInv, WireIsHead, Queued
<1>6. QueueHoldsWaiting' /\ Increasing(queue)'
  BY <1>1 DEF QueueHoldsWaiting, Increasing
<1>7. CallsInOrder'
  BY <1>3, BridgeAssumption DEF WireInv, CallsInOrder, Frames
<1>8. NewIsUnwritten' /\ WorkerHasFrame'
  BY <1>3 DEF WireInv, NewIsUnwritten, WorkerHasFrame
<1>9. WireIsHead'
  BY <1>4, <1>5 DEF WireIsHead, OnWire
<1> QED
  BY <1>6, <1>7, <1>8, <1>9 DEF WireInv

LEMMA TailOfIncreasing ==
    ASSUME NEW q \in Seq(Frames), q # <<>>, Increasing(q)
    PROVE  /\ Increasing(Tail(q))
           /\ \A i \in 1..Len(Tail(q)) : Tail(q)[i] # Head(q) /\ i + 1 \in 1..Len(q)
                                           /\ Tail(q)[i] = q[i + 1]
<1>1. /\ Tail(q) \in Seq(Frames) /\ Len(Tail(q)) = Len(q) - 1 /\ Len(q) \in Nat
      /\ \A i \in 1..Len(Tail(q)) : Tail(q)[i] = q[i + 1]
  BY HeadTailProperties, LenProperties
<1>2. \A i \in 1..Len(Tail(q)) : i + 1 \in 1..Len(q) /\ 1 < i + 1
  BY <1>1
<1>3. Increasing(Tail(q))
  <2> SUFFICES ASSUME NEW i \in 1..Len(Tail(q)), NEW j \in 1..Len(Tail(q)), i < j
               PROVE  Tail(q)[i] < Tail(q)[j]
    BY DEF Increasing
  <2>1. q[i + 1] < q[j + 1]
    BY <1>2 DEF Increasing
  <2> QED
    BY <1>1, <2>1
<1>4. \A i \in 1..Len(q) : q[i] \in 1..MaxFrames
  BY ElementOfSeq DEF Frames
<1>5. Head(q) = q[1] /\ 1 \in 1..Len(q)
  BY HeadIsFirst
<1>6. \A i \in 1..Len(Tail(q)) : Tail(q)[i] # Head(q)
  BY <1>1, <1>2, <1>4, <1>5 DEF Increasing
<1> QED
  BY <1>1, <1>2, <1>3, <1>6

\* Dropping the first frame of the queue and settling the frame in flight: the
\* only frame on the wire is both.
LEMMA FinishKeepsWire ==
    ASSUME TypeOK, WireInv, worker # "idle",
           NEW how \in Outcomes \ {"new", "waiting"}, Finish(how)
    PROVE  WireInv'
<1>1. current \in Frames /\ attempts[current] > 0
  BY DEF WireInv, WorkerHasFrame
<1>2. \A f \in Frames : outcome'[f] = IF f = current /\ outcome[f] = "waiting"
                                       THEN how ELSE outcome[f]
  BY <1>1 DEF Finish, Settle, TypeOK
<1>3. \A f \in Frames : outcome'[f] = "new" <=> outcome[f] = "new"
  BY <1>2
<1>4. \A f \in Frames : outcome[f] = "waiting" /\ f # current => outcome'[f] = "waiting"
  BY <1>2
<1>5. QueueHoldsWaiting' /\ Increasing(queue)'
  <2>1. CASE queue = <<>>
    <3>1. queue' = <<>> /\ Len(queue') = 0
      BY <2>1 DEF Finish, Shift
    <3> QED
      BY <3>1 DEF QueueHoldsWaiting, Increasing
  <2>2. CASE queue # <<>>
    <3>1. queue' = Tail(queue) /\ queue \in Seq(Frames)
      BY <2>2 DEF Finish, Shift, TypeOK
    <3>2. Increasing(queue')
      BY <2>2, <3>1, TailOfIncreasing DEF WireInv
    <3>3. ASSUME NEW i \in 1..Len(queue')
          PROVE  outcome'[queue'[i]] = "waiting"
      <4>1. queue'[i] # Head(queue) /\ i + 1 \in 1..Len(queue) /\ queue'[i] = queue[i + 1]
        BY <2>2, <3>1, <3>3, TailOfIncreasing DEF WireInv
      <4>2. outcome[queue[i + 1]] = "waiting" /\ queue[i + 1] \in Frames
        BY <3>1, <4>1, ElementOfSeq DEF WireInv, QueueHoldsWaiting
      <4>3. outcome[current] = "waiting" => Head(queue) = current
        BY <1>1 DEF WireInv, WireIsHead, OnWire
      <4> QED
        BY <1>4, <4>1, <4>2, <4>3
    <3> QED
      BY <3>2, <3>3 DEF QueueHoldsWaiting, Increasing
  <2> QED
    BY <2>1, <2>2
<1>6. CallsInOrder'
  BY <1>3, BridgeAssumption DEF WireInv, CallsInOrder, Frames
<1>7. attempts' = attempts /\ worker' = "idle"
  BY DEF Finish
<1>8. NewIsUnwritten' /\ WorkerHasFrame'
  BY <1>3, <1>7 DEF WireInv, NewIsUnwritten, WorkerHasFrame
<1>9. WireIsHead'
  <2>1. \A f \in Frames : OnWire(f) => f = current
    BY DEF WireInv, WireIsHead
  <2> QED
    BY <1>2, <1>7, <2>1 DEF WireIsHead, OnWire
<1> QED
  BY <1>5, <1>6, <1>8, <1>9 DEF WireInv

\* An accepted frame goes to the end of the queue and is not written yet.
LEMMA PushKeepsWire ==
    ASSUME TypeOK, WireInv, NEW f \in Frames, IsNext(f),
           queue' = Push(f), outcome' = [outcome EXCEPT ![f] = "waiting"]
    PROVE  /\ \A i \in 1..Len(queue') : outcome'[queue'[i]] = "waiting"
           /\ Increasing(queue)'
           /\ \A e \in Frames : \A g \in 1..(e-1) : outcome'[e] # "new" => outcome'[g] # "new"
           /\ \A g \in Frames : outcome'[g] = "new" => attempts[g] = 0
           /\ \A g \in Frames : outcome'[g] = "waiting" /\ attempts[g] > 0 =>
                 queue' # <<>> /\ Head(queue') = g /\ (worker = "idle" \/ current = g)
<1>1. /\ queue' \in Seq(Frames) /\ queue' # <<>> /\ Len(queue') = Len(queue) + 1
      /\ \A i \in 1..Len(queue) : queue'[i] = queue[i]
      /\ queue'[Len(queue) + 1] = f
      /\ Len(queue) \in Nat
  BY PushType, LenProperties DEF TypeOK
<1>2. /\ outcome'[f] = "waiting"
      /\ \A g \in Frames : g # f => outcome'[g] = outcome[g]
  BY DEF TypeOK
<1>3. outcome[f] = "new" /\ attempts[f] = 0 /\ \A g \in 1..(f-1) : outcome[g] # "new"
  BY DEF IsNext, WireInv, NewIsUnwritten
<1>4. \A i \in 1..Len(queue) : queue[i] \in Frames /\ outcome[queue[i]] = "waiting"
  BY ElementOfSeq DEF TypeOK, WireInv, QueueHoldsWaiting
<1>5. \A i \in 1..Len(queue') : outcome'[queue'[i]] = "waiting"
  BY <1>1, <1>2, <1>4
<1>6. ASSUME NEW i \in 1..Len(queue)
      PROVE  queue[i] < f
  <2>1. queue[i] \in Frames /\ outcome[queue[i]] # "new"
    BY <1>4
  <2>2. queue[i] \in Int /\ f \in Int /\ f >= 1 /\ queue[i] >= 1
    BY <2>1 DEF Frames
  <2>3. ~(f \in 1..(queue[i] - 1))
    BY <1>3, <2>1 DEF WireInv, CallsInOrder
  <2> QED
    BY <1>3, <2>1, <2>2, <2>3
<1>7. Increasing(queue)'
  <2> SUFFICES ASSUME NEW i \in 1..Len(queue'), NEW j \in 1..Len(queue'), i < j
               PROVE  queue'[i] < queue'[j]
    BY DEF Increasing
  <2>1. CASE j \in 1..Len(queue)
    BY <1>1, <2>1 DEF WireInv, Increasing
  <2>2. CASE j = Len(queue) + 1
    BY <1>1, <1>6, <2>2
  <2> QED
    BY <1>1, <2>1, <2>2
<1>8. ASSUME NEW e \in Frames, NEW g \in 1..(e-1), outcome'[e] # "new"
      PROVE  outcome'[g] # "new"
  <2>1. g \in Frames
    BY BridgeAssumption DEF Frames
  <2> QED
    BY <1>2, <1>3, <1>8, <2>1 DEF WireInv, CallsInOrder
<1>9. \A g \in Frames : outcome'[g] = "new" => attempts[g] = 0
  BY <1>2 DEF WireInv, NewIsUnwritten
<1>10. ASSUME NEW g \in Frames, outcome'[g] = "waiting", attempts[g] > 0
       PROVE  queue' # <<>> /\ Head(queue') = g /\ (worker = "idle" \/ current = g)
  <2>1. OnWire(g)
    BY <1>2, <1>3, <1>10 DEF OnWire
  <2>2. queue # <<>> /\ Head(queue) = g /\ (worker = "idle" \/ current = g)
    BY <2>1 DEF WireInv, WireIsHead
  <2>3. Head(queue') = Head(queue)
    BY <1>1, <2>2, HeadIsFirst DEF TypeOK
  <2> QED
    BY <1>1, <2>2, <2>3
<1> QED
  BY <1>5, <1>7, <1>8, <1>9, <1>10

LEMMA SendKeepsWire ==
    ASSUME TypeOK, WireInv, NEW f \in Frames, Send(f)
    PROVE  WireInv'
<1>1. queue' = Push(f) /\ outcome' = [outcome EXCEPT ![f] = "waiting"] /\ IsNext(f)
  BY DEF Send
<1>2. queue' \in Seq(Frames)
  BY <1>1, PushType
<1>3. /\ QueueHoldsWaiting' /\ Increasing(queue)' /\ CallsInOrder'
      /\ \A g \in Frames : outcome'[g] = "new" => attempts[g] = 0
      /\ \A g \in Frames : outcome'[g] = "waiting" /\ attempts[g] > 0 =>
            queue' # <<>> /\ Head(queue') = g /\ (worker = "idle" \/ current = g)
  BY <1>1, PushKeepsWire DEF QueueHoldsWaiting, CallsInOrder
<1>4. ASSUME UNCHANGED <<job, attempts>>
      PROVE  WireInv'
  <2>1. NewIsUnwritten' /\ WorkerHasFrame' /\ WireIsHead'
    BY <1>3, <1>4 DEF WireInv, NewIsUnwritten, WorkerHasFrame, WireIsHead, OnWire, job
  <2> QED
    BY <1>3, <2>1 DEF WireInv
<1>5. ASSUME CanProcess(queue'), Transmit(queue')
      PROVE  WireInv'
  <2> DEFINE h == Head(queue')
  <2>1. queue' # <<>> /\ worker = "idle"
    BY <1>5 DEF CanProcess
  <2>2. h = queue'[1] /\ 1 \in 1..Len(queue') /\ h \in Frames
    BY <1>2, <2>1, HeadIsFirst
  <2>3. attempts' = [attempts EXCEPT ![h] = @ + 1] /\ attempts \in [Frames -> Nat]
    BY <1>5 DEF Transmit, TypeOK
  <2>4. attempts'[h] > 0 /\ \A g \in Frames : g # h => attempts'[g] = attempts[g]
    BY <2>2, <2>3
  <2>5. outcome'[h] = "waiting"
    BY <1>3, <2>2 DEF QueueHoldsWaiting
  <2>6. current' = h /\ worker' = "awaiting"
    BY <1>5 DEF Transmit
  <2>7. NewIsUnwritten' /\ WorkerHasFrame'
    BY <1>3, <2>2, <2>4, <2>5, <2>6 DEF NewIsUnwritten, WorkerHasFrame
  <2>8. WireIsHead'
    BY <1>3, <2>1, <2>4, <2>6 DEF WireIsHead, OnWire
  <2> QED
    BY <1>3, <2>7, <2>8 DEF WireInv
<1> QED
  BY <1>4, <1>5 DEF Send, ProcessQueue, Connect

LEMMA SendRefusedKeepsWire ==
    ASSUME TypeOK, WireInv, NEW f \in Frames, SendRefused(f)
    PROVE  WireInv'
<1>1. /\ outcome[f] = "new" /\ \A g \in 1..(f-1) : outcome[g] # "new"
      /\ UNCHANGED <<queue, attempts, worker, current>>
  BY DEF SendRefused, IsNext, job
<1>2. /\ outcome'[f] = "refused"
      /\ \A g \in Frames : g # f => outcome'[g] = outcome[g]
  BY DEF SendRefused, TypeOK
<1>3. QueueHoldsWaiting'
  <2>1. \A i \in 1..Len(queue) : queue[i] \in Frames
    BY ElementOfSeq DEF TypeOK
  <2> QED
    BY <1>1, <1>2, <2>1 DEF WireInv, QueueHoldsWaiting
<1>4. ASSUME NEW e \in Frames, NEW g \in 1..(e-1), outcome'[e] # "new"
      PROVE  outcome'[g] # "new"
  <2>1. g \in Frames
    BY BridgeAssumption DEF Frames
  <2> QED
    BY <1>1, <1>2, <1>4, <2>1 DEF WireInv, CallsInOrder
<1>5. Increasing(queue)' /\ WorkerHasFrame'
  BY <1>1 DEF WireInv, Increasing, WorkerHasFrame
<1>6. NewIsUnwritten' /\ WireIsHead'
  BY <1>1, <1>2 DEF WireInv, NewIsUnwritten, WireIsHead, OnWire
<1> QED
  BY <1>3, <1>4, <1>5, <1>6 DEF WireInv, CallsInOrder

LEMMA WireStep ==
    ASSUME TypeOK, WireInv, [Next]_vars
    PROVE  WireInv'
<1>1. ASSUME NEW f \in Frames, SendRefused(f)
      PROVE  WireInv'
  BY <1>1, SendRefusedKeepsWire
<1>2. ASSUME NEW f \in Frames, Send(f)
      PROVE  WireInv'
  BY <1>2, SendKeepsWire
<1>3. ASSUME NEW p \in Pauses, RateLimited(p)
      PROVE  WireInv'
  BY <1>3, QuietKeepsWire DEF RateLimited
<1>4. CASE Close
  BY <1>4, RejectKeepsWire DEF Close, Interrupt, Outcomes
<1>5. CASE SocketOpens
  BY <1>5, QuietKeepsWire DEF SocketOpens, ledger, job
<1>6. CASE LoginSuccess
  <2>1. CASE CanProcess(queue)
    BY <1>6, <2>1, TransmitKeepsWire DEF LoginSuccess, CanProcess
  <2>2. CASE ~CanProcess(queue)
    BY <1>6, <2>2, QuietKeepsWire DEF LoginSuccess, job
  <2> QED
    BY <2>1, <2>2
<1>7. CASE AttemptFails
  BY <1>7, RejectKeepsWire DEF AttemptFails, job, Outcomes
<1>8. CASE PeerGone
  BY <1>8, QuietKeepsWire DEF PeerGone, ledger, job
<1>9. CASE Disconnect
  BY <1>9, QuietKeepsWire DEF Disconnect, Interrupt, ledger
<1>10. CASE IdleTimeout
  BY <1>10, QuietKeepsWire DEF IdleTimeout, ledger, job
<1>11. ASSUME NEW f \in Frames, QueuedFrame(f)
       PROVE  WireInv'
  BY <1>11, QuietKeepsWire DEF QueuedFrame, Acknowledges
<1>12. CASE ErrorFrame
  BY <1>12, QuietKeepsWire DEF ErrorFrame, ledger
<1>13. CASE ResumeAcked
  BY <1>13, FinishKeepsWire DEF ResumeAcked, Outcomes
<1>14. CASE ResumeFailed
  BY <1>14, FinishKeepsWire DEF ResumeFailed, Outcomes
<1>15. CASE ResumeLimited
  BY <1>15, QuietKeepsWire DEF ResumeLimited, ledger
<1>16. CASE RunKick
  BY <1>16, ProcessQueueKeepsWire DEF RunKick
<1>17. CASE WakeAndGiveUp
  BY <1>17, FinishKeepsWire DEF WakeAndGiveUp, Outcomes
<1>18. CASE WakeAndRetry
  BY <1>18, QuietKeepsWire DEF WakeAndRetry, ledger
<1>19. CASE UNCHANGED vars
  BY <1>19, QuietKeepsWire DEF vars, ledger, job
<1> QED
  BY <1>1, <1>2, <1>3, <1>4, <1>5, <1>6, <1>7, <1>8, <1>9, <1>10, <1>11, <1>12, <1>13,
     <1>14, <1>15, <1>16, <1>17, <1>18, <1>19
     DEF Next, Step, Turn, Microtask, Wake, ConnectError, ConnectTimeout

LEMMA WireInit ==
    ASSUME Init
    PROVE  WireInv
<1>1. queue = <<>> /\ Len(queue) = 0 /\ worker = "idle"
      /\ \A f \in Frames : outcome[f] = "new" /\ attempts[f] = 0
  BY DEF Init
<1>2. QueueHoldsWaiting /\ Increasing(queue) /\ NewIsUnwritten /\ WorkerHasFrame /\ WireIsHead
  BY <1>1 DEF QueueHoldsWaiting, Increasing, NewIsUnwritten, WorkerHasFrame, WireIsHead, OnWire
<1>3. CallsInOrder
  BY <1>1 DEF CallsInOrder
<1> QED
  BY <1>2, <1>3 DEF WireInv

\* At most one frame is in the hands of the bot at any time, and it is the
\* head of the queue: whatever fails, whenever it fails.
THEOREM WireCorrect == Spec => []OneOnTheWire
<1>1. WireInv => OneOnTheWire
  BY DEF WireInv, WireIsHead, OnWire, OneOnTheWire
<1> QED
  BY <1>1, TypeCorrect, TypeOKStep, WireInit, WireStep, PTL DEF Spec

-----------------------------------------------------------------------------
(* The connection.                                                         *)

LinkInv ==
    /\ closed => link = "none" /\ ~connecting /\ queue = <<>> /\ worker # "awaiting"
    /\ link \in {"ready", "stale"} => ~connecting
    /\ link \in {"connecting", "login"} => connecting

PauseInv ==
    faults \cap {"Coalesced", "EarlyRateLimit"} = {} =>
        /\ paused => worker \in {"limited", "sleeping"}
        /\ link \in {"ready", "stale"} /\ worker = "idle" /\ ~kick /\ ~paused => queue = <<>>

\* The socket, the pending attempt and close() stay consistent.
LEMMA LinkStep ==
    ASSUME TypeOK, LinkInv, [Next]_vars
    PROVE  LinkInv'
<1>1. ASSUME NEW f \in Frames, SendRefused(f)
      PROVE  LinkInv'
  BY <1>1 DEF LinkInv, SendRefused, connection, job
<1>2. ASSUME NEW f \in Frames, Send(f)
      PROVE  LinkInv'
  <2>1. ~closed /\ ~closed' /\ kick' = kick
    BY <1>2 DEF Send, Accepts
  <2>2. CASE link \in {"ready", "stale"} /\ ProcessQueue(queue')
    BY <2>1, <2>2 DEF LinkInv, ProcessQueue, Transmit, Connect, connection
  <2>3. CASE link \notin {"ready", "stale"} /\ Connect
    BY <2>1, <2>3 DEF LinkInv, Connect
  <2> QED
    BY <1>2, <2>2, <2>3 DEF Send
<1>3. ASSUME NEW p \in Pauses, RateLimited(p)
      PROVE  LinkInv'
  BY <1>3 DEF LinkInv, RateLimited, connection
<1>4. CASE Close
  BY <1>4 DEF LinkInv, Close, RejectQueue, Interrupt
<1>5. CASE SocketOpens
  BY <1>5 DEF LinkInv, SocketOpens, ledger, job
<1>6. CASE LoginSuccess
  <2>1. link' = "ready" /\ connecting' = FALSE /\ UNCHANGED <<queue, closed>>
    BY <1>6 DEF LoginSuccess
  <2>2. ~closed
    BY <1>6 DEF LinkInv, LoginSuccess
  <2> QED
    BY <2>1, <2>2 DEF LinkInv
<1>7. CASE AttemptFails
  BY <1>7 DEF LinkInv, AttemptFails, RejectQueue, job
<1>8. CASE PeerGone
  BY <1>8 DEF LinkInv, PeerGone, ledger, job
<1>9. CASE Disconnect
  BY <1>9 DEF LinkInv, Disconnect, Interrupt, ledger
<1>10. CASE IdleTimeout
  BY <1>10 DEF LinkInv, IdleTimeout, ledger, job
<1>11. ASSUME NEW f \in Frames, QueuedFrame(f)
       PROVE  LinkInv'
  BY <1>11 DEF LinkInv, QueuedFrame, FrameArrives, connection
<1>12. CASE ErrorFrame
  BY <1>12 DEF LinkInv, ErrorFrame, ledger, connection
<1>13. CASE ResumeAcked
  BY <1>13 DEF LinkInv, ResumeAcked, Finish, Shift, connection
<1>14. CASE ResumeFailed
  BY <1>14 DEF LinkInv, ResumeFailed, Finish, Shift, connection
<1>15. CASE ResumeLimited
  BY <1>15 DEF LinkInv, ResumeLimited, ledger, connection
<1>16. CASE RunKick
  <2>1. UNCHANGED <<queue, closed>> /\ ProcessQueue(queue)
    BY <1>16 DEF RunKick
  <2> QED
    BY <2>1 DEF LinkInv, ProcessQueue, CanProcess, Transmit, Connect, connection, job
<1>17. CASE WakeAndGiveUp
  BY <1>17 DEF LinkInv, WakeAndGiveUp, Finish, Shift, connection
<1>18. CASE WakeAndRetry
  BY <1>18 DEF LinkInv, WakeAndRetry, ledger, connection
<1>19. CASE UNCHANGED vars
  BY <1>19 DEF LinkInv, vars, connection, job
<1> QED
  BY <1>1, <1>2, <1>3, <1>4, <1>5, <1>6, <1>7, <1>8, <1>9, <1>10, <1>11, <1>12, <1>13,
     <1>14, <1>15, <1>16, <1>17, <1>18, <1>19
     DEF Next, Step, Turn, Microtask, Wake, ConnectError, ConnectTimeout

LEMMA LinkCorrect == Spec => [](TypeOK /\ LinkInv)
<1>1. Init => LinkInv
  BY DEF Init, LinkInv
<1> QED
  BY <1>1, TypeCorrect, TypeOKStep, LinkStep, PTL DEF Spec

\* Once close() was called nothing reconnects, waits for the bot or sits in the
\* queue, whichever timers and microtasks it left behind.
THEOREM ClosedCorrect == Spec => []ClosedForGood
<1>1. LinkInv => ClosedForGood
  BY DEF LinkInv, ClosedForGood
<1> QED
  BY <1>1, LinkCorrect, PTL

-----------------------------------------------------------------------------
(* Acknowledgements.                                                       *)

AckInv ==
    /\ AckBeforeResolve
    /\ worker = "acked" => current \in acked

LEMMA AckStep ==
    ASSUME TypeOK, AckInv, [Next]_vars
    PROVE  AckInv'
<1>1. ASSUME NEW f \in Frames, SendRefused(f)
      PROVE  AckInv'
  <2>1. \A g \in Frames : outcome'[g] = "resolved" => outcome[g] = "resolved"
    BY <1>1 DEF SendRefused, TypeOK
  <2> QED
    BY <1>1, <2>1 DEF AckInv, AckBeforeResolve, SendRefused, job
<1>2. ASSUME NEW f \in Frames, Send(f)
      PROVE  AckInv'
  <2>1. \A g \in Frames : outcome'[g] = "resolved" => outcome[g] = "resolved"
    BY <1>2 DEF Send, TypeOK
  <2>2. acked' = acked /\ (worker' = "acked" => UNCHANGED <<worker, current>>)
    BY <1>2 DEF Send, ProcessQueue, Transmit, Connect, job
  <2> QED
    BY <2>1, <2>2 DEF AckInv, AckBeforeResolve
<1>3. ASSUME NEW p \in Pauses, RateLimited(p)
      PROVE  AckInv'
  BY <1>3 DEF AckInv, AckBeforeResolve, RateLimited, connection
<1>4. CASE Close
  BY <1>4 DEF AckInv, AckBeforeResolve, Close, RejectQueue, Interrupt
<1>5. CASE SocketOpens
  BY <1>5 DEF AckInv, AckBeforeResolve, SocketOpens, ledger, job
<1>6. CASE LoginSuccess
  <2>1. UNCHANGED <<outcome, acked>> /\ (worker' = "acked" => UNCHANGED <<worker, current>>)
    BY <1>6 DEF LoginSuccess, Transmit, job
  <2> QED
    BY <2>1 DEF AckInv, AckBeforeResolve
<1>7. CASE AttemptFails
  BY <1>7 DEF AckInv, AckBeforeResolve, AttemptFails, RejectQueue, job
<1>8. CASE PeerGone
  BY <1>8 DEF AckInv, AckBeforeResolve, PeerGone, ledger, job
<1>9. CASE Disconnect
  BY <1>9 DEF AckInv, AckBeforeResolve, Disconnect, Interrupt, ledger
<1>10. CASE IdleTimeout
  BY <1>10 DEF AckInv, AckBeforeResolve, IdleTimeout, ledger, job
<1>11. ASSUME NEW f \in Frames, QueuedFrame(f)
       PROVE  AckInv'
  BY <1>11 DEF AckInv, AckBeforeResolve, QueuedFrame, Acknowledges
<1>12. CASE ErrorFrame
  BY <1>12 DEF AckInv, AckBeforeResolve, ErrorFrame, ledger
<1>13. CASE ResumeAcked
  <2>1. \A f \in Frames : outcome'[f] = "resolved" => outcome[f] = "resolved" \/ f = current
    BY <1>13 DEF ResumeAcked, Finish, Settle, TypeOK
  <2> QED
    BY <1>13, <2>1 DEF AckInv, AckBeforeResolve, ResumeAcked, Finish
<1>14. CASE ResumeFailed
  <2>1. \A f \in Frames : outcome'[f] = "resolved" => outcome[f] = "resolved"
    BY <1>14 DEF ResumeFailed, Finish, Settle, TypeOK
  <2> QED
    BY <1>14, <2>1 DEF AckInv, AckBeforeResolve, ResumeFailed, Finish
<1>15. CASE ResumeLimited
  BY <1>15 DEF AckInv, AckBeforeResolve, ResumeLimited, ledger
<1>16. CASE RunKick
  <2>1. UNCHANGED <<outcome, acked>> /\ (worker' = "acked" => UNCHANGED <<worker, current>>)
    BY <1>16 DEF RunKick, ProcessQueue, Transmit, Connect, job
  <2> QED
    BY <2>1 DEF AckInv, AckBeforeResolve
<1>17. CASE WakeAndGiveUp
  <2>1. \A f \in Frames : outcome'[f] = "resolved" => outcome[f] = "resolved"
    BY <1>17 DEF WakeAndGiveUp, Finish, Settle, TypeOK
  <2> QED
    BY <1>17, <2>1 DEF AckInv, AckBeforeResolve, WakeAndGiveUp, Finish
<1>18. CASE WakeAndRetry
  BY <1>18 DEF AckInv, AckBeforeResolve, WakeAndRetry, ledger
<1>19. CASE UNCHANGED vars
  BY <1>19 DEF AckInv, AckBeforeResolve, vars, ledger, job
<1> QED
  BY <1>1, <1>2, <1>3, <1>4, <1>5, <1>6, <1>7, <1>8, <1>9, <1>10, <1>11, <1>12, <1>13,
     <1>14, <1>15, <1>16, <1>17, <1>18, <1>19
     DEF Next, Step, Turn, Microtask, Wake, ConnectError, ConnectTimeout

\* send() resolves only for a frame the bot itself acknowledged.
THEOREM AckCorrect == Spec => []AckBeforeResolve
<1>1. Init => AckInv
  BY DEF Init, AckInv, AckBeforeResolve
<1>2. AckInv => AckBeforeResolve
  BY DEF AckInv
<1> QED
  BY <1>1, <1>2, TypeCorrect, TypeOKStep, AckStep, PTL DEF Spec

-----------------------------------------------------------------------------
(* The pause.                                                              *)

LEMMA PauseStep ==
    ASSUME TypeOK, LinkInv, PauseInv, [Next]_vars
    PROVE  PauseInv'
<1>0. faults' = faults
  BY DEF Next, vars
<1>1. ASSUME NEW f \in Frames, SendRefused(f)
      PROVE  PauseInv'
  BY <1>0, <1>1 DEF PauseInv, SendRefused, connection, job
<1>2. ASSUME NEW f \in Frames, Send(f)
      PROVE  PauseInv'
  <2>1. UNCHANGED <<paused, kick>> /\ ~closed
    BY <1>2 DEF Send, Accepts
  <2>2. queue' # <<>>
    BY <1>2, PushType DEF Send
  <2>3. CASE link \in {"ready", "stale"} /\ ~CanProcess(queue') /\ UNCHANGED <<connection, job, attempts>>
    BY <1>0, <2>1, <2>2, <2>3 DEF PauseInv, CanProcess, connection, job
  <2>4. CASE link \in {"ready", "stale"} /\ CanProcess(queue') /\ Transmit(queue')
    BY <1>0, <2>1, <2>4 DEF PauseInv, CanProcess, Transmit
  <2>5. CASE Connect
    <3>1. link' \notin {"ready", "stale"} /\ UNCHANGED worker
      BY <2>5 DEF Connect, LinkInv, job
    <3> QED
      BY <1>0, <2>1, <3>1 DEF PauseInv
  <2> QED
    BY <1>2, <2>3, <2>4, <2>5 DEF Send, ProcessQueue
<1>3. ASSUME NEW p \in Pauses, RateLimited(p)
      PROVE  PauseInv'
  <2>1. ASSUME faults \cap {"Coalesced", "EarlyRateLimit"} = {}
        PROVE  worker \in {"awaiting", "sleeping"}
    <3>1. link = "ready" /\ ~kick /\ worker \notin Settled /\ queue # <<>>
      BY <1>3, <2>1 DEF RateLimited, FrameArrives
    <3> QED
      BY <1>0, <2>1, <3>1 DEF PauseInv, TypeOK, Workers
  <2> QED
    BY <1>0, <1>3, <2>1 DEF PauseInv, RateLimited
<1>4. CASE Close
  BY <1>0, <1>4 DEF PauseInv, Close, RejectQueue, Interrupt
<1>5. CASE SocketOpens
  BY <1>0, <1>5 DEF PauseInv, SocketOpens, ledger, job
<1>6. CASE LoginSuccess
  <2>1. UNCHANGED <<queue, paused, closed, kick>>
    BY <1>6 DEF LoginSuccess
  <2>2. CASE CanProcess(queue) /\ Transmit(queue)
    BY <1>0, <2>1, <2>2 DEF PauseInv, CanProcess, Transmit
  <2>3. CASE ~CanProcess(queue) /\ UNCHANGED job
    BY <1>0, <2>1, <2>3, <1>6 DEF PauseInv, LinkInv, CanProcess, LoginSuccess, job
  <2> QED
    BY <1>6, <2>2, <2>3 DEF LoginSuccess, job
<1>7. CASE AttemptFails
  BY <1>0, <1>7 DEF PauseInv, AttemptFails, RejectQueue, job
<1>8. CASE PeerGone
  BY <1>0, <1>8 DEF PauseInv, PeerGone, ledger, job
<1>9. CASE Disconnect
  BY <1>0, <1>9 DEF PauseInv, Disconnect, Interrupt, ledger
<1>10. CASE IdleTimeout
  BY <1>0, <1>10 DEF PauseInv, IdleTimeout, ledger, job
<1>11. ASSUME NEW f \in Frames, QueuedFrame(f)
       PROVE  PauseInv'
  BY <1>0, <1>11 DEF PauseInv, QueuedFrame, Acknowledges, connection
<1>12. CASE ErrorFrame
  BY <1>0, <1>12 DEF PauseInv, ErrorFrame, connection
<1>13. CASE ResumeAcked
  <2>1. UNCHANGED <<link, closed, paused>>
    BY <1>13 DEF ResumeAcked, Finish, connection
  <2>2. ~kick' => paused \/ closed \/ queue' = <<>>
    BY <1>13 DEF ResumeAcked, MoreWork
  <2> QED
    BY <1>0, <1>13, <2>1, <2>2 DEF PauseInv, LinkInv, ResumeAcked
<1>14. CASE ResumeFailed
  <2>1. UNCHANGED <<link, closed, paused>>
    BY <1>14 DEF ResumeFailed, Finish, connection
  <2>2. ~kick' => closed \/ queue' = <<>>
    BY <1>14 DEF ResumeFailed, MoreWork
  <2> QED
    BY <1>0, <1>14, <2>1, <2>2 DEF PauseInv, LinkInv, ResumeFailed
<1>15. CASE ResumeLimited
  BY <1>0, <1>15 DEF PauseInv, ResumeLimited, connection
<1>16. CASE RunKick
  <2>1. kick' = FALSE /\ UNCHANGED <<queue, paused, closed>> /\ ProcessQueue(queue)
    BY <1>16 DEF RunKick
  <2>2. CASE ~CanProcess(queue) /\ UNCHANGED <<connection, job, attempts>>
    BY <1>0, <2>1, <2>2 DEF PauseInv, LinkInv, CanProcess, connection, job
  <2>3. CASE CanProcess(queue) /\ Transmit(queue)
    BY <1>0, <2>1, <2>3 DEF PauseInv, CanProcess, Transmit
  <2>4. CASE CanProcess(queue) /\ Connect
    <3>1. link' \notin {"ready", "stale"} \/ (link = "ready" /\ connecting)
      BY <2>4 DEF Connect, LinkInv
    <3> QED
      BY <1>0, <2>1, <2>4, <3>1 DEF PauseInv, LinkInv, CanProcess, Connect, job
  <2> QED
    BY <2>1, <2>2, <2>3, <2>4 DEF ProcessQueue
<1>17. CASE WakeAndGiveUp
  <2>1. ~paused' /\ kick' = MoreWork /\ UNCHANGED <<link, closed>>
    BY <1>17 DEF WakeAndGiveUp, Unpause, Finish, connection
  <2> QED
    BY <1>0, <2>1 DEF PauseInv, LinkInv, MoreWork
<1>18. CASE WakeAndRetry
  <2>1. ~paused' /\ kick' = MoreWork /\ UNCHANGED <<link, closed>>
    BY <1>18 DEF WakeAndRetry, Unpause, connection
  <2> QED
    BY <1>0, <2>1 DEF PauseInv, LinkInv, MoreWork
<1>19. CASE UNCHANGED vars
  BY <1>0, <1>19 DEF PauseInv, vars, connection, job
<1> QED
  BY <1>1, <1>2, <1>3, <1>4, <1>5, <1>6, <1>7, <1>8, <1>9, <1>10, <1>11, <1>12, <1>13,
     <1>14, <1>15, <1>16, <1>17, <1>18, <1>19
     DEF Next, Step, Turn, Microtask, Wake, ConnectError, ConnectTimeout

\* As long as the bot neither answers LOGIN with a rate limit nor has several
\* frames emitted before a microtask runs, a paused queue has a worker that
\* will resume it.
THEOREM PauseCorrect == Spec => []PauseHasOwner
<1>1. Init => PauseInv
  BY DEF Init, PauseInv
<1>2. PauseInv => PauseHasOwner
  BY DEF PauseInv, PauseHasOwner
<1> QED
  BY <1>1, <1>2, LinkCorrect, TypeOKStep, LinkStep, PauseStep, PTL DEF Spec

-----------------------------------------------------------------------------
(* The retry budget.  While a frame is on the wire every write of it but    *)
(* the last has been charged, and the last one too once the worker sleeps   *)
(* or is idle.  An idle worker may write it again only below the budget.    *)

Charged(f) == attempts[f] <= elapsed[f]

BudgetInv ==
    \A f \in Frames :
        /\ attempts[f] <= MaxRetry
        /\ outcome[f] = "waiting" => attempts[f] <= elapsed[f] + 1
        /\ OnWire(f) /\ worker \in {"limited", "sleeping"} => Charged(f)
        /\ OnWire(f) /\ worker = "idle" => Charged(f) /\ (elapsed[f] < MaxRetry \/ paused)

\* A step that leaves the charges and the writes alone, decides frames or keeps
\* them, and makes the worker neither idle nor asleep.
LEMMA QuietKeepsBudget ==
    ASSUME BudgetInv, UNCHANGED <<elapsed, attempts, paused>>,
           \A f \in Frames : outcome'[f] = "waiting" => outcome[f] = "waiting" \/ attempts[f] = 0,
           worker' \in {worker, "awaiting", "acked", "failed", "dropped"},
           TypeOK
    PROVE  BudgetInv'
<1> SUFFICES ASSUME NEW f \in Frames
             PROVE  /\ attempts[f] <= MaxRetry
                    /\ outcome'[f] = "waiting" => attempts[f] <= elapsed[f] + 1
                    /\ outcome'[f] = "waiting" /\ attempts[f] > 0 /\ worker' \in {"limited", "sleeping"} =>
                          attempts[f] <= elapsed[f]
                    /\ outcome'[f] = "waiting" /\ attempts[f] > 0 /\ worker' = "idle" =>
                          attempts[f] <= elapsed[f] /\ (elapsed[f] < MaxRetry \/ paused)
  BY DEF BudgetInv, OnWire, Charged
<1>1. attempts[f] \in Nat /\ elapsed[f] \in Nat
  BY BridgeAssumption DEF TypeOK
<1> QED
  BY <1>1 DEF BudgetInv, OnWire, Charged

\* Writing a frame: a first write is within any budget, and a frame on the wire
\* is written again only below its budget.
LEMMA TransmitKeepsBudget ==
    ASSUME TypeOK, WireInv, BudgetInv, NEW q \in Seq(Frames), q # <<>>, Transmit(q),
           worker = "idle", ~paused, UNCHANGED elapsed,
           \A f \in Frames : outcome'[f] = "waiting" => outcome[f] = "waiting" \/ attempts[f] = 0,
           outcome[Head(q)] = "waiting" \/ attempts[Head(q)] = 0
    PROVE  BudgetInv'
<1>1. Head(q) \in Frames
  BY HeadIsFirst
<1>2. /\ attempts'[Head(q)] = attempts[Head(q)] + 1
      /\ \A f \in Frames : f # Head(q) => attempts'[f] = attempts[f]
      /\ worker' = "awaiting"
  BY <1>1 DEF Transmit, TypeOK
<1> SUFFICES ASSUME NEW f \in Frames
             PROVE  /\ attempts'[f] <= MaxRetry
                    /\ outcome'[f] = "waiting" => attempts'[f] <= elapsed[f] + 1
  BY <1>2 DEF BudgetInv, OnWire, Charged
<1>3. attempts[f] \in Nat /\ elapsed[f] \in Nat /\ MaxRetry \in Nat \ {0}
  BY BridgeAssumption DEF TypeOK
<1>4. CASE f = Head(q) /\ attempts[f] = 0
  BY <1>2, <1>3, <1>4
<1>5. CASE f = Head(q) /\ attempts[f] # 0
  <2>1. OnWire(f)
    BY <1>3, <1>5 DEF OnWire
  <2>2. attempts[f] <= elapsed[f] /\ elapsed[f] < MaxRetry
    BY <2>1 DEF BudgetInv, Charged
  <2> QED
    BY <1>2, <1>3, <1>5, <2>2
<1>6. CASE f # Head(q)
  BY <1>2, <1>3, <1>6 DEF BudgetInv
<1> QED
  BY <1>4, <1>5, <1>6

\* A settled frame leaves the wire, and no other frame is on it.
LEMMA FinishKeepsBudget ==
    ASSUME TypeOK, WireInv, BudgetInv, worker # "idle",
           NEW how \in Outcomes \ {"new", "waiting"}, Finish(how)
    PROVE  BudgetInv'
<1>1. \A f \in Frames : outcome'[f] = "waiting" => outcome[f] = "waiting" /\ f # current
  BY DEF Finish, Settle, TypeOK
<1>2. \A f \in Frames : outcome'[f] = "waiting" => attempts[f] = 0
  BY <1>1 DEF WireInv, WireIsHead, OnWire, TypeOK
<1>3. attempts' = attempts /\ elapsed' = elapsed
  BY DEF Finish
<1> SUFFICES ASSUME NEW f \in Frames
             PROVE  /\ attempts[f] <= MaxRetry
                    /\ outcome'[f] = "waiting" => attempts[f] <= elapsed[f] + 1
  BY <1>2, <1>3 DEF BudgetInv, OnWire, Charged
<1>4. elapsed[f] \in Nat
  BY BridgeAssumption DEF TypeOK
<1> QED
  BY <1>2, <1>4 DEF BudgetInv

LEMMA ProcessQueueKeepsBudget ==
    ASSUME TypeOK, WireInv, BudgetInv, ProcessQueue(queue), UNCHANGED <<outcome, elapsed, paused>>
    PROVE  BudgetInv'
<1>1. CASE ~CanProcess(queue) /\ UNCHANGED <<connection, job, attempts>>
  BY <1>1, QuietKeepsBudget DEF job
<1>2. CASE CanProcess(queue) /\ Transmit(queue)
  <2>1. queue # <<>> /\ outcome[Head(queue)] = "waiting"
    BY <1>2, HeadIsFirst DEF CanProcess, WireInv, QueueHoldsWaiting, TypeOK
  <2> QED
    BY <1>2, <2>1, TransmitKeepsBudget DEF CanProcess, TypeOK
<1>3. CASE Connect
  BY <1>3, QuietKeepsBudget DEF Connect, job
<1> QED
  BY <1>1, <1>2, <1>3 DEF ProcessQueue

LEMMA BudgetStep ==
    ASSUME TypeOK, WireInv, BudgetInv, [Next]_vars
    PROVE  BudgetInv'
<1>1. ASSUME NEW f \in Frames, SendRefused(f)
      PROVE  BudgetInv'
  <2>1. \A g \in Frames : outcome'[g] = "waiting" => outcome[g] = "waiting"
    BY <1>1 DEF SendRefused, TypeOK
  <2> QED
    BY <1>1, <2>1, QuietKeepsBudget DEF SendRefused, job
<1>2. ASSUME NEW f \in Frames, Send(f)
      PROVE  BudgetInv'
  <2>1. outcome[f] = "new" /\ attempts[f] = 0 /\ outcome' = [outcome EXCEPT ![f] = "waiting"]
    BY <1>2 DEF Send, IsNext, WireInv, NewIsUnwritten
  <2>2. \A g \in Frames : outcome'[g] = "waiting" => outcome[g] = "waiting" \/ attempts[g] = 0
    BY <2>1 DEF TypeOK
  <2>3. UNCHANGED <<elapsed, paused>>
    BY <1>2 DEF Send
  <2>4. CASE CanProcess(queue') /\ Transmit(queue')
    <3>1. queue' \in Seq(Frames) /\ queue' # <<>>
      BY <1>2, PushType DEF Send
    <3>2. outcome'[Head(queue')] = "waiting" /\ Head(queue') \in Frames
      BY <1>2, <3>1, SendKeepsWire, HeadIsFirst DEF WireInv, QueueHoldsWaiting
    <3> QED
      BY <2>2, <2>3, <2>4, <3>1, <3>2, TransmitKeepsBudget DEF CanProcess
  <2>5. CASE UNCHANGED <<job, attempts>>
    BY <2>2, <2>3, <2>5, QuietKeepsBudget DEF job
  <2> QED
    BY <1>2, <2>4, <2>5 DEF Send, ProcessQueue, Connect
<1>3. ASSUME NEW p \in Pauses, RateLimited(p)
      PROVE  BudgetInv'
  <2> DEFINE h == Head(queue)
  <2>1. h \in Frames /\ p \in Nat \ {0}
    BY <1>3, HeadIsFirst, BridgeAssumption DEF RateLimited, TypeOK
  <2>2. /\ elapsed'[h] = Charge(h, p)
        /\ \A f \in Frames : f # h => elapsed'[f] = elapsed[f]
    BY <1>3, <2>1 DEF RateLimited, TypeOK
  <2>3. UNCHANGED <<outcome, attempts>> /\ paused'
    BY <1>3 DEF RateLimited
  <2> SUFFICES ASSUME NEW f \in Frames
               PROVE  /\ attempts[f] <= MaxRetry
                      /\ outcome[f] = "waiting" => attempts[f] <= elapsed'[f] + 1
                      /\ OnWire(f) /\ worker' \in {"limited", "sleeping", "idle"} =>
                            attempts[f] <= elapsed'[f]
    BY <2>3 DEF BudgetInv, OnWire, Charged
  <2>4. attempts[f] \in Nat /\ elapsed[f] \in Nat /\ MaxRetry \in Nat \ {0} /\ elapsed[f] <= MaxRetry
    BY BridgeAssumption DEF TypeOK
  <2>5. CASE f = h
    <3>1. elapsed'[f] = IF elapsed[f] + p < MaxRetry THEN elapsed[f] + p ELSE MaxRetry
      BY <2>2, <2>5 DEF Charge
    <3> QED
      BY <2>1, <2>4, <3>1 DEF BudgetInv, OnWire
  <2>6. CASE f # h
    <3>1. ~OnWire(f) /\ elapsed'[f] = elapsed[f]
      BY <2>2, <2>6 DEF WireInv, WireIsHead
    <3> QED
      BY <2>4, <3>1 DEF BudgetInv
  <2> QED
    BY <2>5, <2>6
<1>4. CASE Close
  <2>1. \A f \in Frames : outcome'[f] = "waiting" => outcome[f] = "waiting"
    BY <1>4 DEF Close, RejectQueue
  <2> QED
    BY <1>4, <2>1, QuietKeepsBudget DEF Close, Interrupt
<1>5. CASE SocketOpens
  BY <1>5, QuietKeepsBudget DEF SocketOpens, ledger, job
<1>6. CASE LoginSuccess
  <2>1. UNCHANGED <<outcome, elapsed, paused>>
    BY <1>6 DEF LoginSuccess
  <2>2. CASE CanProcess(queue) /\ Transmit(queue)
    <3>1. queue # <<>> /\ outcome[Head(queue)] = "waiting"
      BY <2>2, HeadIsFirst DEF CanProcess, WireInv, QueueHoldsWaiting, TypeOK
    <3> QED
      BY <2>1, <2>2, <3>1, TransmitKeepsBudget DEF CanProcess, TypeOK
  <2>3. CASE UNCHANGED <<job, attempts>>
    BY <2>1, <2>3, QuietKeepsBudget DEF job
  <2> QED
    BY <1>6, <2>2, <2>3 DEF LoginSuccess
<1>7. CASE AttemptFails
  <2>1. \A f \in Frames : outcome'[f] = "waiting" => outcome[f] = "waiting"
    BY <1>7 DEF AttemptFails, RejectQueue
  <2> QED
    BY <1>7, <2>1, QuietKeepsBudget DEF AttemptFails, job
<1>8. CASE PeerGone
  BY <1>8, QuietKeepsBudget DEF PeerGone, ledger, job
<1>9. CASE Disconnect
  BY <1>9, QuietKeepsBudget DEF Disconnect, Interrupt, ledger
<1>10. CASE IdleTimeout
  BY <1>10, QuietKeepsBudget DEF IdleTimeout, ledger, job
<1>11. ASSUME NEW f \in Frames, QueuedFrame(f)
       PROVE  BudgetInv'
  BY <1>11, QuietKeepsBudget DEF QueuedFrame
<1>12. CASE ErrorFrame
  BY <1>12, QuietKeepsBudget DEF ErrorFrame, ledger
<1>13. CASE ResumeAcked
  BY <1>13, FinishKeepsBudget DEF ResumeAcked, Outcomes
<1>14. CASE ResumeFailed
  BY <1>14, FinishKeepsBudget DEF ResumeFailed, Outcomes
<1>15. CASE ResumeLimited
  <2>1. UNCHANGED ledger /\ UNCHANGED paused /\ worker = "limited" /\ worker' = "sleeping"
    BY <1>15 DEF ResumeLimited
  <2> QED
    BY <2>1 DEF BudgetInv, OnWire, Charged, ledger
<1>16. CASE RunKick
  BY <1>16, ProcessQueueKeepsBudget DEF RunKick
<1>17. CASE WakeAndGiveUp
  BY <1>17, FinishKeepsBudget DEF WakeAndGiveUp, Outcomes
<1>18. CASE WakeAndRetry
  <2>1. UNCHANGED ledger /\ worker = "sleeping" /\ worker' = "idle"
    BY <1>18 DEF WakeAndRetry
  <2>2. ASSUME NEW f \in Frames, OnWire(f)
        PROVE  Charged(f) /\ elapsed[f] < MaxRetry
    <3>1. f = current
      BY <2>1, <2>2 DEF WireInv, WireIsHead
    <3>2. ~(elapsed[f] >= MaxRetry) /\ elapsed[f] \in Nat /\ MaxRetry \in Nat
      BY <1>18, <3>1, BridgeAssumption DEF WakeAndRetry, GiveUp, TypeOK
    <3> QED
      BY <2>1, <2>2, <3>2 DEF BudgetInv
  <2> QED
    BY <2>1, <2>2 DEF BudgetInv, OnWire, Charged, ledger
<1>19. CASE UNCHANGED vars
  BY <1>19, QuietKeepsBudget DEF vars, ledger, job
<1> QED
  BY <1>1, <1>2, <1>3, <1>4, <1>5, <1>6, <1>7, <1>8, <1>9, <1>10, <1>11, <1>12, <1>13,
     <1>14, <1>15, <1>16, <1>17, <1>18, <1>19
     DEF Next, Step, Turn, Microtask, Wake, ConnectError, ConnectTimeout

\* A frame is written at most as often as pauses of the shortest length fit in
\* the retry budget, over reconnections and unsolicited rate limits too.
THEOREM BudgetCorrect == Spec => []RetryBudget
<1>1. ASSUME Init
      PROVE  BudgetInv
  <2>1. \A f \in Frames : attempts[f] = 0 /\ elapsed[f] = 0 /\ outcome[f] = "new"
    BY <1>1 DEF Init
  <2> QED
    BY <2>1, BridgeAssumption DEF BudgetInv, OnWire
<1>2. BudgetInv => RetryBudget
  BY DEF BudgetInv, RetryBudget
<1> QED
  BY <1>1, <1>2, TypeCorrect, TypeOKStep, WireInit, WireStep, BudgetStep, PTL DEF Spec

-----------------------------------------------------------------------------
(* While the link outlives the frame in flight: no frame is lost,          *)
(* connection attempts find the worker idle, and frames are written in the *)
(* order of their send() calls.                                            *)

\* Every undecided frame is queued, the worker serves the head of the queue, and
\* it waits for the bot, or for the end of a pause, over a link that is up.
InFlightInv ==
    /\ connecting => worker = "idle"
    /\ \A f \in Frames : outcome[f] = "waiting" => Queued(f)
    /\ worker # "idle" /\ ~closed => queue # <<>> /\ Head(queue) = current
    /\ worker \in {"awaiting", "limited", "sleeping"} /\ ~closed => link \in {"ready", "stale"}

\* The queue and the promises are left alone.
LEMMA QuietKeepsInFlight ==
    ASSUME InFlightInv, UNCHANGED <<queue, outcome, closed>>,
           worker' = "idle" \/ (worker # "idle" /\ current' = current),
           connecting' => connecting,
           worker' \in {"awaiting", "limited", "sleeping"} =>
              \/ closed
              \/ worker \in {"awaiting", "limited", "sleeping"}
                 /\ (link \in {"ready", "stale"} => link' \in {"ready", "stale"})
    PROVE  InFlightInv'
<1>1. \A f \in Frames : Queued(f)' <=> Queued(f)
  BY DEF Queued
<1> QED
  BY <1>1 DEF InFlightInv

LEMMA RejectEmpties ==
    ASSUME TypeOK, InFlightInv, NEW how \in Outcomes \ {"waiting"}, RejectQueue(how)
    PROVE  \A f \in Frames : outcome'[f] # "waiting"
BY DEF InFlightInv, RejectQueue

\* Dropping the head of the queue drops the frame in flight.
LEMMA FinishKeepsInFlight ==
    ASSUME TypeOK, WireInv, LinkInv, InFlightInv, worker # "idle",
           NEW how \in Outcomes \ {"new", "waiting"}, Finish(how)
    PROVE  InFlightInv'
<1>1. worker' = "idle" /\ closed' = closed
  BY DEF Finish
<1>2. \A f \in Frames : outcome'[f] = "waiting" => outcome[f] = "waiting" /\ f # current
  BY DEF Finish, Settle, TypeOK
<1>3. ASSUME NEW f \in Frames, outcome'[f] = "waiting"
      PROVE  Queued(f)'
  <2>1. PICK i \in DOMAIN queue : queue[i] = f
    BY <1>2, <1>3 DEF InFlightInv, Queued
  <2>2. /\ queue \in Seq(Frames) /\ Len(queue) \in Nat /\ i \in 1..Len(queue) /\ queue # <<>>
        /\ Head(queue) = queue[1]
    BY <2>1, LenProperties, HeadIsFirst DEF TypeOK
  <2>3. ~closed
    BY <2>2 DEF LinkInv
  <2>4. f # Head(queue)
    BY <1>2, <1>3, <2>3 DEF InFlightInv
  <2>5. i - 1 \in 1..(Len(queue) - 1)
    BY <2>1, <2>2, <2>4
  <2>6. /\ queue' = Tail(queue)
        /\ Len(queue') = Len(queue) - 1 /\ DOMAIN queue' = 1..Len(queue')
        /\ \A j \in 1..Len(queue') : queue'[j] = queue[j + 1]
    BY <2>2, HeadTailProperties, LenProperties DEF Finish, Shift
  <2>7. queue'[i - 1] = f /\ i - 1 \in DOMAIN queue'
    BY <2>1, <2>2, <2>5, <2>6
  <2> QED
    BY <2>7 DEF Queued
<1> QED
  BY <1>1, <1>3 DEF InFlightInv

\* A write needs an authenticated socket, which no attempt is under way beside.
LEMMA ProcessQueueKeepsInFlight ==
    ASSUME TypeOK, LinkInv, ProcessQueue(queue'), UNCHANGED closed,
           connecting => worker = "idle",
           \A f \in Frames : outcome'[f] = "waiting" => Queued(f)',
           worker # "idle" /\ ~closed => queue' # <<>> /\ Head(queue') = current,
           worker \in {"awaiting", "limited", "sleeping"} /\ ~closed => link \in {"ready", "stale"}
    PROVE  InFlightInv'
<1>1. CASE ~CanProcess(queue') /\ UNCHANGED <<connection, job, attempts>>
  BY <1>1 DEF InFlightInv, connection, job
<1>2. CASE CanProcess(queue') /\ link = "ready" /\ Transmit(queue') /\ UNCHANGED <<link, connecting>>
  BY <1>2 DEF InFlightInv, CanProcess, Transmit, LinkInv
<1>3. CASE CanProcess(queue') /\ Connect
  BY <1>3 DEF InFlightInv, CanProcess, Connect, job
<1> QED
  BY <1>1, <1>2, <1>3 DEF ProcessQueue

\* No frame is rejected while it is in flight: attempts fail with the worker idle.
LEMMA AttemptFailsKeepsInFlight ==
    ASSUME TypeOK, LinkInv, InFlightInv, AttemptFails, worker = "idle"
    PROVE  InFlightInv'
<1>1. \A f \in Frames : outcome'[f] # "waiting"
  BY RejectEmpties DEF AttemptFails, Outcomes
<1> QED
  BY <1>1 DEF AttemptFails, InFlightInv, job

LEMMA InFlightStep ==
    ASSUME TypeOK, WireInv, LinkInv, InFlightInv, LinkOutlivesFrame, [Next]_vars
    PROVE  InFlightInv'
<1>0. "DropWhilePaused" \notin faults /\ "SilentBot" \notin faults
  BY DEF LinkOutlivesFrame
<1>1. ASSUME NEW f \in Frames, SendRefused(f)
      PROVE  InFlightInv'
  <2>1. \A g \in Frames : outcome'[g] = "waiting" => outcome[g] = "waiting"
    BY <1>1 DEF SendRefused, TypeOK
  <2>2. UNCHANGED <<queue, connection, job, closed>>
    BY <1>1 DEF SendRefused
  <2>3. \A g \in Frames : Queued(g)' <=> Queued(g)
    BY <2>2 DEF Queued
  <2> QED
    BY <2>1, <2>2, <2>3 DEF InFlightInv, connection, job
<1>2. ASSUME NEW f \in Frames, Send(f)
      PROVE  InFlightInv'
  <2>1. /\ queue' = Push(f) /\ UNCHANGED closed /\ ~closed
        /\ outcome' = [outcome EXCEPT ![f] = "waiting"]
    BY <1>2 DEF Send, Accepts
  <2>2. /\ queue' \in Seq(Frames) /\ queue' # <<>> /\ Len(queue') = Len(queue) + 1
        /\ DOMAIN queue' = 1..Len(queue') /\ DOMAIN queue = 1..Len(queue) /\ Len(queue) \in Nat
        /\ \A i \in 1..Len(queue) : queue'[i] = queue[i]
        /\ queue'[Len(queue) + 1] = f
    BY <2>1, PushType, LenProperties DEF TypeOK
  <2>3. ASSUME NEW g \in Frames, outcome'[g] = "waiting"
        PROVE  Queued(g)'
    <3>1. CASE g = f
      BY <2>2, <3>1 DEF Queued
    <3>2. CASE g # f
      <4>1. outcome[g] = "waiting"
        BY <2>1, <2>3, <3>2 DEF TypeOK
      <4>2. PICK i \in DOMAIN queue : queue[i] = g
        BY <4>1 DEF InFlightInv, Queued
      <4> QED
        BY <2>2, <4>2 DEF Queued
    <3> QED
      BY <3>1, <3>2
  <2>4. worker # "idle" => Head(queue') = current
    <3>1. queue # <<>> => Head(queue') = Head(queue)
      BY <2>2, HeadIsFirst DEF TypeOK
    <3> QED
      BY <2>1, <3>1 DEF InFlightInv
  <2>5. CASE ProcessQueue(queue')
    BY <2>1, <2>2, <2>3, <2>4, <2>5, ProcessQueueKeepsInFlight DEF InFlightInv
  <2>6. CASE link \notin {"ready", "stale"} /\ Connect
    <3>1. worker = "idle" /\ worker' = "idle"
      BY <1>2, <2>1, <2>6 DEF Send, TurnStarts, InFlightInv, TypeOK, Workers, Connect, job
    <3> QED
      BY <2>3, <3>1 DEF InFlightInv
  <2> QED
    BY <1>2, <2>5, <2>6 DEF Send
<1>3. ASSUME NEW p \in Pauses, RateLimited(p)
      PROVE  InFlightInv'
  <2>1. UNCHANGED <<queue, outcome, connection, current, closed>>
    BY <1>3 DEF RateLimited
  <2>2. worker' = worker \/ (worker = "awaiting" /\ worker' = "limited")
    BY <1>3 DEF RateLimited
  <2> QED
    BY <2>1, <2>2, QuietKeepsInFlight DEF connection
<1>4. CASE Close
  <2>1. \A f \in Frames : outcome'[f] # "waiting"
    BY <1>4, RejectEmpties DEF Close, Outcomes
  <2> QED
    BY <1>4, <2>1 DEF Close, InFlightInv
<1>5. CASE SocketOpens
  BY <1>0, <1>5, QuietKeepsInFlight DEF SocketOpens, ledger, job
<1>6. CASE LoginSuccess
  <2>1. UNCHANGED <<queue, outcome, closed>> /\ link' = "ready" /\ ~connecting'
    BY <1>6 DEF LoginSuccess
  <2>2. \A f \in Frames : Queued(f)' <=> Queued(f)
    BY <2>1 DEF Queued
  <2>3. CASE CanProcess(queue) /\ Transmit(queue)
    BY <2>1, <2>2, <2>3 DEF InFlightInv, CanProcess, Transmit
  <2>4. CASE UNCHANGED job
    BY <2>1, <2>2, <2>4 DEF InFlightInv, job
  <2> QED
    BY <1>6, <2>3, <2>4 DEF LoginSuccess
<1>7. CASE ConnectError \/ ConnectTimeout
  <2>1. worker = "idle" /\ AttemptFails
    BY <1>7 DEF ConnectError, ConnectTimeout, LinkInv, InFlightInv
  <2> QED
    BY <2>1, AttemptFailsKeepsInFlight
<1>8. CASE PeerGone
  BY <1>0, <1>8, QuietKeepsInFlight DEF PeerGone, ledger, job
<1>9. CASE Disconnect
  <2>1. UNCHANGED <<queue, outcome, connecting, current, closed>> /\ worker' = Interrupt
    BY <1>9 DEF Disconnect, ledger
  <2>2. worker \notin {"limited", "sleeping"}
    BY <1>0, <1>9 DEF Disconnect, TurnStarts, Settled, MayLoseLink
  <2> QED
    BY <2>1, <2>2, QuietKeepsInFlight DEF Interrupt
<1>10. CASE IdleTimeout
  <2>1. UNCHANGED <<queue, outcome, connecting, job, closed>>
    BY <1>10 DEF IdleTimeout, ledger
  <2>2. worker \notin {"awaiting", "limited"}
    BY <1>0, <1>10 DEF IdleTimeout, TurnStarts, Settled
  <2>3. worker = "sleeping" => link \notin {"ready", "stale"}
    BY <1>0, <1>10 DEF IdleTimeout, MayLoseLink
  <2> QED
    BY <2>1, <2>2, <2>3, QuietKeepsInFlight DEF job
<1>11. ASSUME NEW f \in Frames, QueuedFrame(f)
       PROVE  InFlightInv'
  BY <1>0, <1>11, QuietKeepsInFlight DEF QueuedFrame, Acknowledges, connection
<1>12. CASE ErrorFrame
  BY <1>0, <1>12, QuietKeepsInFlight DEF ErrorFrame, ledger, connection
<1>13. CASE ResumeAcked
  BY <1>13, FinishKeepsInFlight DEF ResumeAcked, Outcomes
<1>14. CASE ResumeFailed
  BY <1>14, FinishKeepsInFlight DEF ResumeFailed, Outcomes
<1>15. CASE ResumeLimited
  BY <1>0, <1>15, QuietKeepsInFlight DEF ResumeLimited, ledger, connection
<1>16. CASE RunKick
  <2>1. UNCHANGED <<queue, outcome, closed>> /\ ProcessQueue(queue')
    BY <1>16 DEF RunKick
  <2>2. \A f \in Frames : Queued(f)' <=> Queued(f)
    BY <2>1 DEF Queued
  <2> QED
    BY <2>1, <2>2, ProcessQueueKeepsInFlight DEF InFlightInv
<1>17. CASE WakeAndGiveUp
  BY <1>17, FinishKeepsInFlight DEF WakeAndGiveUp, Outcomes
<1>18. CASE WakeAndRetry
  BY <1>0, <1>18, QuietKeepsInFlight DEF WakeAndRetry, ledger, connection
<1>19. CASE UNCHANGED vars
  BY <1>0, <1>19, QuietKeepsInFlight DEF vars, ledger, connection, job
<1> QED
  BY <1>1, <1>2, <1>3, <1>4, <1>5, <1>6, <1>7, <1>8, <1>9, <1>10, <1>11, <1>12, <1>13,
     <1>14, <1>15, <1>16, <1>17, <1>18, <1>19
     DEF Next, Step, Turn, Microtask, Wake

\* The state invariants of the client together.
BridgeInv == TypeOK /\ WireInv /\ LinkInv /\ (LinkOutlivesFrame => InFlightInv)

LEMMA BridgeInvariant == Spec => []BridgeInv
<1>1. Init => BridgeInv
  <2>1. Init => InFlightInv
    BY DEF Init, InFlightInv
  <2>2. Init => LinkInv
    BY DEF Init, LinkInv
  <2>3. Init => TypeOK
    BY InitType
  <2> QED
    BY <2>1, <2>2, <2>3, WireInit DEF BridgeInv
<1>2. BridgeInv /\ [Next]_vars => BridgeInv'
  <2>1. [Next]_vars => (LinkOutlivesFrame' <=> LinkOutlivesFrame)
    BY DEF Next, vars, LinkOutlivesFrame
  <2> QED
    BY <2>1, TypeOKStep, WireStep, LinkStep, InFlightStep DEF BridgeInv
<1> QED
  BY <1>1, <1>2, PTL DEF Spec

\* While the link outlives the frame in flight no send() is forgotten.
THEOREM NoLossCorrect == Spec => []NoFrameLost
<1>1. ASSUME BridgeInv
      PROVE  NoFrameLost
  <2>1. ASSUME NEW f \in Frames, Queued(f)
        PROVE  outcome[f] = "waiting"
    <3>1. DOMAIN queue = 1..Len(queue)
      BY <1>1, LenProperties DEF BridgeInv, TypeOK
    <3> QED
      BY <1>1, <2>1, <3>1 DEF BridgeInv, WireInv, QueueHoldsWaiting, Queued
  <2> QED
    BY <1>1, <2>1 DEF BridgeInv, InFlightInv, NoFrameLost
<1> QED
  BY <1>1, BridgeInvariant, PTL

\* ... and a failing connection attempt finds no frame in flight, as failQueue()
\* assumes.
THEOREM AttemptsFailIdleCorrect == Spec => []AttemptsFailIdle
<1>1. BridgeInv => AttemptsFailIdle
  BY DEF BridgeInv, InFlightInv, AttemptsFailIdle
<1> QED
  BY <1>1, BridgeInvariant, PTL

\* Every undecided frame is queued and the queue is sorted, so the head of the
\* queue is the oldest undecided frame.
LEMMA HeadIsOldest ==
    ASSUME BridgeInv, LinkOutlivesFrame, NEW g \in Frames, outcome[g] = "waiting"
    PROVE  queue # <<>> /\ Head(queue) <= g
<1>1. PICK i \in DOMAIN queue : queue[i] = g
  BY DEF BridgeInv, InFlightInv, Queued
<1>2. /\ queue \in Seq(Frames) /\ i \in 1..Len(queue) /\ Len(queue) \in Nat /\ queue # <<>>
      /\ Head(queue) = queue[1]
  BY <1>1, LenProperties, HeadIsFirst DEF BridgeInv, TypeOK
<1>3. i # 1 => queue[1] < queue[i]
  BY <1>2 DEF BridgeInv, WireInv, Increasing
<1>4. queue[1] \in Int /\ queue[i] \in Int
  BY <1>2, ElementOfSeq, BridgeAssumption DEF Frames
<1> QED
  BY <1>1, <1>2, <1>3, <1>4

\* A step writes at most the head of the queue it leaves behind.
LEMMA OnlyHeadIsWritten ==
    ASSUME TypeOK, [Next]_vars, NEW f \in Frames, attempts'[f] # attempts[f]
    PROVE  /\ queue' # <<>> /\ f = Head(queue')
           /\ queue' = queue \/ \E g \in Frames : queue' = Push(g)
<1>1. ASSUME NEW q \in Seq(Frames), q # <<>>, Transmit(q)
      PROVE  f = Head(q)
  <2>1. Head(q) \in Frames
    BY <1>1, HeadIsFirst
  <2> QED
    BY <1>1, <2>1 DEF Transmit, TypeOK
<1>2. CASE \E g \in Frames : Send(g)
  <2>1. PICK g \in Frames : Send(g)
    BY <1>2
  <2>2. queue' = Push(g) /\ queue' \in Seq(Frames) /\ queue' # <<>>
    BY <2>1, PushType DEF Send
  <2>3. Transmit(queue')
    BY <2>1 DEF Send, ProcessQueue, Connect
  <2> QED
    BY <1>1, <2>2, <2>3
<1>3. CASE LoginSuccess \/ RunKick
  <2>1. Transmit(queue) /\ queue # <<>> /\ queue' = queue
    BY <1>3 DEF LoginSuccess, RunKick, ProcessQueue, Connect, CanProcess
  <2> QED
    BY <1>1, <2>1 DEF TypeOK
<1> QED
  BY <1>2, <1>3
     DEF Next, Step, Turn, Microtask, Wake, vars, ledger, SendRefused, RateLimited, Close,
         SocketOpens, ConnectError, ConnectTimeout, AttemptFails, PeerGone, Disconnect,
         IdleTimeout, QueuedFrame, ErrorFrame, ResumeAcked, ResumeFailed, ResumeLimited,
         WakeAndGiveUp, WakeAndRetry, Finish

\* Frames are written in the order of their send() calls: when one is written,
\* every earlier one is decided.
THEOREM OrderCorrect == Spec => InOrder
<1>1. ASSUME BridgeInv, [Next]_vars
      PROVE  [\A f \in Frames : attempts'[f] # attempts[f] /\ LinkOutlivesFrame =>
                \A g \in 1..(f-1) : outcome[g] # "waiting"]_vars
  <2> SUFFICES ASSUME NEW f \in Frames, attempts'[f] # attempts[f], LinkOutlivesFrame,
                      NEW g \in 1..(f-1), outcome[g] = "waiting"
               PROVE  FALSE
    OBVIOUS
  <2>1. g \in Frames /\ g < f
    BY BridgeAssumption DEF Frames
  <2>2. queue # <<>> /\ Head(queue) <= g
    BY <1>1, <2>1, HeadIsOldest
  <2>3. f = Head(queue') /\ (queue' = queue \/ \E h \in Frames : queue' = Push(h))
    BY <1>1, OnlyHeadIsWritten DEF BridgeInv
  <2>4. Head(queue') = Head(queue)
    <3>1. ASSUME NEW h \in Frames
          PROVE  Head(Push(h)) = Head(queue)
      <4>1. /\ queue \in Seq(Frames) /\ Push(h) \in Seq(Frames) /\ Push(h) # <<>>
            /\ \A i \in 1..Len(queue) : Push(h)[i] = queue[i]
        BY <1>1, PushType DEF BridgeInv, TypeOK
      <4> QED
        BY <2>2, <4>1, HeadIsFirst
    <3> QED
      BY <2>3, <3>1
  <2>5. f \in Int /\ g \in Int
    BY <2>1, BridgeAssumption DEF Frames
  <2> QED
    BY <2>1, <2>2, <2>3, <2>4, <2>5
<1> QED
  BY <1>1, BridgeInvariant, PTL DEF Spec, InOrder

-----------------------------------------------------------------------------
(* The client implements FrameDelivery.                                    *)

Pending == {f \in Frames : outcome[f] = "waiting"}

LEMMA FramesFinite == IsFiniteSet(Frames) /\ IsFiniteSet(Pending)
<1>1. 1 \in Int /\ MaxFrames \in Int
  BY BridgeAssumption
<1>2. IsFiniteSet(1..MaxFrames)
  BY <1>1, FS_Interval, Zenon
<1>3. Pending \in SUBSET Frames
  BY DEF Pending
<1> QED
  BY <1>2, <1>3, FS_Subset DEF Frames

\* A sequence without repetitions is as long as the set of its elements.
LEMMA DistinctCount ==
    ASSUME NEW S, IsFiniteSet(S), NEW q \in Seq(S),
           \A i, j \in 1..Len(q) : i < j => q[i] # q[j]
    PROVE  /\ Len(q) <= Cardinality(S)
           /\ (\A s \in S : \E i \in 1..Len(q) : q[i] = s) => Len(q) = Cardinality(S)
<1>1. /\ Len(q) \in Nat
      /\ q \in [1..Len(q) -> S]
  OBVIOUS
<1>2. \A i, j \in 1..Len(q) : q[i] = q[j] => i = j
  <2> SUFFICES ASSUME NEW i \in 1..Len(q), NEW j \in 1..Len(q), q[i] = q[j], i # j
               PROVE  FALSE
    OBVIOUS
  <2>1. i < j \/ j < i
    BY <1>1
  <2> QED
    BY <2>1
<1>3. q \in Injection(1..Len(q), S)
  BY <1>1, <1>2 DEF Injection, IsInjective
<1>4. 1 \in Int /\ Len(q) \in Int
  BY <1>1
<1>5. Cardinality(1..Len(q)) = IF 1 > Len(q) THEN 0 ELSE Len(q) - 1 + 1
  BY <1>4, FS_Interval, Zenon
<1>6. Cardinality(1..Len(q)) = Len(q)
  BY <1>1, <1>5
<1>7. /\ Cardinality(1..Len(q)) <= Cardinality(S)
      /\ Cardinality(1..Len(q)) = Cardinality(S) <=> q \in Surjection(1..Len(q), S)
  BY <1>3, FS_Injection, Zenon
<1>8. ASSUME \A s \in S : \E i \in 1..Len(q) : q[i] = s
      PROVE  q \in Surjection(1..Len(q), S)
  BY <1>1, <1>8 DEF Surjection
<1> QED
  BY <1>6, <1>7, <1>8

\* The queue counts the undecided frames, of which it holds each at most once
\* and, while the link outlives the frame in flight, all.
LEMMA QueueCounts ==
    ASSUME BridgeInv
    PROVE  /\ Len(queue) <= Cardinality(Pending)
           /\ LinkOutlivesFrame => Len(queue) = Cardinality(Pending)
<1>1. /\ queue \in Seq(Frames) /\ Len(queue) \in Nat
      /\ DOMAIN queue = 1..Len(queue)
  BY LenProperties DEF BridgeInv, TypeOK
<1>2. \A i \in 1..Len(queue) : queue[i] \in Frames /\ queue[i] \in Int
  BY <1>1, ElementOfSeq, BridgeAssumption DEF Frames
<1>3. \A i \in 1..Len(queue) : queue[i] \in Pending
  BY <1>2 DEF BridgeInv, WireInv, QueueHoldsWaiting, Pending
<1>4. queue \in Seq(Pending)
  BY <1>1, <1>3, SeqDef
<1>5. \A i, j \in 1..Len(queue) : i < j => queue[i] # queue[j]
  BY <1>2 DEF BridgeInv, WireInv, Increasing
<1>6. LinkOutlivesFrame => \A f \in Pending : \E i \in 1..Len(queue) : queue[i] = f
  BY <1>1 DEF BridgeInv, InFlightInv, Pending, Queued
<1> QED
  BY <1>4, <1>5, <1>6, DistinctCount, FramesFinite

\* What the mapping makes of the promises.
LEMMA MappedStatus ==
    ASSUME TypeOK
    PROVE  /\ Delivery!Waiting = Pending
           /\ \A f \in Frames : Delivery!IsNext(f) <=> IsNext(f)
<1>1. Delivery!Frames = Frames
  BY DEF Delivery!Frames, Frames
<1>2. ASSUME NEW f \in Frames, NEW g \in 1..(f-1)
      PROVE  g \in Frames
  BY BridgeAssumption DEF Frames
<1> QED
  BY <1>1, <1>2 DEF Delivery!Waiting, Delivery!IsNext, IsNext, Pending, TypeOK, Outcomes

LEMMA SameCardinality == \A S : Delivery!Cardinality(S) = Cardinality(S)
BY Zenon DEF Delivery!Cardinality, Cardinality

LEMMA QuietDelivers ==
    ASSUME UNCHANGED <<outcome, closed, faults>>
    PROVE  UNCHANGED Delivery!vars
BY DEF Delivery!vars, LinkOutlivesFrame

LEMMA FinishDelivers ==
    ASSUME BridgeInv, worker # "idle", UNCHANGED faults,
           NEW how \in {"resolved", "errored", "dropped", "limited"}, Finish(how)
    PROVE  [Delivery!Next]_(Delivery!vars)
<1>1. /\ current \in Frames
      /\ outcome \in [Frames -> Outcomes]
  BY DEF BridgeInv, WireInv, WorkerHasFrame, TypeOK
<1>2. PICK f \in Frames : f = current
  BY <1>1
<1>3. CASE outcome[f] # "waiting"
  <2>1. UNCHANGED <<outcome, closed>>
    BY <1>1, <1>2, <1>3 DEF Finish, Settle
  <2> QED
    BY <2>1, QuietDelivers
<1>4. CASE outcome[f] = "waiting"
  <2>1. outcome' = [outcome EXCEPT ![f] = how] /\ UNCHANGED closed
    BY <1>1, <1>2, <1>4 DEF Finish, Settle
  <2>2. f \in Delivery!Waiting
    BY <1>4, MappedStatus DEF Pending, BridgeInv
  <2>3. ASSUME LinkOutlivesFrame, NEW g \in Delivery!Waiting
        PROVE  f <= g
    <3>1. g \in Frames /\ outcome[g] = "waiting"
      BY <2>3, MappedStatus DEF BridgeInv, Pending
    <3>2. queue # <<>> /\ Head(queue) <= g
      BY <2>3, <3>1, HeadIsOldest
    <3>3. ~closed
      BY <3>2 DEF BridgeInv, LinkInv
    <3> QED
      BY <1>2, <2>3, <3>2, <3>3 DEF BridgeInv, InFlightInv
  <2>4. Delivery!Decide(f)
    <3>1. CASE how = "resolved"
      BY <1>1, <2>1, <2>2, <2>3, <3>1 DEF Delivery!Decide
    <3>2. CASE how # "resolved"
      BY <1>1, <2>1, <2>2, <2>3, <3>2 DEF Delivery!Decide
    <3> QED
      BY <3>1, <3>2
  <2>5. UNCHANGED LinkOutlivesFrame
    BY DEF LinkOutlivesFrame
  <2> QED
    BY <2>4, <2>5 DEF Delivery!Next, Delivery!Frames, Frames
<1> QED
  BY <1>3, <1>4

\* Rejecting the queue rejects waiting frames, all of them in an orderly behaviour.
LEMMA RejectDelivers ==
    ASSUME BridgeInv, NEW how \in {"unavailable", "closed"}, RejectQueue(how), UNCHANGED faults
    PROVE  \E S \in SUBSET Delivery!Waiting : Delivery!RejectAll(S)
<1>1. PICK S : S = {f \in Frames : Queued(f) /\ outcome[f] = "waiting"}
  OBVIOUS
<1>2. S \in SUBSET Delivery!Waiting
  BY <1>1, MappedStatus DEF BridgeInv, Pending
<1>3. LinkOutlivesFrame => S = Delivery!Waiting
  BY <1>1, MappedStatus DEF BridgeInv, InFlightInv, Pending
<1>4. outcome' = [f \in Frames |-> IF f \in S THEN how ELSE outcome[f]]
  BY <1>1 DEF RejectQueue
<1>5. outcome \in [Frames -> Outcomes]
  BY DEF BridgeInv, TypeOK
<1>6. Delivery!RejectAll(S)
  BY <1>3, <1>4, <1>5 DEF Delivery!RejectAll, Delivery!Frames, Frames
<1> QED
  BY <1>2, <1>6

LEMMA SendDelivers ==
    ASSUME BridgeInv, NEW f \in Frames, Send(f), UNCHANGED faults
    PROVE  Delivery!Next
<1>1. /\ IsNext(f) /\ ~closed /\ Len(queue) < MaxQueueSize /\ UNCHANGED closed
      /\ outcome' = [outcome EXCEPT ![f] = "waiting"]
  BY DEF Send, Accepts, HasCapacity
<1>2. LinkOutlivesFrame => Cardinality(Delivery!Waiting) < MaxQueueSize
  BY <1>1, MappedStatus, QueueCounts DEF BridgeInv
<1>3. outcome \in [Frames -> Outcomes]
  BY DEF BridgeInv, TypeOK
<1>4. Delivery!IsNext(f)
  BY <1>1, MappedStatus DEF BridgeInv
<1>5. Delivery!Accept(f)
  BY <1>1, <1>2, <1>3, <1>4, SameCardinality DEF Delivery!Accept
<1>6. UNCHANGED LinkOutlivesFrame
  BY DEF LinkOutlivesFrame
<1> QED
  BY <1>5, <1>6 DEF Delivery!Next, Delivery!Frames, Frames

LEMMA RefusalDelivers ==
    ASSUME BridgeInv, NEW f \in Frames, SendRefused(f), UNCHANGED faults
    PROVE  Delivery!Next
<1>1. /\ IsNext(f) /\ UNCHANGED closed
      /\ closed \/ ~(Len(queue) < MaxQueueSize)
      /\ outcome' = [outcome EXCEPT ![f] = "refused"]
  BY DEF SendRefused, Accepts, HasCapacity
<1>2. Cardinality(Pending) \in Nat /\ Len(queue) \in Nat /\ MaxQueueSize \in Nat
  BY FramesFinite, FS_CardinalityType, BridgeAssumption DEF BridgeInv, TypeOK
<1>3. ~closed => Cardinality(Delivery!Waiting) >= MaxQueueSize
  BY <1>1, <1>2, MappedStatus, QueueCounts DEF BridgeInv
<1>4. outcome \in [Frames -> Outcomes]
  BY DEF BridgeInv, TypeOK
<1>5. Delivery!IsNext(f)
  BY <1>1, MappedStatus DEF BridgeInv
<1>6. Delivery!Refuse(f)
  BY <1>1, <1>3, <1>4, <1>5, SameCardinality DEF Delivery!Refuse
<1>7. UNCHANGED LinkOutlivesFrame
  BY DEF LinkOutlivesFrame
<1> QED
  BY <1>6, <1>7 DEF Delivery!Next, Delivery!Frames, Frames

LEMMA StepDelivers ==
    ASSUME BridgeInv, [Next]_vars
    PROVE  [Delivery!Next]_(Delivery!vars)
<1>0. UNCHANGED faults
  BY DEF Next, vars
<1>1. UNCHANGED LinkOutlivesFrame
  BY <1>0 DEF LinkOutlivesFrame
<1>2. ASSUME NEW f \in Frames, SendRefused(f) \/ Send(f)
      PROVE  [Delivery!Next]_(Delivery!vars)
  BY <1>0, <1>2, SendDelivers, RefusalDelivers
<1>3. CASE Close
  <2>1. ~closed /\ closed' /\ \E S \in SUBSET Delivery!Waiting : Delivery!RejectAll(S)
    BY <1>0, <1>3, RejectDelivers DEF Close
  <2> QED
    BY <1>1, <2>1 DEF Delivery!Next, Delivery!Close
<1>4. CASE ConnectError \/ ConnectTimeout
  <2>1. UNCHANGED closed /\ \E S \in SUBSET Delivery!Waiting : Delivery!RejectAll(S)
    BY <1>0, <1>4, RejectDelivers DEF ConnectError, ConnectTimeout, AttemptFails
  <2> QED
    BY <1>1, <2>1 DEF Delivery!Next, Delivery!Fail
<1>5. CASE ResumeAcked
  BY <1>0, <1>5, FinishDelivers DEF ResumeAcked
<1>6. CASE ResumeFailed
  BY <1>0, <1>6, FinishDelivers DEF ResumeFailed
<1>7. CASE WakeAndGiveUp
  BY <1>0, <1>7, FinishDelivers DEF WakeAndGiveUp
<1>8. CASE UNCHANGED <<outcome, closed>>
  BY <1>0, <1>8, QuietDelivers
<1> QED
  BY <1>2, <1>3, <1>4, <1>5, <1>6, <1>7, <1>8
     DEF Next, Step, Turn, Microtask, Wake, vars, ledger, RateLimited, SocketOpens,
         LoginSuccess, PeerGone, Disconnect, IdleTimeout, QueuedFrame, ErrorFrame,
         ResumeLimited, WakeAndRetry, RunKick

LEMMA InitDelivers == Init => Delivery!Init
BY DEF Init, Delivery!Init, Delivery!Frames, Frames, LinkOutlivesFrame

\* The client implements FrameDelivery: every frame is refused at once or decided
\* once, in order while the link outlives the frame in flight.
THEOREM DeliveryCorrect == Spec => Delivers
<1>1. Spec => []BridgeInv
  BY BridgeInvariant
<1> QED
  BY <1>1, InitDelivers, StepDelivers, PTL DEF Spec, Delivers, Delivery!Spec

-----------------------------------------------------------------------------
(***************************************************************************)
(* SuggestionsService: the service on top of the client takes steps of the *)
(* client only, and what a browser polls follows what became of the frame. *)
(***************************************************************************)

LiveOnes == {f \in Suggestions : record[f] \in Live}

StoreInv ==
    /\ record \in [Suggestions -> Statuses]
    /\ published \subseteq Suggestions /\ unanswered \subseteq Suggestions
    /\ Cardinality(LiveOnes) <= MaxRecords

\* How the status of a suggestion relates to the promise of its frame.
StatusInv(f) ==
    /\ record[f] = "none" <=> outcome[f] = "new"
    /\ record[f] \in {"queued", "sending", "retrying"} => outcome[f] = "waiting"
    /\ record[f] = "processing" => outcome[f] = "resolved"
    /\ record[f] = "confirmed" => f \in published
    /\ record[f] \in {"sending", "retrying"} /\ LinkOutlivesFrame =>
         queue # <<>> /\ Head(queue) = f

ServiceInv ==
    /\ BridgeInv
    /\ StoreInv
    /\ \A f \in Suggestions : StatusInv(f)

-----------------------------------------------------------------------------
(* What a turn of the client means for frame f: its promise is settled at   *)
(* most once, only the undecided head of the queue is written, and the      *)
(* frame acknowledged last stays with the worker until its promise          *)
(* resolves.                                                                *)

TurnEffect(f) ==
    /\ outcome'[f] # outcome[f] =>
         outcome[f] = "waiting" /\ outcome'[f] \in Rejections \cup {"resolved"}
    /\ attempts'[f] # attempts[f] =>
         outcome[f] = "waiting" /\ outcome'[f] = "waiting" /\ queue' # <<>> /\ Head(queue') = f
    /\ worker = "acked" /\ current = f =>
         \/ outcome'[f] # "waiting" /\ (outcome'[f] # outcome[f] => outcome'[f] = "resolved")
         \/ outcome'[f] = outcome[f] /\ worker' = "acked" /\ current' = f
    /\ LinkOutlivesFrame /\ queue # <<>> /\ Head(queue) = f /\ outcome'[f] = "waiting" =>
         queue' # <<>> /\ Head(queue') = f

\* The queue, the promises and the writes are left alone.
LEMMA QuietEffect ==
    ASSUME NEW f \in Frames, UNCHANGED <<queue, outcome, attempts>>,
           worker = "acked" => UNCHANGED <<worker, current>>
    PROVE  TurnEffect(f)
BY DEF TurnEffect

LEMMA WriteEffect ==
    ASSUME BridgeInv, NEW f \in Frames, queue # <<>>, Transmit(queue), worker # "acked",
           UNCHANGED <<queue, outcome>>
    PROVE  TurnEffect(f)
<1>1. Head(queue) \in Frames /\ outcome[Head(queue)] = "waiting"
  BY HeadIsFirst DEF BridgeInv, TypeOK, WireInv, QueueHoldsWaiting
<1>2. attempts'[f] # attempts[f] => f = Head(queue)
  BY <1>1 DEF Transmit, BridgeInv, TypeOK
<1> QED
  BY <1>1, <1>2 DEF TurnEffect

LEMMA RejectEffect ==
    ASSUME BridgeInv, NEW f \in Frames, NEW how \in {"closed", "unavailable"}, RejectQueue(how),
           UNCHANGED attempts, TurnStarts
    PROVE  TurnEffect(f)
<1>1. outcome'[f] = IF Queued(f) /\ outcome[f] = "waiting" THEN how ELSE outcome[f]
  BY DEF RejectQueue
<1>2. queue # <<>> /\ Head(queue) = f => Queued(f)
  <2>1. queue # <<>> => Head(queue) = queue[1] /\ 1 \in DOMAIN queue
    BY HeadIsFirst, LenProperties DEF BridgeInv, TypeOK
  <2> QED
    BY <2>1 DEF Queued
<1>3. worker # "acked"
  BY DEF TurnStarts, Settled
<1> QED
  BY <1>1, <1>2, <1>3 DEF TurnEffect, Rejections

LEMMA FinishEffect ==
    ASSUME BridgeInv, NEW f \in Frames, NEW how \in {"resolved", "errored", "dropped", "limited"},
           Finish(how), worker # "idle", worker = "acked" => how = "resolved"
    PROVE  TurnEffect(f)
<1>1. outcome'[f] = IF f = current /\ outcome[f] = "waiting" THEN how ELSE outcome[f]
  BY DEF Finish, Settle, BridgeInv, TypeOK
<1>2. UNCHANGED attempts
  BY DEF Finish
<1>3. LinkOutlivesFrame /\ queue # <<>> => Head(queue) = current
  BY DEF BridgeInv, LinkInv, InFlightInv
<1> QED
  BY <1>1, <1>2, <1>3 DEF TurnEffect, Rejections

LEMMA TurnHasEffect ==
    ASSUME BridgeInv, NEW f \in Frames, Turn
    PROVE  TurnEffect(f)
<1>1. CASE Close \/ ConnectError \/ ConnectTimeout
  BY <1>1, RejectEffect DEF Close, ConnectError, ConnectTimeout, AttemptFails
<1>2. CASE SocketOpens \/ PeerGone \/ Disconnect \/ IdleTimeout
  BY <1>2, QuietEffect
     DEF SocketOpens, PeerGone, Disconnect, IdleTimeout, Interrupt, TurnStarts, Settled, ledger, job
<1>3. CASE LoginSuccess
  <2>1. worker # "acked"
    BY <1>3 DEF LoginSuccess, TurnStarts, Settled
  <2>2. CASE CanProcess(queue)
    BY <1>3, <2>1, <2>2, WriteEffect DEF LoginSuccess, CanProcess
  <2>3. CASE ~CanProcess(queue)
    BY <1>3, <2>1, <2>3, QuietEffect DEF LoginSuccess, job
  <2> QED
    BY <2>2, <2>3
<1>4. CASE \E g \in Frames : QueuedFrame(g)
  BY <1>4, QuietEffect DEF QueuedFrame, Acknowledges, connection
<1>5. CASE ErrorFrame
  BY <1>5, QuietEffect DEF ErrorFrame, ledger
<1>6. CASE ResumeAcked \/ ResumeFailed \/ WakeAndGiveUp
  BY <1>6, FinishEffect DEF ResumeAcked, ResumeFailed, WakeAndGiveUp
<1>7. CASE ResumeLimited \/ WakeAndRetry
  BY <1>7, QuietEffect DEF ResumeLimited, WakeAndRetry, ledger
<1>8. CASE RunKick
  <2>1. CASE CanProcess(queue) /\ link = "ready" /\ Transmit(queue)
    BY <1>8, <2>1, WriteEffect DEF RunKick, CanProcess
  <2>2. CASE UNCHANGED <<attempts, job>>
    BY <1>8, <2>2, QuietEffect DEF RunKick, job
  <2> QED
    BY <1>8, <2>1, <2>2 DEF RunKick, ProcessQueue, Connect
<1> QED
  BY <1>1, <1>2, <1>3, <1>4, <1>5, <1>6, <1>7, <1>8 DEF Turn, Microtask, Wake

-----------------------------------------------------------------------------
(* The store.                                                              *)

LEMMA LiveOnesFinite ==
    /\ IsFiniteSet(LiveOnes) /\ IsFiniteSet(LiveOnes')
    /\ Cardinality(LiveOnes) \in Nat /\ Cardinality(LiveOnes') \in Nat
<1>1. LiveOnes \in SUBSET Frames /\ LiveOnes' \in SUBSET Frames
  BY DEF LiveOnes, Suggestions
<1> QED
  BY <1>1, FramesFinite, FS_Subset, FS_CardinalityType

\* A step that puts nothing into the store.
LEMMA StoreShrinks ==
    ASSUME StoreInv, record' \in [Suggestions -> Statuses], published' \subseteq Suggestions,
           unanswered' \subseteq Suggestions,
           \A g \in Suggestions : record'[g] \in Live => record[g] \in Live
    PROVE  StoreInv'
<1>1. LiveOnes' \subseteq LiveOnes
  BY DEF LiveOnes
<1>2. Cardinality(LiveOnes') <= Cardinality(LiveOnes)
  BY <1>1, LiveOnesFinite, FS_Subset
<1> QED
  BY <1>2, LiveOnesFinite, StoreAssumption DEF StoreInv

\* A step that puts one suggestion into a store with room for it.
LEMMA StoreGrows ==
    ASSUME StoreInv, record' \in [Suggestions -> Statuses], published' \subseteq Suggestions,
           unanswered' \subseteq Suggestions, StoreHasCapacity, NEW f \in Suggestions,
           \A g \in Suggestions \ {f} : record'[g] \in Live => record[g] \in Live
    PROVE  StoreInv'
<1>1. LiveOnes' \subseteq LiveOnes \cup {f}
  BY DEF LiveOnes
<1>2. Cardinality(LiveOnes) < MaxRecords
  BY DEF StoreHasCapacity, LiveOnes
<1>3. /\ IsFiniteSet(LiveOnes \cup {f})
      /\ Cardinality(LiveOnes \cup {f}) <= Cardinality(LiveOnes) + 1
      /\ Cardinality(LiveOnes \cup {f}) \in Nat
  <2>1. PICK S : S = LiveOnes
    OBVIOUS
  <2>2. IsFiniteSet(S) /\ Cardinality(S) \in Nat
    BY <2>1, LiveOnesFinite
  <2>3. /\ IsFiniteSet(S \cup {f})
        /\ f \in S => Cardinality(S \cup {f}) = Cardinality(S)
        /\ f \notin S => Cardinality(S \cup {f}) = Cardinality(S) + 1
    BY <2>2, FS_AddElement
  <2> QED
    BY <2>1, <2>2, <2>3
<1>4. Cardinality(LiveOnes') <= Cardinality(LiveOnes \cup {f})
  BY <1>1, <1>3, FS_Subset
<1>5. Cardinality(LiveOnes') <= MaxRecords
  BY <1>2, <1>3, <1>4, LiveOnesFinite, StoreAssumption
<1> QED
  BY <1>5 DEF StoreInv

Statused ==
    /\ record \in [Suggestions -> Statuses]
    /\ published \subseteq Suggestions /\ unanswered \subseteq Suggestions

LEMMA NoteWritesType ==
    ASSUME unanswered \subseteq Suggestions, NoteWrites
    PROVE  unanswered' \subseteq Suggestions
BY DEF NoteWrites

\* A status after a step of the client is live only if it was.
LEMMA ReactType ==
    ASSUME Statused, NEW f \in Suggestions
    PROVE  React(f) \in Statuses /\ (React(f) \in Live <=> record[f] \in Live)
BY DEF Statused, React, Advance, Conclude, OnRejected, OnSending, Statuses, Live, Progress, Terminal

\* Statuses after a step that has the effect of a turn.
LEMMA ReactKeepsStatus ==
    ASSUME Statused, BridgeInv, NEW f \in Frames, StatusInv(f), TurnEffect(f), UNCHANGED faults,
           record'[f] = React(f), published \subseteq published'
    PROVE  StatusInv(f)'
<1>1. record[f] \in Statuses /\ outcome[f] \in Outcomes
  BY DEF Statused, Suggestions, BridgeInv, TypeOK
<1>2. LinkOutlivesFrame' <=> LinkOutlivesFrame
  BY DEF LinkOutlivesFrame
<1>3. attempts'[f] > attempts[f] => attempts'[f] # attempts[f]
  BY DEF BridgeInv, TypeOK
<1>4. CASE outcome'[f] # outcome[f]
  <2>1. outcome[f] = "waiting" /\ outcome'[f] \in Rejections \cup {"resolved"}
    BY <1>4 DEF TurnEffect
  <2>0. ~Sent(f)
    BY <1>3, <2>1 DEF Sent, TurnEffect, Rejections
  <2>2. CASE outcome'[f] = "resolved"
    <3>1. record'[f] = IF record[f] \in Progress THEN "processing" ELSE record[f]
      BY <1>4, <2>0, <2>2 DEF React, JustSettled, Advance, Rejections
    <3> QED
      BY <1>1, <2>1, <2>2, <3>1 DEF StatusInv, Statuses, Live, Progress, Terminal
  <2>3. CASE outcome'[f] \in Rejections
    <3>1. record'[f] = IF record[f] \in Live THEN "failed" ELSE record[f]
      BY <1>4, <2>0, <2>3 DEF React, JustSettled, OnRejected, Conclude, Rejections
    <3> QED
      BY <1>1, <2>1, <2>3, <3>1 DEF StatusInv, Statuses, Live, Progress, Terminal, Rejections
  <2> QED
    BY <2>1, <2>2, <2>3
<1>5. CASE outcome'[f] = outcome[f]
  <2>1. record'[f] = record[f] \/ (Sent(f) /\ record[f] \in Progress /\ record'[f] = "sending")
    BY <1>5 DEF React, JustSettled, OnSending, Advance
  <2>2. Sent(f) => outcome[f] = "waiting" /\ queue' # <<>> /\ Head(queue') = f
    BY <1>3 DEF Sent, TurnEffect
  <2>3. CASE record'[f] = record[f]
    BY <1>2, <1>5, <2>3 DEF StatusInv, TurnEffect
  <2>4. CASE Sent(f) /\ record[f] \in Progress /\ record'[f] = "sending"
    BY <1>2, <1>5, <2>2, <2>4 DEF StatusInv, Progress
  <2> QED
    BY <2>1, <2>3, <2>4
<1> QED
  BY <1>4, <1>5

LEMMA TurnStep ==
    ASSUME ServiceInv, BridgeTurn
    PROVE  StoreInv' /\ \A f \in Suggestions : StatusInv(f)'
<1>1. /\ Statused /\ record' = [f \in Suggestions |-> React(f)] /\ published' = published
      /\ unanswered' \subseteq Suggestions
  BY NoteWritesType DEF ServiceInv, StoreInv, Statused, BridgeTurn
<1>2. /\ record' \in [Suggestions -> Statuses]
      /\ \A g \in Suggestions : record'[g] \in Live => record[g] \in Live
  BY <1>1, ReactType
<1>3. StoreInv'
  BY <1>1, <1>2, StoreShrinks DEF ServiceInv, StoreInv
<1>4. ASSUME NEW f \in Suggestions
      PROVE  StatusInv(f)'
  <2>1. TurnEffect(f)
    BY <1>4, TurnHasEffect DEF ServiceInv, BridgeTurn, Suggestions
  <2> QED
    BY <1>1, <2>1, ReactKeepsStatus DEF ServiceInv, BridgeTurn, Suggestions
<1> QED
  BY <1>3, <1>4

\* The client and the statuses of all suggestions but f are left alone.
LEMMA RetryingStep ==
    ASSUME ServiceInv, NEW p \in Pauses, FrameRetrying(p)
    PROVE  StoreInv' /\ \A f \in Suggestions : StatusInv(f)'
<1>1. /\ queue # <<>> /\ UNCHANGED <<queue, outcome, current, published, faults>>
      /\ worker = "acked" => worker' = "acked"
      /\ record' = [record EXCEPT ![Head(queue)] = Advance(@, "retrying")]
      /\ unanswered' \subseteq Suggestions
  BY NoteWritesType DEF FrameRetrying, RateLimited, ServiceInv, StoreInv
<1>2. PICK h \in Frames : h = Head(queue) /\ outcome[h] = "waiting"
  BY <1>1, HeadIsFirst DEF ServiceInv, BridgeInv, TypeOK, WireInv, QueueHoldsWaiting
<1>3. \A f \in Suggestions :
         record'[f] = IF f = h /\ record[f] \in Progress THEN "retrying" ELSE record[f]
  BY <1>1, <1>2 DEF Advance, ServiceInv, StoreInv, Suggestions
<1>4. /\ record' \in [Suggestions -> Statuses]
      /\ \A g \in Suggestions : record'[g] \in Live => record[g] \in Live
  BY <1>1, <1>2, <1>3 DEF ServiceInv, StoreInv, Suggestions, Advance, Statuses, Live, Progress
<1>5. StoreInv'
  BY <1>1, <1>4, StoreShrinks DEF ServiceInv, StoreInv
<1>6. ASSUME NEW f \in Suggestions
      PROVE  StatusInv(f)'
  <2>1. LinkOutlivesFrame' <=> LinkOutlivesFrame
    BY <1>1 DEF LinkOutlivesFrame
  <2>2. StatusInv(f)
    BY DEF ServiceInv
  <2>3. CASE f = h /\ record[f] \in Progress
    <3>1. record'[f] = "retrying"
      BY <1>3, <2>3
    <3> QED
      BY <1>1, <1>2, <2>3, <3>1 DEF StatusInv
  <2>4. CASE ~(f = h /\ record[f] \in Progress)
    <3>1. record'[f] = record[f]
      BY <1>3, <2>4
    <3> QED
      BY <1>1, <2>1, <2>2, <3>1 DEF StatusInv
  <2> QED
    BY <2>3, <2>4
<1> QED
  BY <1>5, <1>6

\* What send() changes besides the promise of its frame: a frame it writes is the
\* head of the queue, and the head of the queue stays where it is.
LEMMA SendHasEffect ==
    ASSUME BridgeInv, NEW f \in Frames, Send(f)
    PROVE  /\ worker # "acked"
           /\ outcome[f] = "new" /\ outcome'[f] = "waiting"
           /\ Sent(f) => queue' # <<>> /\ Head(queue') = f
           /\ \A g \in Frames \ {f} : TurnEffect(g)
<1>1. worker # "acked" /\ queue' = Push(f) /\ outcome' = [outcome EXCEPT ![f] = "waiting"]
      /\ outcome[f] = "new"
  BY DEF Send, TurnStarts, Settled, IsNext
<1>2. outcome \in [Frames -> Outcomes] /\ attempts \in [Frames -> Nat]
  BY DEF BridgeInv, TypeOK
<1>3. queue' \in Seq(Frames) /\ queue' # <<>> /\ (queue # <<>> => Head(queue') = Head(queue))
  BY <1>1, PushType, HeadIsFirst DEF BridgeInv, TypeOK
<1>4. PICK h \in Frames : h = Head(queue')
  BY <1>3
<1>5. ASSUME NEW g \in Frames, attempts'[g] # attempts[g]
      PROVE  g = h
  <2>1. Transmit(queue')
    BY <1>5 DEF Send, ProcessQueue, Connect
  <2> QED
    BY <1>2, <1>4, <1>5, <2>1 DEF Transmit
<1>6. CASE queue # <<>>
  <2>1. outcome[h] = "waiting"
    BY <1>3, <1>4, <1>6, HeadIsFirst DEF BridgeInv, TypeOK, WireInv, QueueHoldsWaiting
  <2>2. ASSUME NEW g \in Frames \ {f}
        PROVE  TurnEffect(g)
    <3>1. outcome'[g] = outcome[g]
      BY <1>1, <1>2
    <3> QED
      BY <1>1, <1>3, <1>4, <1>5, <2>1, <3>1 DEF TurnEffect
  <2> QED
    BY <1>1, <1>2, <1>3, <1>4, <1>5, <2>1, <2>2 DEF Sent
<1>7. CASE queue = <<>>
  <2>1. h = f
    BY <1>1, <1>3, <1>4, <1>7 DEF Push
  <2>2. ASSUME NEW g \in Frames \ {f}
        PROVE  TurnEffect(g)
    BY <1>1, <1>2, <1>5, <1>7, <2>1 DEF TurnEffect
  <2> QED
    BY <1>1, <1>2, <1>3, <1>4, <2>1, <2>2
<1> QED
  BY <1>6, <1>7

LEMMA SubmitStep ==
    ASSUME ServiceInv, NEW f \in Suggestions, Submit(f)
    PROVE  StoreInv' /\ \A g \in Suggestions : StatusInv(g)'
<1>1. /\ Statused /\ f \in Frames /\ StoreHasCapacity /\ UNCHANGED <<faults, published>>
      /\ unanswered' \subseteq Suggestions
  BY NoteWritesType DEF ServiceInv, StoreInv, Statused, Suggestions, Submit
<1>2. \A g \in Suggestions : StatusInv(g)
  BY DEF ServiceInv
<1>3. CASE SendRefused(f) /\ record' = [record EXCEPT ![f] = OnRejected("queued")]
  <2>1. record' = [record EXCEPT ![f] = "failed"]
    BY <1>3 DEF OnRejected, Conclude, Live, Progress
  <2>2. record' \in [Suggestions -> Statuses]
    BY <1>1, <2>1 DEF Statused, Statuses, Live, Terminal
  <2>3. /\ record'[f] = "failed"
        /\ \A g \in Suggestions \ {f} : record'[g] = record[g]
    BY <1>1, <2>1 DEF Statused
  <2>4. StoreInv'
    BY <1>1, <2>2, <2>3, StoreGrows DEF ServiceInv, StoreInv
  <2>5. /\ outcome'[f] = "refused"
        /\ \A g \in Suggestions \ {f} : outcome'[g] = outcome[g]
        /\ UNCHANGED <<queue, worker, current>>
    BY <1>1, <1>3 DEF SendRefused, ServiceInv, BridgeInv, TypeOK, job, Suggestions
  <2>6. LinkOutlivesFrame' <=> LinkOutlivesFrame
    BY <1>1 DEF LinkOutlivesFrame
  <2>7. ASSUME NEW g \in Suggestions
        PROVE  StatusInv(g)'
    <3>1. CASE g = f
      BY <2>3, <2>5, <3>1 DEF StatusInv
    <3>2. CASE g # f
      BY <1>1, <1>2, <2>3, <2>5, <2>6, <3>2 DEF StatusInv
    <3> QED
      BY <3>1, <3>2
  <2> QED
    BY <2>4, <2>7
<1>4. CASE /\ Send(f)
           /\ record' = [g \in Suggestions |->
                            IF g # f THEN React(g) ELSE IF Sent(f) THEN "sending" ELSE "queued"]
  <2>1. /\ outcome'[f] = "waiting"
        /\ Sent(f) => queue' # <<>> /\ Head(queue') = f
        /\ \A g \in Frames \ {f} : TurnEffect(g)
    BY <1>1, <1>4, SendHasEffect DEF ServiceInv
  <2>2. /\ record'[f] = IF Sent(f) THEN "sending" ELSE "queued"
        /\ \A g \in Suggestions \ {f} : record'[g] = React(g)
    BY <1>4
  <2>3. record' \in [Suggestions -> Statuses]
    BY <1>1, <1>4, ReactType DEF Statuses, Live, Progress
  <2>4. StoreInv'
    BY <1>1, <2>2, <2>3, ReactType, StoreGrows DEF ServiceInv, StoreInv
  <2>5. ASSUME NEW g \in Suggestions
        PROVE  StatusInv(g)'
    <3>1. CASE g = f
      BY <2>1, <2>2, <3>1 DEF StatusInv
    <3>2. CASE g # f
      BY <1>1, <1>2, <2>1, <2>2, <3>2, ReactKeepsStatus DEF ServiceInv, Suggestions
    <3> QED
      BY <3>1, <3>2
  <2> QED
    BY <2>4, <2>5
<1> QED
  BY <1>3, <1>4 DEF Submit

LEMMA VerdictStep ==
    ASSUME ServiceInv, NEW f \in Suggestions, NEW status \in Terminal, Verdict(f, status)
    PROVE  StoreInv' /\ \A g \in Suggestions : StatusInv(g)'
<1>1. /\ record' = [record EXCEPT ![f] = Conclude(@, status)]
      /\ published' = published \cup {f} /\ UNCHANGED <<vars, unanswered>>
  BY DEF Verdict
<1>2. Statused /\ f \in Frames
  BY DEF ServiceInv, StoreInv, Statused, Suggestions
<1>3. \A g \in Suggestions :
         record'[g] = IF g = f /\ record[f] \in Live THEN status ELSE record[g]
  BY <1>1, <1>2 DEF Conclude, Statused
<1>4. /\ record' \in [Suggestions -> Statuses]
      /\ \A g \in Suggestions : record'[g] \in Live => record[g] \in Live
  BY <1>1, <1>2, <1>3 DEF Statused, Conclude, Statuses, Live
<1>5. StoreInv'
  BY <1>1, <1>2, <1>4, StoreShrinks DEF ServiceInv, Statused
<1>6. UNCHANGED <<queue, outcome, worker, current, faults>>
  BY <1>1 DEF vars, ledger, job
<1>7. LinkOutlivesFrame' <=> LinkOutlivesFrame
  BY <1>6 DEF LinkOutlivesFrame
<1>8. ASSUME NEW g \in Suggestions
      PROVE  StatusInv(g)'
  <2>1. StatusInv(g)
    BY DEF ServiceInv
  <2>2. CASE g = f /\ record[f] \in Live
    <3>1. record'[g] = status /\ status \in {"confirmed", "failed"} /\ record[g] # "none"
      BY <1>3, <2>2 DEF Terminal, Live, Progress
    <3>2. g \in published'
      BY <1>1, <2>2
    <3> QED
      BY <1>1, <1>6, <1>7, <2>1, <2>2, <3>1, <3>2 DEF StatusInv
  <2>3. CASE ~(g = f /\ record[f] \in Live)
    <3>1. record'[g] = record[g] /\ published \subseteq published'
      BY <1>1, <1>3, <2>3
    <3> QED
      BY <1>6, <1>7, <2>1, <3>1 DEF StatusInv
  <2> QED
    BY <2>2, <2>3
<1> QED
  BY <1>5, <1>8

LEMMA ExpireStep ==
    ASSUME ServiceInv, NEW f \in Suggestions, Expire(f)
    PROVE  StoreInv' /\ \A g \in Suggestions : StatusInv(g)'
<1>1. /\ record[f] \in Live /\ record' = [record EXCEPT ![f] = "expired"]
      /\ published' = published /\ UNCHANGED <<vars, unanswered>>
  BY DEF Expire
<1>2. Statused
  BY DEF ServiceInv, StoreInv, Statused
<1>3. \A g \in Suggestions : record'[g] = IF g = f THEN "expired" ELSE record[g]
  BY <1>1, <1>2 DEF Statused
<1>4. /\ record' \in [Suggestions -> Statuses]
      /\ \A g \in Suggestions : record'[g] \in Live => record[g] \in Live
  BY <1>1, <1>2, <1>3 DEF Statused, Statuses, Live, Progress, Terminal
<1>5. StoreInv'
  BY <1>1, <1>2, <1>4, StoreShrinks DEF ServiceInv, Statused
<1>6. UNCHANGED <<queue, outcome, worker, current, faults>>
  BY <1>1 DEF vars, ledger, job
<1>7. LinkOutlivesFrame' <=> LinkOutlivesFrame
  BY <1>6 DEF LinkOutlivesFrame
<1>8. ASSUME NEW g \in Suggestions
      PROVE  StatusInv(g)'
  <2>1. StatusInv(g)
    BY DEF ServiceInv
  <2>2. record[f] # "none"
    BY <1>1 DEF Live, Progress, Terminal
  <2> QED
    BY <1>1, <1>3, <1>6, <1>7, <2>1, <2>2 DEF StatusInv
<1> QED
  BY <1>5, <1>8

-----------------------------------------------------------------------------
(* The theorems.                                                           *)

\* A step of the service is a step of the client or leaves it alone.
LEMMA ServiceStepsBridge ==
    ASSUME [ServiceNext]_serviceVars
    PROVE  [Next]_vars
<1>1. ASSUME NEW f \in Suggestions, Submit(f)
      PROVE  Next
  BY <1>1 DEF Submit, Next, Step, Suggestions
<1>2. ASSUME NEW p \in Pauses, FrameRetrying(p)
      PROVE  Next
  BY <1>2 DEF FrameRetrying, Next, Step
<1>3. CASE BridgeTurn
  BY <1>3 DEF BridgeTurn, Next, Step
<1>4. ASSUME NEW f \in Suggestions, Expire(f) \/ \E s \in Terminal : Verdict(f, s)
      PROVE  UNCHANGED vars
  BY <1>4 DEF Expire, Verdict
<1>5. CASE UNCHANGED serviceVars
  BY <1>5 DEF serviceVars
<1> QED
  BY <1>1, <1>2, <1>3, <1>4, <1>5 DEF ServiceNext

\* The client behind the service behaves like the client by itself, so that all
\* its theorems hold here too.
THEOREM ServiceUsesBridge == ServiceSpec => Spec
<1>1. ServiceInit => Init
  BY DEF ServiceInit
<1> QED
  BY <1>1, ServiceStepsBridge, PTL DEF ServiceSpec, Spec

LEMMA ServiceInvInit ==
    ASSUME ServiceInit, BridgeInv
    PROVE  ServiceInv
<1>1. Init /\ record = [f \in Suggestions |-> "none"] /\ published = {} /\ unanswered = {}
  BY DEF ServiceInit
<1>2. LiveOnes = {}
  BY <1>1 DEF LiveOnes, Live, Progress, Terminal
<1>3. StoreInv
  BY <1>1, <1>2, FS_EmptySet, StoreAssumption DEF StoreInv, Statuses
<1>4. ASSUME NEW f \in Suggestions
      PROVE  StatusInv(f)
  BY <1>1 DEF StatusInv, Init, Suggestions
<1> QED
  BY <1>3, <1>4 DEF ServiceInv

LEMMA ServiceInvStep ==
    ASSUME ServiceInv, [ServiceNext]_serviceVars, BridgeInv'
    PROVE  ServiceInv'
<1>1. ASSUME ServiceNext
      PROVE  StoreInv' /\ \A f \in Suggestions : StatusInv(f)'
  BY <1>1, TurnStep, RetryingStep, SubmitStep, VerdictStep, ExpireStep DEF ServiceNext
<1>2. ASSUME UNCHANGED serviceVars
      PROVE  StoreInv' /\ \A f \in Suggestions : StatusInv(f)'
  <2>1. UNCHANGED <<record, published, unanswered, queue, outcome, worker, current, faults>>
    BY <1>2 DEF serviceVars, vars, ledger, job
  <2>2. LiveOnes' = LiveOnes
    BY <2>1 DEF LiveOnes
  <2>3. StoreInv'
    BY <2>1, <2>2 DEF ServiceInv, StoreInv
  <2>4. LinkOutlivesFrame' <=> LinkOutlivesFrame
    BY <2>1 DEF LinkOutlivesFrame
  <2> QED
    BY <2>1, <2>3, <2>4 DEF ServiceInv, StatusInv
<1> QED
  BY <1>1, <1>2 DEF ServiceInv

\* The inductive invariant: that of the client, the store, and the status of every
\* suggestion against the promise of its frame.
THEOREM ServiceInvCorrect == ServiceSpec => []ServiceInv
<1>1. ServiceSpec => []BridgeInv
  BY ServiceUsesBridge, BridgeInvariant, PTL
<1> QED
  BY <1>1, ServiceInvInit, ServiceInvStep, PTL DEF ServiceSpec

\* Every variable of the service and of its client stays in its range, and the
\* store never holds more than maxRecords live suggestions.
THEOREM ServiceTypeCorrect == ServiceSpec => []ServiceTypeOK
<1>1. ServiceInv => ServiceTypeOK
  BY DEF ServiceInv, BridgeInv, StoreInv, LiveOnes, ServiceTypeOK
<1> QED
  BY <1>1, ServiceInvCorrect, PTL

\* The status a client polls neither lags behind the delivery of its frame nor
\* runs ahead of it, whatever fails.
THEOREM StatusCorrect == ServiceSpec => []StatusFollowsDelivery
<1>1. ASSUME ServiceInv, AckBeforeResolve
      PROVE  StatusFollowsDelivery
  <2>1. ASSUME NEW f \in Suggestions, outcome[f] \notin {"new", "waiting"}
        PROVE  record[f] \in {"processing", "confirmed", "failed", "expired"}
    <3>1. record[f] \in Statuses /\ StatusInv(f)
      BY <1>1 DEF ServiceInv, StoreInv
    <3> QED
      BY <2>1, <3>1 DEF StatusInv, Statuses, Live, Progress, Terminal
  <2> QED
    BY <1>1, <2>1 DEF ServiceInv, StatusInv, AckBeforeResolve, StatusFollowsDelivery, Suggestions
<1>2. ServiceSpec => []AckBeforeResolve
  BY ServiceUsesBridge, AckCorrect, PTL
<1> QED
  BY <1>1, <1>2, ServiceInvCorrect, PTL

\* A status after a step of the client never leaves a final one for a progress
\* status, nor "confirmed" for "failed" once the frame is acknowledged or decided.
Sure(f) ==
    record[f] = "confirmed" /\ (outcome[f] # "waiting" \/ (worker = "acked" /\ current = f))

LEMMA ReactNeverGoesBack ==
    ASSUME ServiceInv, NEW f \in Frames, TurnEffect(f), record'[f] = React(f)
    PROVE  /\ record[f] \in Terminal => record'[f] \in Terminal \cup {"expired"}
           /\ Sure(f) => record'[f] \in {"confirmed", "expired"}
<1>1. StatusInv(f)
  BY DEF ServiceInv, Suggestions
<1>2. record[f] \in Terminal => record'[f] \in {record[f], "failed"}
  BY DEF React, Advance, OnSending, OnRejected, Conclude, Terminal, Progress, Live
<1>3. ASSUME Sure(f), outcome'[f] # outcome[f]
      PROVE  outcome'[f] = "resolved"
  BY <1>3 DEF Sure, TurnEffect
<1>4. ASSUME Sure(f)
      PROVE  ~JustSettled(f, Rejections)
  BY <1>3, <1>4 DEF JustSettled, Rejections
<1>5. Sure(f) => record'[f] = "confirmed"
  BY <1>4 DEF React, Advance, OnSending, Progress, Sure
<1> QED
  BY <1>2, <1>5 DEF Terminal

\* No late event takes a final status back, and what the bot has confirmed stays
\* confirmed until it expires once its frame is acknowledged or decided.
THEOREM NoWayBackCorrect == ServiceSpec => NoWayBack
<1>1. ASSUME ServiceInv, [ServiceNext]_serviceVars, NEW f \in Suggestions
      PROVE  /\ record[f] \in Terminal => record'[f] \in Terminal \cup {"expired"}
             /\ Sure(f) => record'[f] \in {"confirmed", "expired"}
  <2>0. record \in [Suggestions -> Statuses] /\ f \in Frames /\ StatusInv(f)
    BY <1>1 DEF ServiceInv, StoreInv, Suggestions
  <2>1. CASE BridgeTurn
    BY <1>1, <2>0, <2>1, TurnHasEffect, ReactNeverGoesBack DEF BridgeTurn, ServiceInv
  <2>2. ASSUME NEW p \in Pauses, FrameRetrying(p)
        PROVE  record[f] \in Terminal => record'[f] = record[f]
    BY <2>0, <2>2 DEF FrameRetrying, Advance, Progress, Terminal
  <2>3. ASSUME NEW g \in Suggestions, Submit(g), g # f
        PROVE  \/ record'[f] = record[f]
               \/ record'[f] = React(f) /\ TurnEffect(f)
    BY <1>1, <2>0, <2>3, SendHasEffect DEF Submit, ServiceInv, Suggestions
  <2>4. ASSUME Submit(f)
        PROVE  record[f] \notin Terminal
    BY <2>0, <2>4 DEF Submit, SendRefused, Send, IsNext, StatusInv, Terminal
  <2>5. ASSUME NEW g \in Suggestions, Expire(g)
        PROVE  record'[f] \in {record[f], "expired"}
    BY <2>0, <2>5 DEF Expire
  <2>6. ASSUME NEW g \in Suggestions, NEW s \in Terminal, Verdict(g, s)
        PROVE  /\ record[f] \in Terminal => record'[f] \in Terminal
               /\ Sure(f) => record'[f] = record[f]
    BY <2>0, <2>6 DEF Verdict, Conclude, StatusInv, Terminal, Live, Sure
  <2>7. CASE UNCHANGED serviceVars
    BY <2>7 DEF serviceVars, Sure
  <2>8. Sure(f) => record[f] \in Terminal /\ record[f] = "confirmed"
    BY DEF Sure, Terminal
  <2>9. ASSUME NEW g \in Suggestions, Submit(g), g # f
        PROVE  /\ record[f] \in Terminal => record'[f] \in Terminal \cup {"expired"}
               /\ Sure(f) => record'[f] \in {"confirmed", "expired"}
    BY <1>1, <2>0, <2>3, <2>8, <2>9, ReactNeverGoesBack
  <2> QED
    BY <1>1, <2>0, <2>1, <2>2, <2>4, <2>5, <2>6, <2>7, <2>8, <2>9 DEF ServiceNext, Terminal
<1>2. ASSUME ServiceInv, [ServiceNext]_serviceVars
      PROVE  [\A f \in Suggestions :
                /\ record[f] \in Terminal => record'[f] \in Terminal \cup {"expired"}
                /\ Sure(f) => record'[f] \in {"confirmed", "expired"}]_serviceVars
  BY <1>1, <1>2
<1> QED
  BY <1>2, ServiceInvCorrect, PTL DEF ServiceSpec, NoWayBack, Sure
=============================================================================
