------------------------ MODULE DiscordBridgeClient ------------------------
(***************************************************************************)
(* The outgoing queue of the Discord bridge client                         *)
(* (apps/api/src/modules/discord-bridge/discord-bridge.client.ts): one     *)
(* WebSocket opened on demand, a FIFO of frames, one frame in flight until *)
(* the bot acknowledges it, a pause when the bot reports a rate limit, an  *)
(* idle timer and a final close().                                         *)
(*                                                                         *)
(* The program is single-threaded.  An action is one turn of the event     *)
(* loop, or one of the microtasks a turn leaves behind: a settled phase-1  *)
(* promise (worker in Settled) or a queueMicrotask(processQueue) (kick).   *)
(* No turn starts before those have run (TurnStarts).                      *)
(***************************************************************************)
EXTENDS Naturals, Sequences

CONSTANTS
    MaxFrames,    \* bound: how many send() calls a behaviour makes
    MaxQueueSize, \* maxQueueSize
    MaxRetry,     \* maxRetryDurationMs, counted in units of the shortest pause
    Pauses        \* the pauses the bot may ask for, in the same unit

ASSUME BridgeAssumption ==
    /\ MaxFrames \in Nat
    /\ MaxQueueSize \in Nat \ {0}
    /\ MaxRetry \in Nat \ {0}
    /\ Pauses \subseteq Nat \ {0}

(***************************************************************************)
(* What the surroundings may do in a behaviour, chosen once:               *)
(* "DropWhilePaused": the connection is lost while the client waits out a  *)
(* rate limit.  "SilentBot": the bot leaves a frame unanswered for the     *)
(* whole idle timeout.  "Coalesced": several frames of the bot arrive in   *)
(* one chunk, so the socket emits them before any microtask runs.          *)
(* "EarlyRateLimit": the bot answers LOGIN itself with RATE_LIMITED.       *)
(***************************************************************************)
FaultKinds == {"DropWhilePaused", "SilentBot", "Coalesced", "EarlyRateLimit"}

Frames == 1..MaxFrames
NoFrame == 0

Outcomes == {"new", "refused", "waiting",
             "resolved", "unavailable", "errored", "dropped", "limited", "closed"}

VARIABLES
    queue,      \* this.queue, as frame numbers
    outcome,    \* what became of the promise send() returned for each frame
    elapsed,    \* totalRetryElapsedMs of each frame, saturated at MaxRetry
    attempts,   \* how often each frame was written to a socket
    acked,      \* frames the bot has acknowledged with QUEUED
    link,       \* the socket: none, connecting, login (open, LOGIN sent),
                \* ready (authenticated), stale (authenticated but no longer
                \* OPEN, its close or error event still to come)
    connecting, \* connectPromise # null, and its connectTimer armed
    idleArmed,  \* idleTimer armed
    worker,     \* how far processQueue() is with the frame in flight
    current,    \* its currentItem
    paused,     \* isPaused
    closed,     \* isClosed
    kick,       \* a queueMicrotask(processQueue) is due
    faults      \* the faults this behaviour admits

connection == <<link, connecting, idleArmed>>
job == <<worker, current>>
ledger == <<outcome, elapsed, attempts, acked>>
vars == <<queue, ledger, connection, job, paused, closed, kick, faults>>

Links == {"none", "connecting", "login", "ready", "stale"}
Settled == {"acked", "failed", "dropped", "limited"}
Workers == {"idle", "awaiting", "sleeping"} \cup Settled

Init ==
    /\ queue = <<>>
    /\ outcome = [f \in Frames |-> "new"]
    /\ elapsed = [f \in Frames |-> 0]
    /\ attempts = [f \in Frames |-> 0]
    /\ acked = {}
    /\ link = "none"
    /\ connecting = FALSE
    /\ idleArmed = FALSE
    /\ worker = "idle"
    /\ current = NoFrame
    /\ paused = FALSE
    /\ closed = FALSE
    /\ kick = FALSE
    /\ faults \in SUBSET FaultKinds

TurnStarts == worker \notin Settled /\ ~kick

Queued(f) == \E i \in DOMAIN queue : queue[i] = f

\* A promise is settled once: later calls of resolve or reject do nothing.
Settle(f, how) ==
    outcome' = [outcome EXCEPT ![f] = IF @ = "waiting" THEN how ELSE @]

\* The frames of the queue are all rejected and the queue is emptied.
RejectQueue(how) ==
    /\ queue' = <<>>
    /\ outcome' = [f \in Frames |->
                     IF Queued(f) /\ outcome[f] = "waiting" THEN how ELSE outcome[f]]

\* Mutant: the frame in flight is settled and left in the queue.
ShiftForgotten(q) == q

Shift(q) == IF q = <<>> THEN q ELSE Tail(q)

\* Mutant: the client appends at the wrong end of its queue.
PushFront(f) == <<f>> \o queue

Push(f) == Append(queue, f)

\* connectOrFailQueue() joins the attempt under way, or drops what is left of
\* the last socket and starts one.
Connect ==
    /\ connecting' = TRUE
    /\ link' = IF connecting THEN link ELSE "connecting"
    /\ UNCHANGED <<idleArmed, job, attempts>>

\* The head of the queue is written to the socket and awaits the bot's answer.
Transmit(q) ==
    /\ worker' = "awaiting"
    /\ current' = Head(q)
    /\ attempts' = [attempts EXCEPT ![Head(q)] = @ + 1]
    /\ idleArmed' = TRUE

\* processQueue() up to its await, on the queue q.
CanProcess(q) == worker = "idle" /\ q # <<>> /\ ~paused /\ ~closed

ProcessQueue(q) ==
    \/ /\ ~CanProcess(q)
       /\ UNCHANGED <<connection, job, attempts>>
    \/ /\ CanProcess(q) /\ link = "ready"
       /\ Transmit(q)
       /\ UNCHANGED <<link, connecting>>
    \/ /\ CanProcess(q) /\ link # "ready"
       /\ Connect

-----------------------------------------------------------------------------
(* Calls on the client.                                                    *)

\* Mutant: one frame too many.
HasCapacityOffByOne == Len(queue) <= MaxQueueSize

HasCapacity == Len(queue) < MaxQueueSize

\* Frames are numbered in the order of their send() calls.
IsNext(f) == outcome[f] = "new" /\ \A g \in 1..(f-1) : outcome[g] # "new"

Accepts == ~closed /\ HasCapacity

SendRefused(f) ==
    /\ TurnStarts /\ IsNext(f) /\ ~Accepts
    /\ outcome' = [outcome EXCEPT ![f] = "refused"]
    /\ UNCHANGED <<queue, elapsed, attempts, acked, connection, job, paused, closed, kick>>

Send(f) ==
    /\ TurnStarts /\ IsNext(f) /\ Accepts
    /\ queue' = Push(f)
    /\ outcome' = [outcome EXCEPT ![f] = "waiting"]
    /\ IF link \in {"ready", "stale"} THEN ProcessQueue(queue') ELSE Connect
    /\ UNCHANGED <<elapsed, acked, paused, closed, kick>>

\* What becomes of the worker when the phase-1 promise, if any, is rejected.
Interrupt == IF worker = "awaiting" THEN "dropped" ELSE worker

Close ==
    /\ TurnStarts /\ ~closed
    /\ closed' = TRUE
    /\ RejectQueue("closed")
    /\ worker' = Interrupt
    /\ link' = "none" /\ connecting' = FALSE /\ idleArmed' = FALSE
    /\ UNCHANGED <<elapsed, attempts, acked, current, paused, kick>>

-----------------------------------------------------------------------------
(* The connection.                                                         *)

SocketOpens ==
    /\ TurnStarts /\ link = "connecting"
    /\ link' = "login" /\ idleArmed' = TRUE
    /\ UNCHANGED <<queue, ledger, connecting, job, paused, closed, kick>>

LoginSuccess ==
    /\ TurnStarts /\ link = "login"
    /\ link' = "ready" /\ connecting' = FALSE /\ idleArmed' = TRUE
    /\ IF CanProcess(queue)
       THEN Transmit(queue)
       ELSE UNCHANGED <<job, attempts>>
    /\ UNCHANGED <<queue, outcome, elapsed, acked, paused, closed, kick>>

\* An attempt fails on a socket event or when its timer expires; the catch of
\* connectOrFailQueue() then empties the queue before the next turn.
AttemptFails ==
    /\ link' = "none" /\ connecting' = FALSE
    /\ RejectQueue("unavailable")
    /\ UNCHANGED <<elapsed, attempts, acked, idleArmed, job, paused, closed, kick>>

ConnectError == TurnStarts /\ link \in {"connecting", "login"} /\ AttemptFails

ConnectTimeout == TurnStarts /\ connecting /\ AttemptFails

MayLoseLink == worker = "sleeping" => "DropWhilePaused" \in faults

\* The authenticated socket leaves OPEN; its event is delivered later.
PeerGone ==
    /\ TurnStarts /\ link = "ready" /\ MayLoseLink
    /\ link' = "stale"
    /\ UNCHANGED <<queue, ledger, connecting, idleArmed, job, paused, closed, kick>>

\* handleSocketDisconnect()
Disconnect ==
    /\ TurnStarts /\ link \in {"ready", "stale"} /\ MayLoseLink
    /\ link' = "none"
    /\ worker' = Interrupt
    /\ UNCHANGED <<queue, ledger, connecting, idleArmed, current, paused, closed, kick>>

\* The timer is armed on open, on every message and on every write, and no
\* disconnect disarms it.  It outlasts the login (30 minutes against 10 s).
IdleTimeout ==
    /\ TurnStarts /\ idleArmed /\ link # "login"
    /\ link \in {"ready", "stale"} => MayLoseLink
    /\ worker = "awaiting" => "SilentBot" \in faults
    /\ idleArmed' = FALSE
    /\ link' = "none"
    /\ UNCHANGED <<queue, ledger, connecting, job, paused, closed, kick>>

-----------------------------------------------------------------------------
(* Frames of the bot.  One that changes nothing is not a step.             *)

FrameArrives ==
    /\ link \in {"login", "ready"}
    /\ ~kick
    /\ worker \in Settled => "Coalesced" \in faults

\* Mutant: the id of the acknowledgement is not compared.
AcknowledgesAny(f) == worker = "awaiting"

Acknowledges(f) == worker = "awaiting" /\ f = current

\* QUEUED with the id of a frame the bot was sent.  (One without an id counts
\* as the acknowledgement of the frame in flight.)
QueuedFrame(f) ==
    /\ FrameArrives
    /\ attempts[f] > 0
    /\ acked' = acked \cup {f}
    /\ worker' = IF Acknowledges(f) THEN "acked" ELSE worker
    /\ UNCHANGED <<queue, outcome, elapsed, attempts, connection, current, paused, closed, kick>>

\* Mutant: the pauses of a frame are not added up.
ChargeLatest(f, p) == p

Charge(f, p) == LET total == elapsed[f] + p
                IN  IF total < MaxRetry THEN total ELSE MaxRetry

\* ERROR with code RATE_LIMITED: charged to the head of the queue.
RateLimited(p) ==
    /\ FrameArrives
    /\ link = "login" => "EarlyRateLimit" \in faults
    /\ queue # <<>>
    /\ elapsed' = [elapsed EXCEPT ![Head(queue)] = Charge(Head(queue), p)]
    /\ paused' = TRUE
    /\ worker' = IF worker = "awaiting" THEN "limited" ELSE worker
    /\ UNCHANGED <<queue, outcome, attempts, acked, connection, current, closed, kick>>

\* Any other ERROR, and RATE_LIMITED with an empty queue.
ErrorFrame ==
    /\ FrameArrives
    /\ worker = "awaiting"
    /\ worker' = "failed"
    /\ UNCHANGED <<queue, ledger, connection, current, paused, closed, kick>>

-----------------------------------------------------------------------------
(* processQueue() after its await.                                         *)

\* Dropping the first frame of the queue, settling the frame in flight and
\* freeing the worker.
Finish(how) ==
    /\ queue' = Shift(queue)
    /\ Settle(current, how)
    /\ worker' = "idle" /\ current' = NoFrame
    /\ UNCHANGED <<elapsed, attempts, acked, connection, closed>>

\* Mutant: processQueue() is not scheduled again.
MoreWorkForgotten == FALSE

MoreWork == ~closed /\ queue' # <<>>

Unpause == paused' = FALSE

ResumeAcked ==
    /\ worker = "acked"
    /\ Finish("resolved")
    /\ kick' = (~paused /\ MoreWork)
    /\ UNCHANGED paused

ResumeFailed ==
    /\ worker \in {"failed", "dropped"}
    /\ Finish(IF worker = "failed" THEN "errored" ELSE "dropped")
    /\ kick' = MoreWork
    /\ UNCHANGED paused

ResumeLimited ==
    /\ worker = "limited"
    /\ worker' = "sleeping"
    /\ UNCHANGED <<queue, ledger, connection, current, paused, closed, kick>>

GiveUp == elapsed[current] >= MaxRetry

WakeAndGiveUp ==
    /\ TurnStarts /\ worker = "sleeping" /\ GiveUp
    /\ Finish("limited")
    /\ Unpause
    /\ kick' = MoreWork

WakeAndRetry ==
    /\ TurnStarts /\ worker = "sleeping" /\ ~GiveUp
    /\ worker' = "idle" /\ current' = NoFrame
    /\ Unpause
    /\ UNCHANGED queue
    /\ kick' = MoreWork
    /\ UNCHANGED <<ledger, connection, closed>>

RunKick ==
    /\ kick
    /\ kick' = FALSE
    /\ ProcessQueue(queue)
    /\ UNCHANGED <<queue, outcome, elapsed, acked, paused, closed>>

-----------------------------------------------------------------------------
Microtask == ResumeAcked \/ ResumeFailed \/ ResumeLimited \/ RunKick

Wake == WakeAndGiveUp \/ WakeAndRetry

\* Everything but the calls of send() and the rate limits.
Turn ==
    \/ Close
    \/ SocketOpens \/ LoginSuccess \/ ConnectError \/ ConnectTimeout
    \/ PeerGone \/ Disconnect \/ IdleTimeout
    \/ \E f \in Frames : QueuedFrame(f)
    \/ ErrorFrame
    \/ Microtask
    \/ Wake

Step ==
    \/ \E f \in Frames : SendRefused(f) \/ Send(f)
    \/ \E p \in Pauses : RateLimited(p)
    \/ Turn

Next == Step /\ UNCHANGED faults

Spec == Init /\ [][Next]_vars

\* The bot answers the frame in flight, one way or another.
AnswersCurrent ==
    /\ worker = "awaiting"
    /\ \/ QueuedFrame(current)
       \/ \E p \in Pauses : RateLimited(p)
       \/ ErrorFrame

\* The event loop runs microtasks and expired timers and delivers the close
\* event of a socket that is gone; the bot answers unless it may be silent.
Fairness ==
    /\ WF_vars(Microtask /\ UNCHANGED faults)
    /\ WF_vars(Wake /\ UNCHANGED faults)
    /\ WF_vars(ConnectTimeout /\ UNCHANGED faults)
    /\ WF_vars(link = "stale" /\ Disconnect /\ UNCHANGED faults)
    /\ WF_vars("SilentBot" \notin faults /\ AnswersCurrent /\ UNCHANGED faults)

FairSpec == Spec /\ Fairness

-----------------------------------------------------------------------------
(* Properties.                                                             *)

TypeOK ==
    /\ queue \in Seq(Frames) /\ Len(queue) <= MaxQueueSize
    /\ outcome \in [Frames -> Outcomes]
    /\ elapsed \in [Frames -> 0..MaxRetry]
    /\ attempts \in [Frames -> Nat]
    /\ acked \subseteq Frames
    /\ link \in Links
    /\ worker \in Workers
    /\ current \in Frames \cup {NoFrame}
    /\ connecting \in BOOLEAN /\ idleArmed \in BOOLEAN
    /\ paused \in BOOLEAN /\ closed \in BOOLEAN /\ kick \in BOOLEAN
    /\ faults \subseteq FaultKinds

\* Whatever the surroundings do, a frame that was written and is undecided is
\* the head of the queue: never two frames in the hands of the bot at once.
OneOnTheWire ==
    \A f \in Frames : outcome[f] = "waiting" /\ attempts[f] > 0 =>
        queue # <<>> /\ Head(queue) = f

\* A frame is written at most as often as pauses of the shortest length fit in
\* the retry budget, over reconnections and unsolicited rate limits too.
RetryBudget == \A f \in Frames : attempts[f] <= MaxRetry

\* send() resolves only for a frame the bot itself acknowledged, never on a late
\* acknowledgement of an earlier frame.
AckBeforeResolve == \A f \in Frames : outcome[f] = "resolved" => f \in acked

\* After close() nothing reconnects, waits for the bot or sits in the queue,
\* whichever timers and microtasks close() left behind.
ClosedForGood ==
    closed => link = "none" /\ ~connecting /\ queue = <<>> /\ worker # "awaiting"

\* The assumption under which the client keeps track of its frame in flight.
LinkOutlivesFrame == faults \cap {"DropWhilePaused", "SilentBot"} = {}

\* No send() is forgotten: an undecided frame is in the queue (and the queue
\* holds undecided frames only).
NoFrameLost ==
    LinkOutlivesFrame =>
        \A f \in Frames : outcome[f] = "waiting" <=> Queued(f)

\* The comment of failQueue(): a connection attempt is under way only while no
\* frame is in flight, so its failure rejects waiting frames only.
AttemptsFailIdle ==
    LinkOutlivesFrame => (connecting => worker = "idle")

\* The queue is paused only while the frame in flight waits out the rate limit,
\* so someone is left to resume it.
PauseHasOwner ==
    faults \cap {"Coalesced", "EarlyRateLimit"} = {} =>
        (paused => worker \in {"limited", "sleeping"})

\* Frames are written in the order of their send() calls: when one is written,
\* every earlier one is decided.
InOrder ==
    [][\A f \in Frames : attempts'[f] # attempts[f] /\ LinkOutlivesFrame =>
         \A g \in 1..(f-1) : outcome[g] # "waiting"]_vars

\* The client delivers what FrameDelivery promises its callers.
Delivery == INSTANCE FrameDelivery WITH
    status <- [f \in Frames |->
                 IF outcome[f] \in {"new", "refused", "waiting", "resolved"}
                 THEN outcome[f] ELSE "rejected"],
    open <- ~closed,
    orderly <- LinkOutlivesFrame

Delivers == Delivery!Spec

\* The comment of connectOrFailQueue() without its condition: an undecided frame
\* always waits in the queue, where a failing connection rejects it, so that no
\* promise is left pending.
NoPromiseLeftPending == \A f \in Frames : outcome[f] = "waiting" => Queued(f)

\* Every send() settles in the end.
EverySendSettles ==
    \A f \in Frames :
        (faults = {} /\ outcome[f] = "waiting") ~> outcome[f] # "waiting"
=============================================================================
