-------------------------- MODULE RoflUploadProofs --------------------------
(***************************************************************************)
(* Theorems about the upload sockets: the types, that one archive at a     *)
(* time is decompressed, that the queue holds those who wait and each was  *)
(* told its position, and that every temporary directory has somebody who  *)
(* will remove it, for any number of connections.                          *)
(***************************************************************************)
EXTENDS RoflUpload, FiniteSetTheorems, SequenceTheorems, TLAPS

\* The ranges of TypeOK that are not about the size of the queue.
Ranges ==
    /\ link \in [Connections -> {"up", "gone"}]
    /\ state \in [Connections -> {"idle", "uploading", "processing", "closed"}]
    /\ started \in [Connections -> 0..MaxUploads]
    /\ kind \in [Connections -> {"zip", "rofl"}]
    /\ stream \in [Connections -> {"none", "open", "destroyed"}]
    /\ sessionDir \in [Connections -> Dirs \cup {NoDir}]
    /\ batchDir \in [Connections -> Dirs \cup {NoDir}]
    /\ pipe \in [Connections -> {Idle} \cup Steps]
    /\ source \in [Connections -> Dirs \cup {NoDir}]
    /\ workDir \in [Connections -> Dirs \cup {NoDir}]
    /\ awaiting \in [Connections -> SUBSET Dirs]
    /\ removing \in SUBSET Dirs /\ disk \in SUBSET Dirs
    /\ queue \in Seq(Connections)
    /\ isRunning \in BOOLEAN

Slots == Cardinality(Connections)

Bounds == Len(queue) <= Slots /\ told \in [Connections -> 0..Slots]

\* While a handler runs no other upload of its connection starts, and only
\* archives meet the queue.
Handlers ==
    \A c \in Connections :
        /\ pipe[c] # Idle => state[c] \in {"processing", "closed"} /\ started[c] > 0
        /\ state[c] = "uploading" => started[c] > 0
        /\ pipe[c] \in {"queued", "unzip"} => kind[c] = "zip"
        /\ pipe[c] = "copy" => kind[c] = "rofl"

OnceEach(q) == \A i, j \in 1..Len(q) : q[i] = q[j] => i = j

\* The queue holds those who wait, once each.
QueueHoldsWaiters ==
    /\ OnceEach(queue)
    /\ \A c \in Connections : pipe[c] = "queued" <=> \E i \in 1..Len(queue) : queue[i] = c

Turns == QueueHoldsWaiters /\ TurnHasOneOwner /\ PositionsAreCurrent /\ Bounds

IInv == Ranges /\ Handlers /\ Turns

-----------------------------------------------------------------------------
(* Queues.                                                                 *)

\* RemoveAt(q, i) moves those behind the i-th one place up.
LEMMA RemoveAtProperties ==
    ASSUME NEW S, NEW q \in Seq(S), NEW i \in 1..Len(q)
    PROVE  /\ RemoveAt(q, i) \in Seq(S)
           /\ Len(RemoveAt(q, i)) = Len(q) - 1
           /\ \A j \in 1..(Len(q) - 1) : RemoveAt(q, i)[j] = IF j < i THEN q[j] ELSE q[j + 1]
<1>1. /\ SubSeq(q, 1, i - 1) \in Seq(S) /\ Len(SubSeq(q, 1, i - 1)) = i - 1
      /\ \A j \in 1..(i - 1) : SubSeq(q, 1, i - 1)[j] = q[j]
    BY SubSeqProperties
<1>2. /\ SubSeq(q, i + 1, Len(q)) \in Seq(S) /\ Len(SubSeq(q, i + 1, Len(q))) = Len(q) - i
      /\ \A j \in 1..(Len(q) - i) : SubSeq(q, i + 1, Len(q))[j] = q[i + j]
    BY SubSeqProperties
<1> DEFINE before == SubSeq(q, 1, i - 1)
           after == SubSeq(q, i + 1, Len(q))
<1>3. RemoveAt(q, i) = before \o after
    BY DEF RemoveAt
<1>4. /\ before \o after \in Seq(S)
      /\ Len(before \o after) = Len(before) + Len(after)
      /\ \A j \in 1..(Len(before) + Len(after)) :
            (before \o after)[j] = IF j <= Len(before) THEN before[j] ELSE after[j - Len(before)]
    BY <1>1, <1>2, ConcatProperties
<1> HIDE DEF before, after
<1>5. /\ Len(before) = i - 1 /\ \A j \in 1..(i - 1) : before[j] = q[j]
      /\ Len(after) = Len(q) - i /\ \A j \in 1..(Len(q) - i) : after[j] = q[i + j]
    BY <1>1, <1>2 DEF before, after
<1>6. Len(q) \in Nat
    OBVIOUS
<1>7. Len(before) + Len(after) = Len(q) - 1
    BY <1>5, <1>6
<1>8. ASSUME NEW j \in 1..(Len(q) - 1)
      PROVE  RemoveAt(q, i)[j] = IF j < i THEN q[j] ELSE q[j + 1]
    <2>1. CASE j < i
        BY <2>1, <1>3, <1>4, <1>5, <1>6, <1>7
    <2>2. CASE ~(j < i)
        <3>1. j - Len(before) \in 1..(Len(q) - i) /\ i + (j - Len(before)) = j + 1 /\ ~(j <= Len(before))
            BY <2>2, <1>5, <1>6
        <3>2. RemoveAt(q, i)[j] = after[j - Len(before)]
            BY <3>1, <1>3, <1>4, <1>7
        <3>3. QED
            BY <3>1, <3>2, <2>2, <1>5
    <2>3. QED
        BY <2>1, <2>2
<1>9. QED
    BY <1>3, <1>4, <1>7, <1>8

LEMMA AppendMembers ==
    ASSUME NEW S, NEW q \in Seq(S), NEW c \in S, NEW d
    PROVE  (\E i \in 1..Len(Append(q, c)) : Append(q, c)[i] = d) <=> d = c \/ \E i \in 1..Len(q) : q[i] = d
<1> DEFINE more == Append(q, c)
           n == Len(q)
<1>1. /\ n \in Nat /\ Len(more) = n + 1
      /\ \A i \in 1..n : more[i] = q[i]
      /\ more[n + 1] = c
    BY AppendProperties
<1> HIDE DEF more, n
<1>2. (\E i \in 1..Len(more) : more[i] = d) <=> d = c \/ \E i \in 1..n : q[i] = d
    <2>1. ASSUME NEW i \in 1..Len(more), more[i] = d, d # c
          PROVE  i \in 1..n /\ q[i] = d
        BY <1>1, <2>1
    <2>2. ASSUME NEW i \in 1..n, q[i] = d
          PROVE  i \in 1..Len(more) /\ more[i] = d
        BY <1>1, <2>2
    <2>3. n + 1 \in 1..Len(more) /\ more[n + 1] = c
        BY <1>1
    <2>4. QED
        BY <2>1, <2>2, <2>3
<1>3. QED
    BY <1>2 DEF more, n

LEMMA RemoveAtMembers ==
    ASSUME NEW S, NEW q \in Seq(S), OnceEach(q), NEW i \in 1..Len(q)
    PROVE  /\ OnceEach(RemoveAt(q, i))
           /\ \A d : (\E j \in 1..Len(RemoveAt(q, i)) : RemoveAt(q, i)[j] = d)
                      <=> d # q[i] /\ \E j \in 1..Len(q) : q[j] = d
<1> DEFINE less == RemoveAt(q, i)
           n == Len(q)
<1>0. /\ Len(less) = n - 1
      /\ \A j \in 1..(n - 1) : less[j] = IF j < i THEN q[j] ELSE q[j + 1]
    BY RemoveAtProperties, Zenon
<1>1. /\ n \in Nat /\ i \in 1..n /\ Len(less) = n - 1
      /\ \A j \in 1..(n - 1) : less[j] = IF j < i THEN q[j] ELSE q[j + 1]
    BY <1>0, LenProperties
<1>2. \A j, k \in 1..n : q[j] = q[k] => j = k
    BY DEF OnceEach
<1> HIDE DEF less, n
<1> DEFINE at(j) == IF j < i THEN j ELSE j + 1
<1>3. /\ \A j \in 1..Len(less) : at(j) \in 1..n /\ at(j) # i /\ less[j] = q[at(j)]
      /\ \A j, k \in 1..Len(less) : at(j) = at(k) => j = k
      /\ \A k \in 1..n : k # i => \E j \in 1..Len(less) : at(j) = k
    <2>1. \A j \in 1..Len(less) : at(j) \in 1..n /\ at(j) # i /\ less[j] = q[at(j)]
        BY <1>1
    <2>2. \A j, k \in 1..Len(less) : at(j) = at(k) => j = k
        BY <1>1
    <2>3. ASSUME NEW k \in 1..n, k # i
          PROVE  \E j \in 1..Len(less) : at(j) = k
        <3>1. CASE k < i
            <4>1. k \in 1..Len(less) /\ at(k) = k
                BY <3>1, <2>3, <1>1
            <4>2. QED
                BY <4>1
        <3>2. CASE ~(k < i)
            <4>1. k - 1 \in 1..Len(less) /\ at(k - 1) = k
                BY <3>2, <2>3, <1>1
            <4>2. QED
                BY <4>1
        <3>3. QED
            BY <3>1, <3>2
    <2>4. QED
        BY <2>1, <2>2, <2>3
<1> HIDE DEF at
<1>4. \A j, k \in 1..Len(less) : less[j] = less[k] => j = k
    <2> SUFFICES ASSUME NEW j \in 1..Len(less), NEW k \in 1..Len(less), less[j] = less[k]
                 PROVE  j = k
        OBVIOUS
    <2>1. q[at(j)] = q[at(k)] /\ at(j) \in 1..n /\ at(k) \in 1..n
        BY <1>3
    <2>2. at(j) = at(k)
        BY <2>1, <1>2
    <2>3. QED
        BY <2>2, <1>3
<1>5. ASSUME NEW d
      PROVE  (\E j \in 1..Len(less) : less[j] = d) <=> d # q[i] /\ \E j \in 1..n : q[j] = d
    <2>1. ASSUME NEW j \in 1..Len(less), less[j] = d
          PROVE  d # q[i] /\ \E k \in 1..n : q[k] = d
        <3>1. at(j) \in 1..n /\ at(j) # i /\ d = q[at(j)]
            BY <2>1, <1>3
        <3>2. QED
            BY <3>1, <1>1, <1>2
    <2>2. ASSUME NEW k \in 1..n, q[k] = d, d # q[i]
          PROVE  \E j \in 1..Len(less) : less[j] = d
        <3>1. PICK j \in 1..Len(less) : at(j) = k
            BY <2>2, <1>3
        <3>2. QED
            BY <3>1, <2>2, <1>3
    <2>3. QED
        BY <2>1, <2>2
<1>6. QED
    BY <1>4, <1>5 DEF less, n, OnceEach

\* The first leaves the queue as any other does.
LEMMA TailRemoves ==
    ASSUME NEW S, NEW q \in Seq(S), q # <<>>
    PROVE  Tail(q) = RemoveAt(q, 1) /\ 1 \in 1..Len(q) /\ Head(q) = q[1]
<1>1. Len(q) \in Nat /\ Len(q) # 0
    BY EmptySeq
<1>2. 1 \in 1..Len(q)
    BY <1>1
<1>3. /\ Tail(q) \in Seq(S) /\ Len(Tail(q)) = Len(q) - 1
      /\ \A i \in 1..Len(Tail(q)) : Tail(q)[i] = q[i + 1]
    BY HeadTailProperties
<1>4. /\ RemoveAt(q, 1) \in Seq(S) /\ Len(RemoveAt(q, 1)) = Len(q) - 1
      /\ \A j \in 1..(Len(q) - 1) : RemoveAt(q, 1)[j] = IF j < 1 THEN q[j] ELSE q[j + 1]
    BY <1>2, RemoveAtProperties
<1>5. \A i \in 1..Len(Tail(q)) : Tail(q)[i] = RemoveAt(q, 1)[i]
    BY <1>1, <1>3, <1>4
<1>6. Tail(q) = RemoveAt(q, 1)
    BY <1>3, <1>4, <1>5, SeqEqual
<1>7. QED
    BY <1>2, <1>6

\* Position() is the place of a member of a queue without repetitions.
LEMMA PositionProperties ==
    ASSUME NEW S, NEW q \in Seq(S), OnceEach(q), NEW i \in 1..Len(q)
    PROVE  Position(q, q[i]) = i
BY DEF Position, OnceEach

\* A queue without repetitions is no longer than the set it is drawn from; it is
\* shorter when somebody is not in it.
LEMMA QueueFits ==
    ASSUME NEW S, IsFiniteSet(S), NEW q \in Seq(S), OnceEach(q)
    PROVE  Len(q) <= Cardinality(S)
<1>1. q \in Injection(1..Len(q), S)
    BY DEF OnceEach, Injection, IsInjective
<1>2. Cardinality(1..Len(q)) = Len(q)
    <2>1. 1 \in Int /\ Len(q) \in Int
        OBVIOUS
    <2>2. Cardinality(1..Len(q)) = IF 1 > Len(q) THEN 0 ELSE Len(q) - 1 + 1
        BY <2>1, FS_Interval, Zenon
    <2>3. Len(q) \in Nat
        OBVIOUS
    <2>4. QED
        BY <2>2, <2>3
<1>3. Cardinality(1..Len(q)) <= Cardinality(S)
    BY <1>1, FS_Injection, Zenon
<1>4. QED
    BY <1>2, <1>3

LEMMA QueueLeavesRoom ==
    ASSUME NEW S, IsFiniteSet(S), NEW x \in S, NEW q \in Seq(S), OnceEach(q),
           \A i \in 1..Len(q) : q[i] # x
    PROVE  Len(q) + 1 <= Cardinality(S)
<1>1. q \in Seq(S \ {x})
    <2>1. q \in [1..Len(q) -> S \ {x}]
        OBVIOUS
    <2>2. QED
        BY <2>1
<1>2. IsFiniteSet(S \ {x}) /\ Cardinality(S \ {x}) = Cardinality(S) - 1 /\ Cardinality(S) \in Nat
    BY FS_RemoveElement, FS_CardinalityType
<1>3. Len(q) <= Cardinality(S \ {x})
    BY <1>1, <1>2, QueueFits
<1>4. QED
    BY <1>2, <1>3

LEMMA SlotsType == Slots \in Nat
BY UploadAssumption, FS_CardinalityType DEF Slots

LEMMA DirNames ==
    ASSUME NEW c \in Connections, NEW n \in 1..MaxUploads
    PROVE  <<c, n, "session">> \in Dirs /\ <<c, n, "work">> \in Dirs
BY DEF Dirs

-----------------------------------------------------------------------------
(* The turn.                                                               *)

\* A step that moves nobody to, from or within the queue and its turn.
LEMMA TurnsKept ==
    ASSUME IInv, Ranges', UNCHANGED turn,
           \A d \in Connections : pipe'[d] = "queued" <=> pipe[d] = "queued",
           \A d \in Connections : Decompressing(d)' <=> Decompressing(d)
    PROVE  Turns'
<1> USE DEF IInv, Ranges, Turns, turn
<1>1. QueueHoldsWaiters'
    BY DEF QueueHoldsWaiters, OnceEach
<1>2. TurnHasOneOwner'
    BY DEF TurnHasOneOwner
<1>3. PositionsAreCurrent'
    BY DEF PositionsAreCurrent, Contains
<1>4. Bounds'
    BY DEF Bounds
<1>5. QED
    BY <1>1, <1>2, <1>3, <1>4

\* One handler goes on between steps that have nothing to do with the turn.
LEMMA TurnsKeptByHandler ==
    ASSUME IInv, Ranges', NEW c \in Connections, NEW step,
           pipe[c] \notin {"queued", "unzip"}, step \notin {"queued", "unzip"},
           pipe[c] = "undo" => kind[c] # "zip",
           step = "undo" => kind[c] # "zip",
           pipe' = [pipe EXCEPT ![c] = step], UNCHANGED <<turn, kind>>
    PROVE  Turns'
<1>1. \A d \in Connections : pipe'[d] = "queued" <=> pipe[d] = "queued"
    BY DEF IInv, Ranges
<1>2. \A d \in Connections : Decompressing(d)' <=> Decompressing(d)
    BY DEF IInv, Ranges, Decompressing
<1>3. QED
    BY <1>1, <1>2, TurnsKept

\* acquire() while nothing is decompressed.
LEMMA TurnsTaken ==
    ASSUME IInv, Ranges', NEW c \in Connections, pipe[c] = "prepare", kind[c] = "zip", ~isRunning,
           Acquire(c), kind' = kind
    PROVE  Turns'
<1> USE DEF IInv, Ranges
<1>1. /\ isRunning' = TRUE /\ told' = [told EXCEPT ![c] = 1]
      /\ pipe' = [pipe EXCEPT ![c] = "unzip"] /\ queue' = queue
    BY DEF Acquire, Busy, Goto
<1>2. queue = <<>> /\ \A d \in Connections : ~Decompressing(d)
    BY DEF Turns, TurnHasOneOwner
<1>3. QueueHoldsWaiters'
    BY <1>1 DEF Turns, QueueHoldsWaiters, OnceEach
<1>4. TurnHasOneOwner'
    BY <1>1, <1>2 DEF TurnHasOneOwner, Decompressing
<1>5. PositionsAreCurrent'
    BY <1>1, <1>2 DEF Turns, PositionsAreCurrent, Contains
<1>6. Bounds'
    <2>1. Slots >= 1 /\ Slots \in Nat
        BY UploadAssumption, FS_EmptySet, FS_CardinalityType DEF Slots
    <2>2. QED
        BY <1>1, <2>1 DEF Turns, Bounds
<1>7. QED
    BY <1>3, <1>4, <1>5, <1>6 DEF Turns

\* What the queue looks like when one more waits.
LEMMA Enqueued ==
    ASSUME IInv, NEW c \in Connections, pipe[c] # "queued"
    PROVE  /\ Append(queue, c) \in Seq(Connections)
           /\ Len(Append(queue, c)) = Len(queue) + 1
           /\ \A i \in 1..Len(queue) : Append(queue, c)[i] = queue[i]
           /\ Append(queue, c)[Len(queue) + 1] = c
           /\ OnceEach(Append(queue, c))
<1> USE DEF IInv, Ranges
<1>1. /\ Append(queue, c) \in Seq(Connections)
      /\ Len(Append(queue, c)) = Len(queue) + 1
      /\ \A i \in 1..Len(queue) : Append(queue, c)[i] = queue[i]
      /\ Append(queue, c)[Len(queue) + 1] = c
    BY AppendProperties
<1>2. OnceEach(queue) /\ \A i \in 1..Len(queue) : queue[i] # c
    BY DEF Turns, QueueHoldsWaiters
<1>3. Len(queue) \in Nat
    OBVIOUS
<1>4. OnceEach(Append(queue, c))
    BY <1>1, <1>2, <1>3 DEF OnceEach
<1>5. QED
    BY <1>1, <1>4

\* notifyWaiters() tells everybody in the queue its position.
LEMMA Notified ==
    ASSUME NEW q \in Seq(Connections), OnceEach(q), Notify(q, TRUE), told \in [Connections -> 0..Slots]
    PROVE  /\ \A i \in 1..Len(q) : told'[q[i]] = i + 1
           /\ told' \in [Connections -> Nat]
           /\ \A d \in Connections : \/ told'[d] = told[d]
                                     \/ \E i \in 1..Len(q) : told'[d] = i + 1
<1>1. ASSUME NEW i \in 1..Len(q)
      PROVE  told'[q[i]] = i + 1
    <2>1. q[i] \in Connections /\ Contains(q, q[i]) /\ Position(q, q[i]) = i
        BY PositionProperties DEF Contains
    <2>2. told'[q[i]] = 1 + Position(q, q[i])
        BY <2>1 DEF Notify
    <2>3. QED
        BY <2>1, <2>2
<1>2. ASSUME NEW d \in Connections, ~Contains(q, d)
      PROVE  told'[d] = told[d]
    BY <1>2 DEF Notify
<1>3. told' = [d \in Connections |-> told'[d]]
    BY DEF Notify
<1>4. \A d \in Connections : told'[d] = told[d] \/ \E i \in 1..Len(q) : told'[d] = i + 1
    BY <1>1, <1>2 DEF Contains
<1>5. \A d \in Connections : told'[d] \in Nat
    BY <1>4, SlotsType
<1>6. QED
    BY <1>1, <1>3, <1>4, <1>5

LEMMA PositionsKnown ==
    ASSUME Ranges', QueueHoldsWaiters', \A i \in 1..Len(queue') : told'[queue'[i]] = i + 1
    PROVE  PositionsAreCurrent'
<1>1. DOMAIN queue' = 1..Len(queue') /\ \A i \in 1..Len(queue') : queue'[i] \in Connections
    BY DEF Ranges
<1>2. \A c \in Connections : pipe'[c] = "queued" => \E i \in 1..Len(queue') : queue'[i] = c
    BY DEF QueueHoldsWaiters
<1>3. \A i \in 1..Len(queue') : pipe'[queue'[i]] = "queued"
    BY <1>1 DEF QueueHoldsWaiters
<1>4. QED
    BY <1>1, <1>2, <1>3 DEF PositionsAreCurrent, Contains

\* acquire() while an archive is decompressed.
LEMMA TurnsAwaited ==
    ASSUME IInv, Ranges', NEW c \in Connections, pipe[c] = "prepare", kind[c] = "zip", isRunning,
           Acquire(c), kind' = kind
    PROVE  Turns'
<1> USE DEF IInv, Ranges
<1>1. /\ queue' = Append(queue, c) /\ Notify(queue', TRUE)
      /\ pipe' = [pipe EXCEPT ![c] = "queued"] /\ isRunning' = isRunning
    BY DEF Acquire, Busy, Goto
<1>2. /\ queue' \in Seq(Connections) /\ Len(queue') = Len(queue) + 1 /\ Len(queue) \in Nat
      /\ \A i \in 1..Len(queue) : queue'[i] = queue[i]
      /\ queue'[Len(queue) + 1] = c /\ OnceEach(queue')
    BY <1>1, Enqueued
<1>3. QueueHoldsWaiters'
    <2>1. ASSUME NEW d \in Connections
          PROVE  pipe'[d] = "queued" <=> \E i \in 1..Len(queue') : queue'[i] = d
        <3>1. CASE d = c
            BY <3>1, <1>1, <1>2
        <3>2. CASE d # c
            <4>1. pipe'[d] = pipe[d]
                BY <3>2, <1>1
            <4>2. (\E i \in 1..Len(queue') : queue'[i] = d) <=> \E i \in 1..Len(queue) : queue[i] = d
                BY <3>2, <1>1, AppendMembers
            <4>3. QED
                BY <4>1, <4>2 DEF Turns, QueueHoldsWaiters
        <3>3. QED
            BY <3>1, <3>2
    <2>2. OnceEach(queue)'
        BY <1>2 DEF OnceEach
    <2>3. QED
        BY <2>1, <2>2 DEF QueueHoldsWaiters
<1>4. \A d \in Connections : Decompressing(d)' <=> Decompressing(d)
    BY <1>1 DEF Decompressing
<1>5. TurnHasOneOwner'
    BY <1>1, <1>4 DEF Turns, TurnHasOneOwner
<1>6. \A i \in 1..Len(queue') : told'[queue'[i]] = i + 1
    BY <1>1, <1>2, Notified DEF Turns, Bounds
<1>7. PositionsAreCurrent'
    BY <1>3, <1>6, PositionsKnown
<1>8. Bounds'
    <2>1. PICK e \in Connections : Decompressing(e)
        BY DEF Turns, TurnHasOneOwner
    <2>2. \A i \in 1..Len(queue') : queue'[i] # e
        BY <2>1, <1>3, <1>4 DEF QueueHoldsWaiters, Decompressing
    <2>3. Len(queue') + 1 <= Slots
        BY <1>2, <2>2, QueueLeavesRoom, UploadAssumption DEF Slots
    <2>4. /\ told' \in [Connections -> Nat]
          /\ \A d \in Connections : told'[d] = told[d] \/ \E i \in 1..Len(queue') : told'[d] = i + 1
        BY <1>1, <1>2, Notified DEF Turns, Bounds
    <2>5. ASSUME NEW d \in Connections
          PROVE  told'[d] \in 0..Slots
        <3>1. told[d] \in 0..Slots
            BY DEF Turns, Bounds
        <3>2. CASE \E i \in 1..Len(queue') : told'[d] = i + 1
            BY <3>2, <2>3, <1>2, SlotsType
        <3>3. QED
            BY <3>1, <3>2, <2>4
    <2>6. Len(queue') <= Slots
        BY <2>3, <1>2, SlotsType
    <2> HIDE DEF IInv, Ranges
    <2>7. told' \in [Connections -> 0..Slots]
        BY <2>4, <2>5
    <2>8. QED
        BY <2>6, <2>7 DEF Bounds
<1>9. QED
    BY <1>3, <1>5, <1>7, <1>8 DEF Turns

\* The turn passes, or is free again.
LEMMA TurnsReleased ==
    ASSUME IInv, Ranges', NEW c \in Connections, Decompressing(c), NEW after \in {"import", Idle},
           Release(c, after), kind' = kind
    PROVE  Turns'
<1> USE DEF IInv, Ranges, Idle
<1>1. isRunning /\ pipe[c] # "queued" /\ \A d \in Connections : Decompressing(d) => d = c
    BY DEF Turns, TurnHasOneOwner, Decompressing
<1>2. CASE queue = <<>>
    <2>1. /\ isRunning' = FALSE /\ pipe' = [pipe EXCEPT ![c] = after] /\ queue' = queue /\ told' = told
        BY <1>2 DEF Release, Goto
    <2>2. QueueHoldsWaiters'
        BY <2>1, <1>1 DEF Turns, QueueHoldsWaiters, OnceEach
    <2>3. \A d \in Connections : ~Decompressing(d)'
        BY <2>1, <1>1 DEF Decompressing
    <2>4. TurnHasOneOwner'
        BY <1>2, <2>1, <2>3 DEF TurnHasOneOwner
    <2>5. PositionsAreCurrent' /\ Bounds'
        BY <1>1, <2>1 DEF Turns, PositionsAreCurrent, Contains, Bounds
    <2>6. QED
        BY <2>2, <2>4, <2>5 DEF Turns
<1>3. CASE queue # <<>>
    <2> DEFINE h == Head(queue)
    <2>1. /\ queue' = Tail(queue) /\ isRunning' = isRunning
          /\ told' = [d \in Connections |->
                        IF d = h THEN 1
                        ELSE IF Contains(queue, d) THEN Position(queue, d)
                        ELSE told[d]]
          /\ pipe' = [pipe EXCEPT ![c] = after, ![h] = "unzip"]
        BY <1>3 DEF Release
    <2>2. /\ queue' = RemoveAt(queue, 1) /\ 1 \in 1..Len(queue) /\ h = queue[1]
          /\ OnceEach(queue)
        BY <1>3, <2>1, TailRemoves DEF Turns, QueueHoldsWaiters
    <2>3. /\ h \in Connections /\ pipe[h] = "queued" /\ h # c /\ kind[h] = "zip"
        BY <2>2, <1>1 DEF Turns, QueueHoldsWaiters, Handlers
    <2> HIDE DEF h
    <2>4. /\ OnceEach(queue')
          /\ \A d : (\E j \in 1..Len(queue') : queue'[j] = d) <=> d # h /\ \E j \in 1..Len(queue) : queue[j] = d
        <3>1. /\ OnceEach(RemoveAt(queue, 1))
              /\ \A d : (\E j \in 1..Len(RemoveAt(queue, 1)) : RemoveAt(queue, 1)[j] = d)
                         <=> d # queue[1] /\ \E j \in 1..Len(queue) : queue[j] = d
            BY <2>2, RemoveAtMembers
        <3>2. QED
            BY <3>1, <2>2, Zenon
    <2>5. /\ queue' \in Seq(Connections) /\ Len(queue') = Len(queue) - 1 /\ Len(queue) \in Nat
          /\ \A j \in 1..(Len(queue) - 1) : queue'[j] = queue[j + 1]
        BY <1>3, <2>1, HeadTailProperties
    <2>6. QueueHoldsWaiters'
        <3>1. \A d \in Connections : pipe'[d] = "queued" <=> d # h /\ pipe[d] = "queued"
            BY <2>1, <2>3, <1>1
        <3>2. OnceEach(queue)'
            BY <2>4 DEF OnceEach
        <3>3. \A d \in Connections : pipe[d] = "queued" <=> \E i \in 1..Len(queue) : queue[i] = d
            BY DEF Turns, QueueHoldsWaiters
        <3>4. \A d \in Connections : pipe'[d] = "queued" <=> \E i \in 1..Len(queue') : queue'[i] = d
            BY <3>1, <3>3, <2>4, Zenon
        <3>5. QED
            BY <3>2, <3>4 DEF QueueHoldsWaiters
    <2>7. \A d \in Connections : Decompressing(d)' <=> d = h
        <3>1. \A d \in Connections :
                 pipe'[d] = IF d = h THEN "unzip" ELSE IF d = c THEN after ELSE pipe[d]
            BY <2>1, <2>3
        <3> HIDE DEF IInv, Ranges
        <3>2. ASSUME NEW d \in Connections, d # h
              PROVE  ~Decompressing(d)'
            BY <3>1, <3>2, <1>1 DEF Decompressing
        <3>3. ASSUME NEW d \in Connections, d = h
              PROVE  Decompressing(d)'
            BY <3>1, <3>3 DEF Decompressing
        <3>4. QED
            BY <3>2, <3>3
    <2>8. TurnHasOneOwner'
        BY <2>1, <2>3, <2>7, <1>1 DEF TurnHasOneOwner
    <2>9. ASSUME NEW i \in 1..Len(queue')
          PROVE  told'[queue'[i]] = i + 1 /\ queue'[i] \in Connections
        <3>1. i + 1 \in 1..Len(queue) /\ queue'[i] = queue[i + 1] /\ i + 1 # 1
            BY <2>5
        <3>2. Position(queue, queue[i + 1]) = i + 1
            BY <3>1, <2>2, PositionProperties
        <3>3. queue[i + 1] \in Connections /\ queue[i + 1] # h
            <4>1. queue[i + 1] \in Connections
                BY <3>1
            <4>2. queue[i + 1] = queue[1] => i + 1 = 1
                BY <3>1, <2>2, Zenon DEF OnceEach
            <4>3. QED
                BY <4>1, <4>2, <3>1, <2>2
        <3>4. Contains(queue, queue[i + 1])
            BY <3>1, Zenon DEF Contains
        <3>5. QED
            BY <2>1, <3>1, <3>2, <3>3, <3>4
    <2>10. PositionsAreCurrent'
        BY <2>6, <2>9, PositionsKnown
    <2>11. Bounds'
        <3>1. Len(queue) <= Slots /\ 1 <= Slots /\ Slots \in Nat
            BY <2>2, SlotsType DEF Turns, Bounds
        <3>2. ASSUME NEW d \in Connections
              PROVE  told'[d] \in 0..Slots
            <4>1. CASE d = h
                BY <4>1, <2>1, <3>1
            <4>2. CASE d # h /\ Contains(queue, d)
                <5>1. PICK j \in 1..Len(queue) : queue[j] = d
                    BY <4>2 DEF Contains
                <5>2. Position(queue, d) = j
                    BY <5>1, <2>2, PositionProperties
                <5>3. QED
                    BY <4>2, <5>2, <2>1, <3>1
            <4>3. CASE d # h /\ ~Contains(queue, d)
                BY <4>3, <2>1 DEF Turns, Bounds
            <4>4. QED
                BY <4>1, <4>2, <4>3
        <3>3. QED
            BY <2>1, <2>5, <3>1, <3>2 DEF Bounds
    <2>12. QED
        BY <2>6, <2>8, <2>10, <2>11 DEF Turns
<1>4. QED
    BY <1>2, <1>3

\* A client leaves the queue.
LEMMA TurnsAborted ==
    ASSUME IInv, Ranges', NEW c \in Connections, pipe[c] = "queued",
           queue' = Without(c), NotifyLeft(Without(c), isRunning), Goto(c, Idle), UNCHANGED <<kind, isRunning>>
    PROVE  Turns'
<1> USE DEF IInv, Ranges, Idle
<1>1. PICK i \in 1..Len(queue) : queue[i] = c
    BY DEF Turns, QueueHoldsWaiters
<1>2. isRunning
    BY <1>1 DEF Turns, TurnHasOneOwner
<1>3. OnceEach(queue) /\ queue' = RemoveAt(queue, i)
    BY <1>1, PositionProperties DEF Turns, QueueHoldsWaiters, Without
<1>4. /\ OnceEach(queue')
      /\ \A d : (\E j \in 1..Len(queue') : queue'[j] = d) <=> d # c /\ \E j \in 1..Len(queue) : queue[j] = d
    <2>1. /\ OnceEach(RemoveAt(queue, i))
          /\ \A d : (\E j \in 1..Len(RemoveAt(queue, i)) : RemoveAt(queue, i)[j] = d)
                     <=> d # queue[i] /\ \E j \in 1..Len(queue) : queue[j] = d
        BY <1>3, RemoveAtMembers
    <2>2. QED
        BY <2>1, <1>1, <1>3
<1>5. queue' \in Seq(Connections) /\ Len(queue') = Len(queue) - 1 /\ Len(queue) \in Nat
    <2>1. PICK q \in Seq(Connections) : q = queue
        OBVIOUS
    <2>2. i \in 1..Len(q) /\ queue' = RemoveAt(q, i) /\ Len(q) \in Nat
        BY <1>3, <2>1
    <2>3. RemoveAt(q, i) \in Seq(Connections) /\ Len(RemoveAt(q, i)) = Len(q) - 1
        BY <2>2, RemoveAtProperties, Zenon
    <2>4. QED
        BY <2>1, <2>2, <2>3
<1>6. pipe' = [pipe EXCEPT ![c] = Idle] /\ Notify(queue', TRUE)
    BY <1>2 DEF Goto, NotifyLeft
<1>7. QueueHoldsWaiters'
    <2>1. \A d \in Connections : pipe'[d] = "queued" <=> d # c /\ pipe[d] = "queued"
        BY <1>6
    <2>2. OnceEach(queue)'
        BY <1>4 DEF OnceEach
    <2>3. QED
        BY <2>1, <2>2, <1>4 DEF Turns, QueueHoldsWaiters
<1>8. \A d \in Connections : Decompressing(d)' <=> Decompressing(d)
    BY <1>6 DEF Decompressing
<1>9. TurnHasOneOwner'
    BY <1>2, <1>8 DEF Turns, TurnHasOneOwner
<1>10. /\ \A j \in 1..Len(queue') : told'[queue'[j]] = j + 1
       /\ told' \in [Connections -> Nat]
       /\ \A d \in Connections : told'[d] = told[d] \/ \E j \in 1..Len(queue') : told'[d] = j + 1
    BY <1>4, <1>5, <1>6, Notified DEF Turns, Bounds
<1>11. PositionsAreCurrent'
    BY <1>7, <1>10, PositionsKnown
<1>12. Bounds'
    <2>1. Len(queue') + 1 <= Slots
        BY <1>5, SlotsType DEF Turns, Bounds
    <2>2. ASSUME NEW d \in Connections
          PROVE  told'[d] \in 0..Slots
        <3>1. told[d] \in 0..Slots
            BY DEF Turns, Bounds
        <3>2. CASE \E j \in 1..Len(queue') : told'[d] = j + 1
            BY <3>2, <2>1, <1>5, SlotsType
        <3>3. QED
            BY <3>1, <3>2, <1>10
    <2>3. Len(queue') <= Slots
        BY <2>1, <1>5, SlotsType
    <2>4. told' \in [Connections -> 0..Slots]
        BY <2>2, <1>10
    <2>5. QED
        BY <2>3, <2>4 DEF Bounds
<1>13. QED
    BY <1>7, <1>9, <1>11, <1>12 DEF Turns

-----------------------------------------------------------------------------
(* The steps.                                                              *)

DirRanges ==
    /\ stream \in [Connections -> {"none", "open", "destroyed"}]
    /\ sessionDir \in [Connections -> Dirs \cup {NoDir}]
    /\ batchDir \in [Connections -> Dirs \cup {NoDir}]
    /\ awaiting \in [Connections -> SUBSET Dirs]
    /\ removing \in SUBSET Dirs

LEMMA TakeSessionRanges ==
    ASSUME Ranges, NEW c \in Connections, TakeSession(c)
    PROVE  sessionDir' \in [Connections -> Dirs \cup {NoDir}] /\ removing' \in SUBSET Dirs
BY DEF Ranges, TakeSession

LEMMA CleanupRanges ==
    ASSUME Ranges, NEW c \in Connections, Cleanup(c)
    PROVE  DirRanges'
<1>1. /\ stream' \in [Connections -> {"none", "open", "destroyed"}]
      /\ batchDir' \in [Connections -> Dirs \cup {NoDir}]
    BY DEF Ranges, Cleanup
<1>2. CASE batchDir[c] # NoDir
    <2>1. batchDir[c] \in Dirs
        BY <1>2 DEF Ranges
    <2>2. awaiting' \in [Connections -> SUBSET Dirs] /\ UNCHANGED <<sessionDir, removing>>
        <3>1. /\ awaiting' = [awaiting EXCEPT ![c] = awaiting[c] \cup {batchDir[c]}]
              /\ UNCHANGED <<sessionDir, removing>>
            BY <1>2 DEF Cleanup
        <3>2. awaiting \in [Connections -> SUBSET Dirs]
            BY DEF Ranges
        <3>3. QED
            BY <2>1, <3>1, <3>2
    <2>3. QED
        BY <1>1, <2>2 DEF DirRanges, Ranges
<1>3. CASE batchDir[c] = NoDir
    <2>1. TakeSession(c) /\ UNCHANGED awaiting
        BY <1>3 DEF Cleanup
    <2>2. QED
        BY <1>1, <2>1, TakeSessionRanges DEF DirRanges, Ranges
<1>4. QED
    BY <1>2, <1>3

LEMMA StartStep == ASSUME IInv, NEW c \in Connections, Start(c) PROVE IInv'
<1> USE DEF Start, dirs, local, turn, Idle
<1>1. started[c] + 1 \in 1..MaxUploads /\ pipe[c] = Idle
    <2>1. started[c] \in 0..MaxUploads /\ started[c] < MaxUploads /\ MaxUploads \in Nat
        BY UploadAssumption DEF IInv, Ranges
    <2>2. pipe[c] = Idle
        BY DEF IInv, Handlers
    <2>3. QED
        BY <2>1, <2>2
<1>2. Ranges'
    <2>1. <<c, started[c] + 1, "session">> \in Dirs
        BY <1>1, DirNames
    <2>2. PICK k \in Offers(c) : kind' = [kind EXCEPT ![c] = k]
        OBVIOUS
    <2>3. k \in {"zip", "rofl"}
        BY DEF Offers
    <2>4. started' \in [Connections -> 0..MaxUploads]
        BY <1>1 DEF IInv, Ranges
    <2>5. kind' \in [Connections -> {"zip", "rofl"}]
        BY <2>2, <2>3 DEF IInv, Ranges
    <2>6. sessionDir' \in [Connections -> Dirs \cup {NoDir}] /\ disk' \in SUBSET Dirs
        BY <2>1 DEF IInv, Ranges
    <2>7. QED
        BY <2>4, <2>5, <2>6 DEF IInv, Ranges
<1>3. Handlers'
    BY <1>1 DEF IInv, Ranges, Handlers
<1>4. \A d \in Connections : Decompressing(d)' <=> Decompressing(d)
    BY <1>1 DEF Decompressing, IInv, Ranges
<1>5. Turns'
    BY <1>2, <1>4, TurnsKept
<1>6. QED
    BY <1>2, <1>3, <1>5 DEF IInv

LEMMA QuotaStep == ASSUME IInv, NEW c \in Connections, Quota(c) PROVE IInv'
<1> USE DEF Quota, local, turn, Idle
<1>1. Ranges'
    <2>1. Ranges /\ DirRanges'
        BY CleanupRanges DEF IInv
    <2>2. QED
        BY <2>1 DEF DirRanges, Ranges
<1>2. Handlers'
    BY DEF IInv, Ranges, Handlers
<1>3. Turns'
    BY <1>1, TurnsKept DEF Decompressing
<1>4. QED
    BY <1>1, <1>2, <1>3 DEF IInv

LEMMA DiskFailsStep == ASSUME IInv, NEW c \in Connections, DiskFails(c) PROVE IInv'
<1> USE DEF DiskFails, dirs, local, turn, Idle
<1>1. Ranges'
    BY DEF IInv, Ranges
<1>2. Handlers'
    BY DEF IInv, Ranges, Handlers
<1>3. Turns'
    BY <1>1, TurnsKept DEF Decompressing
<1>4. QED
    BY <1>1, <1>2, <1>3 DEF IInv

LEMMA FinishStep == ASSUME IInv, NEW c \in Connections, Finish(c) PROVE IInv'
<1> USE DEF Finish, Goto, dirs, turn, Idle
<1>1. Ranges'
    BY DEF IInv, Ranges, Steps
<1>2. Handlers' /\ pipe[c] = Idle
    BY DEF IInv, Ranges, Handlers
<1>3. Turns'
    BY <1>1, <1>2, TurnsKeptByHandler
<1>4. QED
    BY <1>1, <1>2, <1>3 DEF IInv

LEMMA FlushedStep == ASSUME IInv, NEW c \in Connections, Flushed(c) PROVE IInv'
<1> USE DEF Flushed, Goto, dirs, turn, Idle
<1>1. Ranges'
    BY DEF IInv, Ranges, Steps
<1>2. Handlers'
    BY DEF IInv, Ranges, Handlers
<1>3. Turns'
    BY <1>1, TurnsKeptByHandler
<1>4. QED
    BY <1>1, <1>2, <1>3 DEF IInv

LEMMA FlushFailsStep == ASSUME IInv, NEW c \in Connections, FlushFails(c) PROVE IInv'
<1> USE DEF FlushFails, Goto, turn, Idle
<1>1. Ranges'
    <2>1. sessionDir' \in [Connections -> Dirs \cup {NoDir}] /\ removing' \in SUBSET Dirs
        BY TakeSessionRanges DEF IInv
    <2>2. QED
        BY <2>1 DEF IInv, Ranges, Steps
<1>2. Handlers'
    BY DEF IInv, Ranges, Handlers
<1>3. Turns'
    BY <1>1, TurnsKeptByHandler
<1>4. QED
    BY <1>1, <1>2, <1>3 DEF IInv

LEMMA DiscardedStep == ASSUME IInv, NEW c \in Connections, Discarded(c) PROVE IInv'
<1> USE DEF Discarded, Goto, dirs, turn, Idle
<1>1. Ranges'
    BY DEF IInv, Ranges, Steps
<1>2. Handlers'
    BY DEF IInv, Ranges, Handlers
<1>3. Turns'
    BY <1>1, TurnsKeptByHandler
<1>4. QED
    BY <1>1, <1>2, <1>3 DEF IInv

\* The end of a handler, whatever becomes of its turn.
LEMMA EndRanges ==
    ASSUME IInv, NEW c \in Connections, End(c)
    PROVE  /\ DirRanges'
           /\ state' = [state EXCEPT ![c] = "idle"]
           /\ source' \in [Connections -> Dirs \cup {NoDir}]
           /\ UNCHANGED <<link, started, kind>>
<1>1. Ranges /\ Cleanup(c)
    BY DEF IInv, End
<1>2. DirRanges'
    BY <1>1, CleanupRanges
<1>3. QED
    BY <1>2 DEF End, IInv, Ranges

LEMMA LeaveStep ==
    ASSUME IInv, NEW c \in Connections, NEW step \in {"prepare", "import"}, Leave(c, step)
    PROVE  IInv'
<1> USE DEF Leave, Goto, turn, Idle
<1>1. Ranges'
    <2>1. /\ DirRanges' /\ state' = [state EXCEPT ![c] = "idle"]
          /\ source' \in [Connections -> Dirs \cup {NoDir}]
          /\ UNCHANGED <<link, started, kind>>
        BY EndRanges
    <2>2. pipe' = [pipe EXCEPT ![c] = Idle] /\ UNCHANGED <<workDir, disk, queue, isRunning>>
        OBVIOUS
    <2>3. pipe' \in [Connections -> {Idle} \cup Steps]
        BY <2>2 DEF IInv, Ranges
    <2>4. QED
        BY <2>1, <2>2, <2>3 DEF DirRanges, IInv, Ranges
<1>2. Handlers'
    BY EndRanges DEF IInv, Ranges, Handlers
<1>3. Turns'
    BY <1>1, EndRanges, TurnsKeptByHandler
<1>4. QED
    BY <1>1, <1>2, <1>3 DEF IInv

\* What a change of the turn does to the variables it shares with the rest.
LEMMA TurnRanges ==
    ASSUME IInv, NEW c \in Connections, NEW after \in {Idle} \cup Steps,
           Acquire(c) \/ Release(c, after)
    PROVE  /\ pipe' \in [Connections -> {Idle} \cup Steps]
           /\ queue' \in Seq(Connections) /\ isRunning' \in BOOLEAN
<1> USE DEF Goto, Idle, Steps
<1>0. /\ pipe \in [Connections -> {Idle} \cup Steps]
      /\ queue \in Seq(Connections) /\ isRunning \in BOOLEAN
    BY DEF IInv, Ranges
<1>1. CASE Acquire(c)
    <2>1. Append(queue, c) \in Seq(Connections)
        BY <1>0, AppendProperties
    <2>2. QED
        BY <1>0, <1>1, <2>1 DEF Acquire
<1>2. CASE Release(c, after) /\ queue = <<>>
    BY <1>0, <1>2 DEF Release
<1>3. CASE Release(c, after) /\ queue # <<>>
    <2>1. Tail(queue) \in Seq(Connections) /\ Head(queue) \in Connections
        BY <1>0, <1>3, HeadTailProperties
    <2>2. /\ pipe' = [pipe EXCEPT ![c] = after, ![Head(queue)] = "unzip"]
          /\ queue' = Tail(queue) /\ isRunning' = isRunning
        BY <1>3 DEF Release
    <2>3. pipe' \in [Connections -> {Idle} \cup Steps]
        BY <1>0, <2>1, <2>2
    <2>4. QED
        BY <1>0, <2>1, <2>2, <2>3
<1>4. QED
    BY <1>1, <1>2, <1>3

\* Whoever gets the turn was waiting for it.
LEMMA ReleaseHandlers ==
    ASSUME IInv, NEW c \in Connections, NEW after \in {Idle, "import"}, Decompressing(c), Release(c, after),
           state' = state \/ (after = Idle /\ state' = [state EXCEPT ![c] = "idle"]),
           UNCHANGED <<kind, started>>
    PROVE  Handlers'
<1> USE DEF IInv, Ranges, Idle
<1>1. CASE queue = <<>>
    BY <1>1 DEF Release, Goto, Handlers, Decompressing
<1>2. CASE queue # <<>>
    <2> DEFINE h == Head(queue)
    <2>1. h = queue[1] /\ 1 \in 1..Len(queue)
        BY <1>2, TailRemoves
    <2>2. h \in Connections /\ pipe[h] = "queued" /\ h # c
        BY <2>1 DEF Turns, QueueHoldsWaiters, Decompressing
    <2>3. pipe' = [pipe EXCEPT ![c] = after, ![h] = "unzip"]
        BY <1>2 DEF Release
    <2> HIDE DEF h
    <2>4. QED
        BY <2>2, <2>3 DEF Handlers, Decompressing
<1>3. QED
    BY <1>1, <1>2

LEMMA MakeWorkDirStep == ASSUME IInv, NEW c \in Connections, MakeWorkDir(c) PROVE IInv'
<1> DEFINE d == <<c, started[c], "work">>
<1>1. /\ pipe[c] = "prepare" /\ workDir' = [workDir EXCEPT ![c] = d] /\ disk' = disk \cup {d}
    BY DEF MakeWorkDir
<1>2. d \in Dirs
    <2>1. started[c] \in 0..MaxUploads /\ started[c] > 0 /\ MaxUploads \in Nat
        BY <1>1, UploadAssumption DEF IInv, Ranges, Handlers, Idle
    <2>2. started[c] \in 1..MaxUploads
        BY <2>1
    <2>3. QED
        BY <2>2, DirNames
<1> HIDE DEF d
<1>3. workDir' \in [Connections -> Dirs \cup {NoDir}] /\ disk' \in SUBSET Dirs
    BY <1>1, <1>2 DEF IInv, Ranges
<1>4. CASE kind[c] = "rofl" /\ Goto(c, "copy") /\ UNCHANGED <<session, dirs, source, turn>>
    <2> USE <1>4 DEF session, dirs, turn, Goto, Idle
    <2>1. Ranges'
        BY <1>1, <1>3 DEF IInv, Ranges, Steps
    <2>2. Handlers'
        BY <1>1 DEF IInv, Ranges, Handlers
    <2>3. Turns'
        BY <1>1, <2>1, TurnsKeptByHandler
    <2>4. QED
        BY <2>1, <2>2, <2>3 DEF IInv
<1>5. CASE kind[c] = "zip" /\ link[c] = "up" /\ Acquire(c) /\ UNCHANGED <<session, dirs, source>>
    <2> USE <1>5 DEF session, dirs
    <2>1. Ranges'
        <3>1. /\ pipe' \in [Connections -> {Idle} \cup Steps]
              /\ queue' \in Seq(Connections) /\ isRunning' \in BOOLEAN
            BY TurnRanges
        <3>2. QED
            BY <1>3, <3>1 DEF IInv, Ranges
    <2>2. Handlers'
        BY <1>1 DEF IInv, Ranges, Handlers, Acquire, Goto, Idle
    <2>3. Turns'
        BY <1>1, <2>1, TurnsTaken, TurnsAwaited
    <2>4. QED
        BY <2>1, <2>2, <2>3 DEF IInv
<1>6. CASE kind[c] = "zip" /\ link[c] = "gone" /\ End(c) /\ Goto(c, Idle) /\ UNCHANGED turn
    <2> USE <1>6 DEF turn, Goto, Idle
    <2>1. Ranges'
        BY <1>3, EndRanges DEF DirRanges, IInv, Ranges, Steps
    <2>2. Handlers'
        BY EndRanges DEF IInv, Ranges, Handlers
    <2>3. Turns'
        BY <1>1, <2>1, EndRanges, TurnsKeptByHandler
    <2>4. QED
        BY <2>1, <2>2, <2>3 DEF IInv
<1>7. QED
    BY <1>4, <1>5, <1>6 DEF MakeWorkDir

LEMMA KeepRanges ==
    ASSUME Ranges, NEW c \in Connections, Keep(c)
    PROVE  /\ batchDir' \in [Connections -> Dirs \cup {NoDir}]
           /\ workDir' \in [Connections -> Dirs \cup {NoDir}]
           /\ UNCHANGED <<session, sessionDir, awaiting, removing, source, disk>>
BY DEF Ranges, Keep

LEMMA CopiedStep == ASSUME IInv, NEW c \in Connections, Copied(c) PROVE IInv'
<1> USE DEF Copied, Goto, session, turn, Idle
<1>1. Ranges'
    BY KeepRanges DEF IInv, Ranges, Steps
<1>2. Handlers'
    BY KeepRanges DEF IInv, Ranges, Handlers
<1>3. Turns'
    BY <1>1, KeepRanges, TurnsKeptByHandler DEF IInv
<1>4. QED
    BY <1>1, <1>2, <1>3 DEF IInv

LEMMA UnzippedStep == ASSUME IInv, NEW c \in Connections, Unzipped(c) PROVE IInv'
<1>1. /\ Decompressing(c) /\ Release(c, "import") /\ Ranges
      /\ batchDir' \in [Connections -> Dirs \cup {NoDir}]
      /\ workDir' \in [Connections -> Dirs \cup {NoDir}]
      /\ UNCHANGED <<session, sessionDir, awaiting, removing, source, disk>>
    BY KeepRanges DEF Unzipped, Decompressing, IInv
<1> USE DEF session
<1>2. Ranges'
    <2>1. /\ pipe' \in [Connections -> {Idle} \cup Steps]
          /\ queue' \in Seq(Connections) /\ isRunning' \in BOOLEAN
        BY <1>1, TurnRanges DEF Steps
    <2>2. QED
        BY <1>1, <2>1 DEF Ranges
<1>3. Handlers'
    BY <1>1, ReleaseHandlers
<1>4. Turns'
    BY <1>1, <1>2, TurnsReleased
<1>5. QED
    BY <1>2, <1>3, <1>4 DEF IInv

LEMMA FilesFailStep == ASSUME IInv, NEW c \in Connections, FilesFail(c) PROVE IInv'
<1> USE DEF Continue, Goto, session, dirs, turn, Idle
<1>1. PICK from \in {"copy", "unzip"} : Continue(c, from, "undo")
    BY DEF FilesFail
<1>2. /\ pipe[c] = from /\ pipe' = [pipe EXCEPT ![c] = "undo"]
      /\ UNCHANGED <<session, dirs, source, workDir, disk, turn>>
    BY <1>1
<1>3. Ranges'
    BY <1>2 DEF IInv, Ranges, Steps
<1>4. Handlers'
    BY <1>2 DEF IInv, Ranges, Handlers
<1>5. \A d \in Connections : pipe'[d] = "queued" <=> pipe[d] = "queued"
    BY <1>2 DEF IInv, Ranges
<1>6. \A d \in Connections : Decompressing(d)' <=> Decompressing(d)
    BY <1>2 DEF IInv, Ranges, Handlers, Decompressing
<1>7. Turns'
    BY <1>2, <1>3, <1>5, <1>6, TurnsKept
<1>8. QED
    BY <1>3, <1>4, <1>7 DEF IInv

\* The end of a handler whose files failed, with the turn it may have had.
LEMMA UndoneStep == ASSUME IInv, NEW c \in Connections, Undone(c) PROVE IInv'
<1>1. /\ DirRanges' /\ state' = [state EXCEPT ![c] = "idle"]
      /\ source' \in [Connections -> Dirs \cup {NoDir}] /\ UNCHANGED <<link, started, kind>>
    BY EndRanges DEF Undone
<1>2. /\ pipe[c] = "undo" /\ Ranges
      /\ disk' \in SUBSET Dirs /\ workDir' \in [Connections -> Dirs \cup {NoDir}]
    BY DEF Undone, IInv, Ranges
<1>3. CASE kind[c] = "zip" /\ Release(c, Idle)
    <2>1. /\ pipe' \in [Connections -> {Idle} \cup Steps]
          /\ queue' \in Seq(Connections) /\ isRunning' \in BOOLEAN
        BY <1>3, TurnRanges
    <2>2. Ranges'
        BY <1>1, <1>2, <2>1 DEF Ranges, DirRanges
    <2>3. Decompressing(c)
        BY <1>2, <1>3 DEF Decompressing
    <2>4. Handlers'
        BY <1>1, <1>3, <2>3, ReleaseHandlers
    <2>5. Turns'
        BY <1>1, <1>3, <2>2, <2>3, TurnsReleased
    <2>6. QED
        BY <2>2, <2>4, <2>5 DEF IInv
<1>4. CASE kind[c] # "zip" /\ Goto(c, Idle) /\ UNCHANGED turn
    <2> USE DEF Goto, Idle, turn
    <2>1. Ranges'
        BY <1>1, <1>2, <1>4 DEF Ranges, DirRanges
    <2>2. Handlers'
        BY <1>1, <1>2, <1>4 DEF IInv, Ranges, Handlers
    <2>3. Turns'
        BY <1>1, <1>2, <1>4, <2>1, TurnsKeptByHandler
    <2>4. QED
        BY <2>1, <2>2, <2>3 DEF IInv
<1>5. QED
    BY <1>3, <1>4 DEF Undone, GivesBack

LEMMA GoneStep == ASSUME IInv, NEW c \in Connections, Gone(c) PROVE IInv'
<1>1. /\ DirRanges' /\ Ranges /\ link' = [link EXCEPT ![c] = "gone"]
      /\ UNCHANGED <<started, kind, workDir, disk, isRunning>>
    BY CleanupRanges DEF Gone, IInv
<1>2. CASE pipe[c] = "queued"
    <2>1. /\ queue' = Without(c) /\ NotifyLeft(Without(c), isRunning) /\ Goto(c, Idle)
          /\ source' = [source EXCEPT ![c] = NoDir] /\ state' = [state EXCEPT ![c] = "idle"]
        BY <1>2 DEF Gone
    <2>2. queue' \in Seq(Connections)
        <3>1. PICK i \in 1..Len(queue) : queue[i] = c
            BY <1>2 DEF IInv, Turns, QueueHoldsWaiters
        <3>2. Without(c) = RemoveAt(queue, i)
            BY <3>1, PositionProperties DEF IInv, Ranges, Turns, QueueHoldsWaiters, Without
        <3>3. QED
            BY <2>1, <3>2, RemoveAtProperties DEF IInv, Ranges
    <2>3. Ranges'
        BY <1>1, <2>1, <2>2 DEF Ranges, DirRanges, Goto
    <2>4. Handlers'
        BY <1>1, <2>1 DEF IInv, Ranges, Handlers, Goto, Idle
    <2>5. Turns'
        BY <1>1, <1>2, <2>1, <2>3, TurnsAborted
    <2>6. QED
        BY <2>3, <2>4, <2>5 DEF IInv
<1>3. CASE pipe[c] # "queued"
    <2>1. state' = [state EXCEPT ![c] = "closed"] /\ UNCHANGED <<queue, told, pipe, source>>
        BY <1>3 DEF Gone
    <2>2. Ranges'
        BY <1>1, <2>1 DEF Ranges, DirRanges
    <2>3. Handlers'
        BY <1>1, <2>1 DEF IInv, Ranges, Handlers, Idle
    <2>4. Turns'
        BY <1>1, <2>1, <2>2, TurnsKept DEF Decompressing, turn
    <2>5. QED
        BY <2>2, <2>3, <2>4 DEF IInv
<1>4. QED
    BY <1>2, <1>3

LEMMA RemovalStep == ASSUME IInv, Removal PROVE IInv'
<1> USE DEF session, local, turn
<1>1. Ranges' /\ UNCHANGED <<pipe, kind, state, started, turn>>
    <2>1. PICK d \in Dirs : Removed(d) \/ \E c \in Connections : BatchRemoved(c, d)
        BY DEF Removal
    <2>2. CASE Removed(d)
        BY <2>2 DEF IInv, Ranges, Removed
    <2>3. ASSUME NEW c \in Connections, BatchRemoved(c, d)
          PROVE  Ranges' /\ UNCHANGED <<pipe, kind, state, started, turn>>
        <3>1. sessionDir' \in [Connections -> Dirs \cup {NoDir}] /\ removing' \in SUBSET Dirs
            BY <2>3, TakeSessionRanges DEF IInv, BatchRemoved
        <3>2. QED
            BY <2>3, <3>1 DEF IInv, Ranges, BatchRemoved
    <2>4. QED
        BY <2>1, <2>2, <2>3
<1>2. Handlers'
    BY <1>1 DEF IInv, Ranges, Handlers
<1>3. Turns'
    BY <1>1, TurnsKept DEF Decompressing
<1>4. QED
    BY <1>1, <1>2, <1>3 DEF IInv

\* The invariant holds at the start.
THEOREM IInvInit == Init => IInv
<1> SUFFICES ASSUME Init PROVE IInv
    OBVIOUS
<1>1. Ranges
    <2>1. started \in [Connections -> 0..MaxUploads]
        BY UploadAssumption DEF Init
    <2>2. queue \in Seq(Connections)
        BY DEF Init
    <2>3. isRunning \in BOOLEAN
        BY DEF Init
    <2>4. pipe \in [Connections -> {Idle} \cup Steps] /\ kind \in [Connections -> {"zip", "rofl"}]
        BY DEF Init
    <2>5. QED
        BY <2>1, <2>2, <2>3, <2>4 DEF Init, Ranges
<1>2. Handlers
    BY DEF Init, Handlers, Idle
<1>3. Turns
    BY SlotsType DEF Init, Turns, QueueHoldsWaiters, OnceEach, TurnHasOneOwner, PositionsAreCurrent,
       Contains, Decompressing, Bounds, Idle
<1>4. QED
    BY <1>1, <1>2, <1>3 DEF IInv

\* Every step preserves the invariant.
THEOREM IInvStep == IInv /\ [Next]_vars => IInv'
<1> SUFFICES ASSUME IInv, [Next]_vars PROVE IInv'
    OBVIOUS
<1>1. CASE UNCHANGED vars
    <2> USE <1>1 DEF vars, session, dirs, local, turn
    <2>1. Ranges' /\ Handlers'
        BY DEF IInv, Ranges, Handlers
    <2>2. Turns'
        BY <2>1, TurnsKept DEF Decompressing
    <2>3. QED
        BY <2>1, <2>2 DEF IInv
<1>2. ASSUME NEW c \in Connections,
             Start(c) \/ Quota(c) \/ DiskFails(c) \/ Finish(c) \/ Handler(c) \/ Gone(c)
      PROVE  IInv'
    BY <1>2, StartStep, QuotaStep, DiskFailsStep, FinishStep, FlushedStep, FlushFailsStep, DiscardedStep,
       LeaveStep, MakeWorkDirStep, CopiedStep, UnzippedStep, FilesFailStep, UndoneStep, GoneStep
       DEF Handler, Unauthorized, Import
<1>3. CASE Removal
    BY <1>3, RemovalStep
<1>4. QED
    BY <1>1, <1>2, <1>3 DEF Next

\* Every reachable state of the upload sockets satisfies the invariant.
THEOREM IInvCorrect == Spec => []IInv
<1>1. QED
    BY IInvInit, IInvStep, PTL DEF Spec

\* The variables stay in their ranges; the queue and the positions told never
\* exceed the number of connections.
THEOREM TypeCorrect == Spec => []TypeOK
<1>1. IInv => TypeOK
    BY DEF IInv, Ranges, Turns, Bounds, Slots, TypeOK
<1>2. QED
    BY <1>1, IInvCorrect, PTL

\* One archive at a time is decompressed and the turn is neither lost nor given
\* twice.
THEOREM TurnCorrect == Spec => []TurnHasOneOwner
<1>1. IInv => TurnHasOneOwner
    BY DEF IInv, Turns
<1>2. QED
    BY <1>1, IInvCorrect, PTL

\* Those who wait are in the queue, and the last position each was told is its own.
THEOREM PositionsCorrect == Spec => []PositionsAreCurrent
<1>1. IInv => PositionsAreCurrent
    BY DEF IInv, Turns
<1>2. QED
    BY <1>1, IInvCorrect, PTL

-----------------------------------------------------------------------------
(* Temporary directories.                                                  *)

\* A client that starts no upload before the directories of the last one are
\* gone, as the web client, which opens a socket for each upload.
Patient == \A c \in Connections : started'[c] # started[c] => sessionDir[c] = NoDir

PatientSpec == Init /\ [][Next /\ Patient]_vars

DirsOf(c) == {c} \X (1..MaxUploads) \X {"session", "work"}

Working == {"copy", "queued", "unzip", "undo"}

\* The directories a connection knows are those of its last upload.
Knows(c) ==
    /\ sessionDir[c] \in {NoDir, <<c, started[c], "session">>}
    /\ workDir[c] \in {NoDir, <<c, started[c], "work">>}
    /\ batchDir[c] \in {NoDir, <<c, started[c], "work">>}
    /\ \A d \in awaiting[c] : \E n \in 1..MaxUploads : d = <<c, n, "work">>
    /\ \A n \in 1..MaxUploads : <<c, n, "session">> \in removing => n <= started[c]
    /\ \A n \in 1..MaxUploads : <<c, n, "work">> \notin removing
    /\ workDir[c] # NoDir => pipe[c] \in Working \/ (pipe[c] = Idle /\ link[c] = "gone")
    /\ batchDir[c] # NoDir => pipe[c] = "import"
    /\ sessionDir[c] # NoDir => sessionDir[c] \in disk \ removing

\* While its client is there, an upload has its directories, and what is still
\* being removed is the work directory of one that ended.
Keeps(c) ==
    link[c] = "up" =>
        /\ pipe[c] # Idle => state[c] = "processing"
        /\ awaiting[c] # {} => sessionDir[c] # NoDir /\ state[c] \notin {"uploading", "processing"}
        /\ \A d, e \in awaiting[c] : d = e
        /\ state[c] \in {"uploading", "processing"} /\ pipe[c] # "discard" => sessionDir[c] # NoDir
        /\ pipe[c] \in Working => workDir[c] # NoDir /\ workDir[c] \in disk
        /\ pipe[c] = "import" => batchDir[c] # NoDir /\ batchDir[c] \in disk

Owns(c, d) ==
    \/ sessionDir[c] = d /\ (link[c] = "up" \/ awaiting[c] # {})
    \/ batchDir[c] = d /\ pipe[c] = "import"
    \/ workDir[c] = d /\ (pipe[c] # Idle \/ LeftBeforeItsTurn(c))
    \/ d \in awaiting[c]

DirsInv == (\A c \in Connections : Knows(c) /\ Keeps(c)) /\ DirectoriesHaveOwners

LEMMA NamesProperties ==
    /\ NoDir \notin Dirs
    /\ \A c \in Connections : DirsOf(c) \subseteq Dirs
    /\ \A c, e \in Connections : \A d \in DirsOf(c) : d \in DirsOf(e) => c = e
    /\ \A d \in Dirs : \E c \in Connections, n \in 1..MaxUploads : d \in {<<c, n, "session">>, <<c, n, "work">>}
    /\ \A c \in Connections : \A n \in 1..MaxUploads :
          <<c, n, "session">> \in DirsOf(c) /\ <<c, n, "work">> \in DirsOf(c)
BY UploadAssumption DEF Dirs, DirsOf

\* What a connection knows is named after it.
LEMMA KnownAreOwn ==
    ASSUME Ranges, NEW e \in Connections, Knows(e)
    PROVE  /\ sessionDir[e] # NoDir => sessionDir[e] \in DirsOf(e)
           /\ workDir[e] # NoDir => workDir[e] \in DirsOf(e)
           /\ batchDir[e] # NoDir => batchDir[e] \in DirsOf(e)
           /\ awaiting[e] \subseteq DirsOf(e)
<1>1. started[e] \in 0..MaxUploads /\ MaxUploads \in Nat
    BY UploadAssumption DEF Ranges
<1>2. ASSUME NEW d \in Dirs, NEW p \in {"session", "work"}, d = <<e, started[e], p>>
      PROVE  d \in DirsOf(e)
    BY <1>1, <1>2 DEF Dirs, DirsOf
<1>3. /\ sessionDir[e] # NoDir => sessionDir[e] \in Dirs
      /\ workDir[e] # NoDir => workDir[e] \in Dirs
      /\ batchDir[e] # NoDir => batchDir[e] \in Dirs
    BY DEF Ranges
<1>4. /\ sessionDir[e] # NoDir => sessionDir[e] = <<e, started[e], "session">>
      /\ workDir[e] # NoDir => workDir[e] = <<e, started[e], "work">>
      /\ batchDir[e] # NoDir => batchDir[e] = <<e, started[e], "work">>
      /\ \A d \in awaiting[e] : \E n \in 1..MaxUploads : d = <<e, n, "work">>
    BY DEF Knows
<1>5. ASSUME NEW d \in awaiting[e]
      PROVE  d \in DirsOf(e)
    <2>1. PICK n \in 1..MaxUploads : d = <<e, n, "work">>
        BY <1>4
    <2>2. QED
        BY <2>1, NamesProperties
<1>6. QED
    BY <1>2, <1>3, <1>4, <1>5

\* A step of one connection leaves the directories of the others alone.
LEMMA DirsKept ==
    ASSUME Ranges, DirsInv, NEW c \in Connections,
           \A e \in Connections \ {c} :
              /\ link'[e] = link[e] /\ state'[e] = state[e] /\ started'[e] = started[e]
              /\ sessionDir'[e] = sessionDir[e] /\ batchDir'[e] = batchDir[e]
              /\ workDir'[e] = workDir[e] /\ awaiting'[e] = awaiting[e]
              /\ pipe'[e] = pipe[e] \/ (pipe[e] = "queued" /\ pipe'[e] = "unzip"),
           \A d \in disk : d \in disk' \/ d \in DirsOf(c),
           \A d \in removing' : d \in removing \/ d \in DirsOf(c),
           Knows(c)', Keeps(c)',
           \A d \in disk' : d \in removing' \/ d \in disk \ removing \/ Owns(c, d)',
           \A d \in disk \ removing : Owns(c, d) => Owns(c, d)' \/ d \in removing' \/ d \notin disk'
    PROVE  DirsInv'
<1>1. ASSUME NEW e \in Connections \ {c}
      PROVE  Knows(e)' /\ Keeps(e)' /\ \A d : Owns(e, d) => Owns(e, d)'
    <2>1. Knows(e) /\ Keeps(e)
        BY DEF DirsInv
    <2>2. /\ sessionDir[e] # NoDir => sessionDir[e] \in DirsOf(e) /\ sessionDir[e] \notin DirsOf(c)
          /\ workDir[e] # NoDir => workDir[e] \in DirsOf(e) /\ workDir[e] \notin DirsOf(c)
          /\ batchDir[e] # NoDir => batchDir[e] \in DirsOf(e) /\ batchDir[e] \notin DirsOf(c)
        BY <2>1, KnownAreOwn, NamesProperties
    <2>3. \A n \in 1..MaxUploads : <<e, n, "session">> \notin DirsOf(c) /\ <<e, n, "work">> \notin DirsOf(c)
        BY NamesProperties
    <2>4. Knows(e)'
        BY <2>1, <2>2, <2>3 DEF Knows, Working, Idle
    <2>5. Keeps(e)'
        BY <2>1, <2>2 DEF Keeps, Working, Idle
    <2>6. \A d : Owns(e, d) => Owns(e, d)'
        BY DEF Owns, LeftBeforeItsTurn, Idle
    <2>7. QED
        BY <2>4, <2>5, <2>6
<1>2. \A d \in disk \ removing : \E e \in Connections : Owns(e, d)
    BY DEF DirsInv, DirectoriesHaveOwners, Owns
<1>3. \A d \in disk' \ removing' : \E e \in Connections : Owns(e, d)'
    BY <1>1, <1>2
<1>4. DirectoriesHaveOwners'
    BY <1>3 DEF DirectoriesHaveOwners, Owns
<1>5. QED
    BY <1>1, <1>4 DEF DirsInv

\* Steps that touch no directory.
LEMMA DirsSame ==
    ASSUME Ranges, DirsInv, NEW c \in Connections,
           UNCHANGED <<link, started, dirs, workDir, disk>>,
           \A e \in Connections \ {c} : state'[e] = state[e] /\ pipe'[e] = pipe[e],
           \/ pipe'[c] = pipe[c]
           \/ pipe'[c] = "undo" /\ pipe[c] \in Working
           \/ pipe'[c] \in {"flush", "prepare", Idle} /\ workDir[c] = NoDir /\ batchDir[c] = NoDir,
           Keeps(c)'
    PROVE  DirsInv'
<1> USE DEF dirs, Idle, Working
<1>1. Knows(c)'
    BY DEF DirsInv, Knows
<1>2. \A d \in disk \ removing : Owns(c, d) => Owns(c, d)'
    BY NamesProperties DEF DirsInv, Knows, Owns, LeftBeforeItsTurn, Ranges
<1>3. QED
    BY <1>1, <1>2, DirsKept

LEMMA StartDirs ==
    ASSUME IInv, DirsInv, NEW c \in Connections, Start(c), Patient
    PROVE  DirsInv'
<1> USE DEF Start, local, turn
<1>1. Ranges /\ Handlers /\ Knows(c) /\ Keeps(c)
    BY DEF IInv, DirsInv
<1>2. pipe[c] = Idle /\ started[c] \in Nat /\ started[c] + 1 \in 1..MaxUploads /\ started'[c] = started[c] + 1
    <2>1. started[c] \in 0..MaxUploads /\ started[c] < MaxUploads /\ MaxUploads \in Nat
        BY <1>1, UploadAssumption DEF Ranges
    <2>2. pipe[c] = Idle /\ started' = [started EXCEPT ![c] = started[c] + 1] /\ started \in [Connections -> 0..MaxUploads]
        BY <1>1 DEF Handlers, Ranges
    <2>3. QED
        BY <2>1, <2>2
<1>3. sessionDir[c] = NoDir /\ awaiting[c] = {}
    BY <1>1, <1>2 DEF Patient, Keeps
<1>4. workDir[c] = NoDir /\ batchDir[c] = NoDir
    BY <1>1, <1>2 DEF Knows, Idle, Working
<1> DEFINE d == <<c, started[c] + 1, "session">>
<1>5. d \notin removing /\ d \in DirsOf(c) /\ d # NoDir
    <2>1. d \in DirsOf(c)
        BY <1>2, NamesProperties
    <2>2. d # NoDir
        BY <2>1, NamesProperties
    <2>3. d \in removing => started[c] + 1 <= started[c]
        BY <1>1, <1>2 DEF Knows
    <2>4. QED
        BY <2>1, <2>2, <2>3, <1>2
<1>6. /\ sessionDir'[c] = d /\ disk' = disk \cup {d} /\ state'[c] = "uploading"
      /\ sessionDir'[c] = <<c, started'[c], "session">>
      /\ UNCHANGED <<link, batchDir, awaiting, removing, workDir, pipe>>
    BY <1>1, <1>2 DEF Ranges
<1>7. \A e \in Connections \ {c} :
          state'[e] = state[e] /\ started'[e] = started[e] /\ sessionDir'[e] = sessionDir[e]
    BY <1>1 DEF Ranges
<1> HIDE DEF d
<1>8. Knows(c)'
    <2>1. \A n \in 1..MaxUploads : <<c, n, "session">> \in removing' => n <= started'[c]
        BY <1>1, <1>2, <1>6 DEF Knows
    <2>2. QED
        BY <2>1, <1>1, <1>2, <1>4, <1>5, <1>6 DEF Knows
<1>9. Keeps(c)'
    BY <1>1, <1>2, <1>3, <1>5, <1>6 DEF Keeps, Idle, Working
<1>10. /\ \A x \in disk' : x \in disk \/ Owns(c, x)'
       /\ \A x \in disk \ removing : Owns(c, x) => Owns(c, x)'
    BY <1>3, <1>4, <1>5, <1>6, NamesProperties DEF Owns, LeftBeforeItsTurn, IInv, Ranges
<1>11. QED
    BY <1>1, <1>5, <1>6, <1>7, <1>8, <1>9, <1>10, DirsKept

\* What the first part of cleanupResources() does to the directories.
LEMMA CleanupDirs ==
    ASSUME Ranges, NEW c \in Connections, Cleanup(c), Knows(c)
    PROVE  /\ batchDir'[c] = NoDir
           /\ \A e \in Connections \ {c} : /\ sessionDir'[e] = sessionDir[e] /\ batchDir'[e] = batchDir[e]
                                           /\ awaiting'[e] = awaiting[e]
           /\ \/ /\ batchDir[c] # NoDir /\ sessionDir'[c] = sessionDir[c]
                 /\ awaiting'[c] = awaiting[c] \cup {batchDir[c]} /\ removing' = removing
              \/ /\ batchDir[c] = NoDir /\ sessionDir'[c] = NoDir
                 /\ awaiting'[c] = awaiting[c] /\ removing' = removing \cup ({sessionDir[c]} \ {NoDir})
           /\ \A d \in removing' : d \in removing \/ d \in DirsOf(c)
<1>1. \A d \in {sessionDir[c]} \ {NoDir} : d \in DirsOf(c)
    BY KnownAreOwn
<1>2. QED
    BY <1>1 DEF Cleanup, TakeSession, Ranges

\* The session directory of the last upload joins those that are being removed.
LEMMA RemovingNames ==
    ASSUME Ranges, NEW c \in Connections, Knows(c), started'[c] = started[c],
           removing' = removing \cup ({sessionDir[c]} \ {NoDir})
    PROVE  \A n \in 1..MaxUploads : (<<c, n, "session">> \in removing' => n <= started'[c]) /\ <<c, n, "work">> \notin removing'
<1> SUFFICES ASSUME NEW n \in 1..MaxUploads
             PROVE  (<<c, n, "session">> \in removing' => n <= started[c]) /\ <<c, n, "work">> \notin removing'
    OBVIOUS
<1>1. /\ <<c, n, "session">> \in removing => n <= started[c]
      /\ <<c, n, "work">> \notin removing
    BY DEF Knows
<1>2. sessionDir[c] # NoDir => sessionDir[c] = <<c, started[c], "session">>
    BY DEF Knows
<1>3. started[c] \in Int /\ n \in Int
    BY DEF Ranges
<1>4. <<c, n, "session">> = <<c, started[c], "session">> => n <= started[c]
    BY <1>3
<1>5. <<c, n, "work">> # <<c, started[c], "session">>
    OBVIOUS
<1>6. QED
    BY <1>1, <1>2, <1>4, <1>5

LEMMA QuotaDirs == ASSUME IInv, DirsInv, NEW c \in Connections, Quota(c) PROVE DirsInv'
<1> USE DEF Quota, local, turn
<1>1. Ranges /\ Handlers /\ Knows(c) /\ Keeps(c)
    BY DEF IInv, DirsInv
<1>2. pipe[c] = Idle /\ awaiting[c] = {} /\ workDir[c] = NoDir /\ batchDir[c] = NoDir
    BY <1>1 DEF Handlers, Keeps, Knows, Idle, Working
<1>3. /\ sessionDir'[c] = NoDir /\ batchDir'[c] = NoDir /\ awaiting'[c] = {}
      /\ removing' = removing \cup ({sessionDir[c]} \ {NoDir}) /\ state'[c] = "closed"
      /\ UNCHANGED <<link, started, workDir, pipe, disk>>
      /\ \A d \in removing' : d \in removing \/ d \in DirsOf(c)
      /\ \A e \in Connections \ {c} : /\ sessionDir'[e] = sessionDir[e] /\ batchDir'[e] = batchDir[e]
                                      /\ awaiting'[e] = awaiting[e] /\ state'[e] = state[e]
    BY <1>1, <1>2, CleanupDirs DEF Ranges
<1>4. Knows(c)'
    BY <1>1, <1>2, <1>3, RemovingNames DEF Knows
<1>5. Keeps(c)'
    BY <1>2, <1>3 DEF Keeps, Idle, Working
<1>6. \A d \in disk \ removing : Owns(c, d) => d \in removing'
    BY <1>2, <1>3, NamesProperties DEF Owns, LeftBeforeItsTurn, IInv, Ranges
<1>7. QED
    BY <1>1, <1>3, <1>4, <1>5, <1>6, DirsKept

\* A handler ends: what it held is on its way out.
LEMMA EndDirs ==
    ASSUME IInv, IInv', DirsInv, NEW c \in Connections, End(c),
           pipe[c] \in {"prepare", "undo", "import"}, pipe'[c] = Idle,
           \A e \in Connections \ {c} :
              /\ workDir'[e] = workDir[e]
              /\ pipe'[e] = pipe[e] \/ (pipe[e] = "queued" /\ pipe'[e] = "unzip"),
           \/ workDir'[c] = NoDir
           \/ link[c] = "gone" /\ workDir'[c] = <<c, started[c], "work">>,
           \/ disk' = disk /\ workDir[c] = NoDir
           \/ disk' = disk \ {workDir[c]}
           \/ disk' = disk \cup {workDir'[c]} /\ workDir'[c] # NoDir /\ workDir[c] = NoDir
    PROVE  DirsInv'
<1>1. Ranges /\ Ranges' /\ Handlers /\ Knows(c) /\ Keeps(c) /\ Cleanup(c)
    BY DEF IInv, DirsInv, End
<1>2. /\ UNCHANGED <<link, started>> /\ state'[c] = "idle"
      /\ \A e \in Connections \ {c} : state'[e] = state[e]
    BY <1>1 DEF End, Ranges
<1>3. /\ batchDir'[c] = NoDir
      /\ \A e \in Connections \ {c} : /\ sessionDir'[e] = sessionDir[e] /\ batchDir'[e] = batchDir[e]
                                      /\ awaiting'[e] = awaiting[e]
      /\ \A d \in removing' : d \in removing \/ d \in DirsOf(c)
    BY <1>1, CleanupDirs
<1>4. /\ workDir[c] # NoDir => workDir[c] \in DirsOf(c) /\ workDir[c] = <<c, started[c], "work">>
      /\ workDir[c] # NoDir => pipe[c] = "undo"
    BY <1>1, KnownAreOwn DEF Knows, Idle, Working
<1>5. \A d \in disk : d \in disk' \/ d \in DirsOf(c)
    BY <1>1, <1>4, NamesProperties DEF Ranges
<1>6. CASE batchDir[c] # NoDir
    <2>1. /\ sessionDir'[c] = sessionDir[c] /\ awaiting'[c] = awaiting[c] \cup {batchDir[c]}
          /\ removing' = removing /\ pipe[c] = "import" /\ workDir[c] = NoDir
        BY <1>1, <1>4, <1>6, CleanupDirs DEF Knows
    <2>2. batchDir[c] = <<c, started[c], "work">> /\ started[c] \in 1..MaxUploads
        <3>1. started[c] \in 0..MaxUploads /\ started[c] > 0 /\ MaxUploads \in Nat
            BY <1>1, <2>1, UploadAssumption DEF Ranges, Handlers, Idle
        <3>2. QED
            BY <1>1, <1>6, <3>1 DEF Knows
    <2>3. Knows(c)'
        <3>1. \A d \in awaiting'[c] : \E n \in 1..MaxUploads : d = <<c, n, "work">>
            BY <1>1, <2>1, <2>2 DEF Knows
        <3>2. sessionDir'[c] # NoDir => sessionDir'[c] \in disk' \ removing'
            BY <1>1, <2>1, NamesProperties DEF Knows, Ranges
        <3>3. QED
            BY <1>1, <1>2, <1>3, <2>1, <3>1, <3>2 DEF Knows
    <2>4. Keeps(c)'
        BY <1>1, <1>2, <2>1 DEF Keeps, Idle, Working, Handlers
    <2>5. \A d \in disk \ removing : Owns(c, d) => Owns(c, d)'
        BY <1>1, <1>2, <2>1, NamesProperties DEF Owns, LeftBeforeItsTurn, Ranges, Idle
    <2>6. \A d \in disk' : d \in removing' \/ d \in disk \ removing \/ Owns(c, d)'
        BY <1>2, <2>1 DEF Owns, LeftBeforeItsTurn
    <2>7. QED
        BY <1>1, <1>2, <1>3, <1>5, <2>3, <2>4, <2>5, <2>6, DirsKept
<1>7. CASE batchDir[c] = NoDir
    <2>1. /\ sessionDir'[c] = NoDir /\ awaiting'[c] = awaiting[c]
          /\ removing' = removing \cup ({sessionDir[c]} \ {NoDir})
        BY <1>1, <1>7, CleanupDirs
    <2>2. Knows(c)'
        BY <1>1, <1>2, <1>3, <2>1, RemovingNames DEF Knows, Idle
    <2>3. Keeps(c)'
        BY <1>1, <1>2, <2>1 DEF Keeps, Idle, Working
    <2>4. \A d \in disk \ removing : Owns(c, d) => Owns(c, d)' \/ d \in removing' \/ d \notin disk'
        BY <1>1, <1>2, <1>4, <1>7, <2>1, NamesProperties DEF Owns, LeftBeforeItsTurn, Ranges, Idle
    <2>5. \A d \in disk' : d \in removing' \/ d \in disk \ removing \/ Owns(c, d)'
        BY <1>2, <2>1 DEF Owns, LeftBeforeItsTurn
    <2>6. QED
        BY <1>1, <1>2, <1>3, <1>5, <2>2, <2>3, <2>4, <2>5, DirsKept
<1>8. QED
    BY <1>6, <1>7

\* Steps of a handler that touch no directory.
LEMMA HandlerDirs ==
    ASSUME IInv, IInv', DirsInv, NEW c \in Connections,
           DiskFails(c) \/ Finish(c) \/ Flushed(c) \/ Discarded(c) \/ FilesFail(c)
    PROVE  DirsInv'
<1> USE DEF dirs, Goto, Idle, Working
<1>1. Ranges /\ Handlers /\ Knows(c) /\ Keeps(c)
    BY DEF IInv, DirsInv
<1>2. CASE DiskFails(c)
    <2>1. Keeps(c)'
        BY <1>1, <1>2 DEF DiskFails, local, Keeps
    <2>2. QED
        BY <1>1, <1>2, <2>1, DirsSame DEF DiskFails, local, Handlers
<1>3. CASE Finish(c)
    <2>1. /\ pipe[c] = Idle /\ workDir[c] = NoDir /\ batchDir[c] = NoDir
          /\ pipe' = [pipe EXCEPT ![c] = "flush"] /\ state' = [state EXCEPT ![c] = "processing"]
          /\ UNCHANGED <<link, started, dirs, workDir, disk>>
        BY <1>1, <1>3 DEF Finish, Handlers, Knows
    <2>2. Keeps(c)'
        BY <1>1, <1>3, <2>1 DEF Finish, Keeps, Ranges
    <2>3. QED
        BY <1>1, <2>1, <2>2, DirsSame DEF Ranges
<1>4. CASE Flushed(c)
    <2>1. /\ pipe[c] = "flush" /\ workDir[c] = NoDir /\ batchDir[c] = NoDir
          /\ pipe' = [pipe EXCEPT ![c] = "prepare"]
          /\ UNCHANGED <<link, started, state, dirs, workDir, disk>>
        BY <1>1, <1>4 DEF Flushed, Knows
    <2>2. Keeps(c)'
        BY <1>1, <2>1 DEF Keeps, Ranges
    <2>3. QED
        BY <1>1, <2>1, <2>2, DirsSame DEF Ranges
<1>5. CASE Discarded(c)
    <2>1. /\ pipe[c] = "discard" /\ workDir[c] = NoDir /\ batchDir[c] = NoDir
          /\ pipe' = [pipe EXCEPT ![c] = Idle] /\ state' = [state EXCEPT ![c] = "idle"]
          /\ UNCHANGED <<link, started, dirs, workDir, disk>>
        BY <1>1, <1>5 DEF Discarded, Knows
    <2>2. Keeps(c)'
        BY <1>1, <2>1 DEF Keeps, Ranges
    <2>3. QED
        BY <1>1, <2>1, <2>2, DirsSame DEF Ranges
<1>6. CASE FilesFail(c)
    <2>1. /\ pipe[c] \in {"copy", "unzip"} /\ pipe' = [pipe EXCEPT ![c] = "undo"]
          /\ UNCHANGED <<link, started, state, dirs, workDir, disk>>
        BY <1>6 DEF FilesFail, Continue, session
    <2>2. Keeps(c)'
        BY <1>1, <2>1 DEF Keeps, Ranges
    <2>3. QED
        BY <1>1, <2>1, <2>2, DirsSame DEF Ranges
<1>7. QED
    BY <1>2, <1>3, <1>4, <1>5, <1>6

LEMMA FlushFailsDirs == ASSUME IInv, IInv', DirsInv, NEW c \in Connections, FlushFails(c) PROVE DirsInv'
<1> USE DEF FlushFails, Goto, Idle, Working
<1>1. Ranges /\ Handlers /\ Knows(c) /\ Keeps(c)
    BY DEF IInv, DirsInv
<1>2. /\ pipe[c] = "flush" /\ pipe' = [pipe EXCEPT ![c] = "discard"]
      /\ sessionDir' = [sessionDir EXCEPT ![c] = NoDir]
      /\ removing' = removing \cup ({sessionDir[c]} \ {NoDir})
      /\ UNCHANGED <<link, state, started, batchDir, awaiting, workDir, disk>>
    BY DEF TakeSession
<1>3. \A d \in removing' : d \in removing \/ d \in DirsOf(c)
    BY <1>1, <1>2, KnownAreOwn
<1>4. workDir[c] = NoDir /\ batchDir[c] = NoDir
    BY <1>1, <1>2 DEF Knows
<1>5. Knows(c)'
    BY <1>1, <1>2, <1>4, RemovingNames DEF Knows, Ranges
<1>6. Keeps(c)'
    BY <1>1, <1>2 DEF Keeps, Ranges
<1>7. \A d \in disk \ removing : Owns(c, d) => Owns(c, d)' \/ d \in removing'
    BY <1>1, <1>2, <1>4, NamesProperties DEF Owns, LeftBeforeItsTurn, Ranges
<1>8. QED
    BY <1>1, <1>2, <1>3, <1>5, <1>6, <1>7, DirsKept DEF Ranges

LEMMA LeaveDirs ==
    ASSUME IInv, IInv', DirsInv, NEW c \in Connections, NEW step \in {"prepare", "import"}, Leave(c, step)
    PROVE  DirsInv'
<1>1. Ranges /\ Knows(c)
    BY DEF IInv, DirsInv
<1>2. /\ pipe[c] = step /\ pipe' = [pipe EXCEPT ![c] = Idle] /\ End(c)
      /\ workDir' = workDir /\ disk' = disk
    BY DEF Leave, Goto
<1>3. workDir[c] = NoDir
    BY <1>1, <1>2 DEF Knows, Idle, Working
<1>4. QED
    BY <1>1, <1>2, <1>3, EndDirs DEF Ranges, Idle

LEMMA MakeWorkDirDirs == ASSUME IInv, IInv', DirsInv, NEW c \in Connections, MakeWorkDir(c) PROVE DirsInv'
<1> DEFINE d == <<c, started[c], "work">>
<1>1. Ranges /\ Handlers /\ Knows(c) /\ Keeps(c)
    BY DEF IInv, DirsInv
<1>2. /\ pipe[c] = "prepare" /\ workDir' = [workDir EXCEPT ![c] = d] /\ disk' = disk \cup {d}
    BY DEF MakeWorkDir
<1>3. d # NoDir /\ workDir[c] = NoDir /\ batchDir[c] = NoDir
    <2>1. started[c] \in 0..MaxUploads /\ started[c] > 0 /\ MaxUploads \in Nat
        BY <1>1, <1>2, UploadAssumption DEF Ranges, Handlers, Idle
    <2>2. started[c] \in 1..MaxUploads
        BY <2>1
    <2>3. d # NoDir
        <3>1. d \in DirsOf(c)
            BY <2>2, NamesProperties
        <3>2. QED
            BY <3>1, NamesProperties
    <2>4. QED
        BY <1>1, <1>2, <2>3 DEF Knows, Idle, Working
<1>4. workDir'[c] = <<c, started[c], "work">> /\ workDir'[c] = d
    BY <1>1, <1>2 DEF Ranges
<1> HIDE DEF d
<1>5. CASE End(c) /\ Goto(c, Idle) /\ link[c] = "gone"
    BY <1>1, <1>2, <1>3, <1>4, <1>5, EndDirs DEF Goto, Ranges, Idle
<1>6. CASE /\ pipe' \in {[pipe EXCEPT ![c] = "copy"], [pipe EXCEPT ![c] = "queued"], [pipe EXCEPT ![c] = "unzip"]}
           /\ UNCHANGED <<session, dirs>>
    <2> USE DEF session, dirs, Idle, Working
    <2>1. pipe'[c] \in {"copy", "queued", "unzip"} /\ \A e \in Connections \ {c} : pipe'[e] = pipe[e]
        BY <1>1, <1>6 DEF Ranges
    <2>2. Knows(c)'
        BY <1>1, <1>3, <1>4, <1>6, <1>2, <2>1 DEF Knows
    <2>3. Keeps(c)'
        BY <1>1, <1>2, <1>3, <1>4, <1>6, <2>1 DEF Keeps
    <2>4. \A x \in disk' : x \in disk \/ Owns(c, x)'
        BY <1>2, <1>4, <2>1 DEF Owns
    <2>5. \A x \in disk \ removing : Owns(c, x) => Owns(c, x)'
        BY <1>3, <1>6, <2>1, <1>1, NamesProperties DEF Owns, LeftBeforeItsTurn, Ranges
    <2>6. QED
        BY <1>1, <1>2, <1>6, <2>1, <2>2, <2>3, <2>4, <2>5, DirsKept DEF Ranges
<1>7. QED
    BY <1>5, <1>6 DEF MakeWorkDir, Acquire, Goto

\* processBatchFiles() hands its directory to its caller.
LEMMA KeepDirs ==
    ASSUME IInv, IInv', DirsInv, NEW c \in Connections, Keep(c),
           pipe[c] \in {"copy", "unzip"}, pipe'[c] = "import",
           \A e \in Connections \ {c} : pipe'[e] = pipe[e] \/ (pipe[e] = "queued" /\ pipe'[e] = "unzip")
    PROVE  DirsInv'
<1> USE DEF session, Idle, Working
<1>1. Ranges /\ Handlers /\ Knows(c) /\ Keeps(c)
    BY DEF IInv, DirsInv
<1>2. /\ batchDir' = [batchDir EXCEPT ![c] = workDir[c]] /\ workDir' = [workDir EXCEPT ![c] = NoDir]
      /\ UNCHANGED <<link, state, started, sessionDir, awaiting, removing, disk>>
    BY DEF Keep
<1>3. batchDir'[c] = workDir[c] /\ workDir'[c] = NoDir /\ batchDir[c] = NoDir
    BY <1>1, <1>2 DEF Ranges, Knows
<1>4. Knows(c)'
    BY <1>1, <1>2, <1>3 DEF Knows
<1>5. Keeps(c)'
    BY <1>1, <1>2, <1>3 DEF Keeps
<1>6. \A d \in disk \ removing : Owns(c, d) => Owns(c, d)'
    BY <1>1, <1>2, <1>3, NamesProperties DEF Owns, LeftBeforeItsTurn, Ranges
<1>7. QED
    BY <1>1, <1>2, <1>4, <1>5, <1>6, DirsKept DEF Ranges

\* release() wakes one who waits, or nobody.
LEMMA ReleasePipe ==
    ASSUME IInv, NEW c \in Connections, Decompressing(c), NEW after, Release(c, after)
    PROVE  /\ pipe'[c] = after
           /\ \A e \in Connections \ {c} : pipe'[e] = pipe[e] \/ (pipe[e] = "queued" /\ pipe'[e] = "unzip")
<1> USE DEF IInv, Ranges
<1>1. CASE queue = <<>>
    BY <1>1 DEF Release, Goto
<1>2. CASE queue # <<>>
    <2> DEFINE h == Head(queue)
    <2>1. h = queue[1] /\ 1 \in 1..Len(queue)
        BY <1>2, TailRemoves
    <2>2. h \in Connections /\ pipe[h] = "queued" /\ h # c
        BY <2>1 DEF Turns, QueueHoldsWaiters, Decompressing
    <2>3. pipe' = [pipe EXCEPT ![c] = after, ![h] = "unzip"]
        BY <1>2 DEF Release
    <2> HIDE DEF h
    <2>4. QED
        BY <2>2, <2>3
<1>3. QED
    BY <1>1, <1>2

LEMMA UnzippedDirs == ASSUME IInv, IInv', DirsInv, NEW c \in Connections, Unzipped(c) PROVE DirsInv'
<1>1. Decompressing(c) /\ Keep(c) /\ Release(c, "import") /\ pipe[c] = "unzip"
    BY DEF Unzipped, Decompressing
<1>2. QED
    BY <1>1, ReleasePipe, KeepDirs

LEMMA CopiedDirs == ASSUME IInv, IInv', DirsInv, NEW c \in Connections, Copied(c) PROVE DirsInv'
<1>1. pipe'[c] = "import" /\ \A e \in Connections \ {c} : pipe'[e] = pipe[e]
    BY DEF Copied, Goto, IInv, Ranges
<1>2. QED
    BY <1>1, KeepDirs DEF Copied

LEMMA UndoneDirs == ASSUME IInv, IInv', DirsInv, NEW c \in Connections, Undone(c) PROVE DirsInv'
<1>1. /\ pipe[c] = "undo" /\ End(c) /\ Ranges
      /\ disk' = disk \ {workDir[c]} /\ workDir' = [workDir EXCEPT ![c] = NoDir]
    BY DEF Undone, IInv
<1>2. /\ pipe'[c] = Idle
      /\ \A e \in Connections \ {c} : pipe'[e] = pipe[e] \/ (pipe[e] = "queued" /\ pipe'[e] = "unzip")
    <2>1. CASE kind[c] = "zip"
        <3>1. Decompressing(c) /\ Release(c, Idle)
            BY <1>1, <2>1 DEF Decompressing, Undone, GivesBack
        <3>2. QED
            BY <3>1, ReleasePipe
    <2>2. CASE kind[c] # "zip"
        BY <1>1, <2>2 DEF Undone, GivesBack, Goto, Ranges
    <2>3. QED
        BY <2>1, <2>2
<1>3. workDir'[c] = NoDir /\ \A e \in Connections \ {c} : workDir'[e] = workDir[e]
    BY <1>1 DEF Ranges
<1>4. QED
    BY <1>1, <1>2, <1>3, EndDirs

LEMMA GoneDirs == ASSUME IInv, IInv', DirsInv, NEW c \in Connections, Gone(c) PROVE DirsInv'
<1> USE DEF Idle, Working
<1>1. Ranges /\ Handlers /\ Knows(c) /\ Keeps(c) /\ Cleanup(c) /\ link[c] = "up"
    BY DEF IInv, DirsInv, Gone
<1>2. /\ link'[c] = "gone" /\ UNCHANGED <<started, workDir, disk>>
      /\ pipe'[c] = IF pipe[c] = "queued" THEN Idle ELSE pipe[c]
      /\ \A e \in Connections \ {c} : link'[e] = link[e] /\ state'[e] = state[e] /\ pipe'[e] = pipe[e]
    BY <1>1 DEF Gone, Goto, Ranges
<1>3. /\ batchDir'[c] = NoDir
      /\ \A e \in Connections \ {c} : /\ sessionDir'[e] = sessionDir[e] /\ batchDir'[e] = batchDir[e]
                                      /\ awaiting'[e] = awaiting[e]
      /\ \A d \in removing' : d \in removing \/ d \in DirsOf(c)
    BY <1>1, CleanupDirs
<1>4. Keeps(c)'
    BY <1>2 DEF Keeps
<1>5. CASE batchDir[c] # NoDir
    <2>1. /\ sessionDir'[c] = sessionDir[c] /\ awaiting'[c] = awaiting[c] \cup {batchDir[c]}
          /\ removing' = removing /\ pipe[c] = "import"
        BY <1>1, <1>5, CleanupDirs DEF Knows
    <2>2. batchDir[c] = <<c, started[c], "work">> /\ started[c] \in 1..MaxUploads
        <3>1. started[c] \in 0..MaxUploads /\ started[c] > 0 /\ MaxUploads \in Nat
            BY <1>1, <2>1, UploadAssumption DEF Ranges, Handlers
        <3>2. QED
            BY <1>1, <1>5, <3>1 DEF Knows
    <2>3. Knows(c)'
        <3>1. \A d \in awaiting'[c] : \E n \in 1..MaxUploads : d = <<c, n, "work">>
            BY <1>1, <2>1, <2>2 DEF Knows
        <3>2. QED
            BY <1>1, <1>2, <1>3, <2>1, <3>1 DEF Knows
    <2>4. \A d \in disk \ removing : Owns(c, d) => Owns(c, d)'
        BY <1>1, <1>2, <2>1, NamesProperties DEF Owns, LeftBeforeItsTurn, Ranges
    <2>5. QED
        BY <1>1, <1>2, <1>3, <1>4, <2>1, <2>3, <2>4, DirsKept
<1>6. CASE batchDir[c] = NoDir
    <2>1. /\ sessionDir'[c] = NoDir /\ awaiting'[c] = awaiting[c]
          /\ removing' = removing \cup ({sessionDir[c]} \ {NoDir})
        BY <1>1, <1>6, CleanupDirs
    <2>2. Knows(c)'
        BY <1>1, <1>2, <1>3, <2>1, RemovingNames DEF Knows
    <2>3. \A d \in disk \ removing : Owns(c, d) => Owns(c, d)' \/ d \in removing'
        BY <1>1, <1>2, <1>6, <2>1, NamesProperties DEF Owns, LeftBeforeItsTurn, Ranges
    <2>4. \A d \in disk' : d \in removing' \/ d \in disk \ removing
        BY <1>2, <2>1
    <2>5. QED
        BY <1>1, <1>2, <1>3, <1>4, <2>2, <2>3, <2>4, DirsKept
<1>7. QED
    BY <1>5, <1>6

LEMMA BatchRemovedDirs ==
    ASSUME IInv, IInv', DirsInv, NEW c \in Connections, NEW d \in Dirs, BatchRemoved(c, d)
    PROVE  DirsInv'
<1> USE DEF session, local, Idle, Working
<1>1. Ranges /\ Handlers /\ Knows(c) /\ Keeps(c)
    BY DEF IInv, DirsInv
<1>2. /\ d \in awaiting[c] /\ awaiting' = [awaiting EXCEPT ![c] = awaiting[c] \ {d}]
      /\ disk' = disk \ {d} /\ sessionDir' = [sessionDir EXCEPT ![c] = NoDir]
      /\ removing' = removing \cup ({sessionDir[c]} \ {NoDir})
      /\ UNCHANGED <<link, state, started, pipe, batchDir, workDir>>
    BY DEF BatchRemoved, TakeSession
<1>3. d \in DirsOf(c) /\ \A x \in removing' : x \in removing \/ x \in DirsOf(c)
    BY <1>1, <1>2, KnownAreOwn
<1>4. sessionDir'[c] = NoDir /\ awaiting'[c] = awaiting[c] \ {d}
    BY <1>1, <1>2 DEF Ranges
<1>5. Knows(c)'
    BY <1>1, <1>2, <1>4, RemovingNames DEF Knows
<1>6. link[c] = "up" => pipe[c] = Idle /\ awaiting'[c] = {} /\ state[c] \notin {"uploading", "processing"}
    BY <1>1, <1>2, <1>4 DEF Keeps
<1>7. Keeps(c)'
    BY <1>2, <1>6 DEF Keeps
<1>8. \A x \in disk \ removing : Owns(c, x) => Owns(c, x)' \/ x \in removing' \/ x \notin disk'
    BY <1>1, <1>2, <1>4, NamesProperties DEF Owns, LeftBeforeItsTurn, Ranges
<1>9. \A x \in disk' : x \in removing' \/ x \in disk \ removing
    BY <1>2
<1>10. \A x \in disk : x \in disk' \/ x \in DirsOf(c)
    BY <1>2, <1>3
<1>11. QED
    BY <1>1, <1>2, <1>3, <1>5, <1>7, <1>8, <1>9, <1>10, DirsKept DEF Ranges

LEMMA RemovedDirs ==
    ASSUME IInv, IInv', DirsInv, NEW d \in Dirs, Removed(d)
    PROVE  DirsInv'
<1> USE DEF session, local, Idle, Working
<1>1. /\ d \in removing /\ removing' = removing \ {d} /\ disk' = disk \ {d}
      /\ UNCHANGED <<link, state, started, pipe, sessionDir, batchDir, workDir, awaiting>>
    BY DEF Removed
<1>2. PICK c \in Connections, n \in 1..MaxUploads : d \in {<<c, n, "session">>, <<c, n, "work">>}
    BY NamesProperties
<1>3. Ranges /\ Knows(c) /\ Keeps(c) /\ d = <<c, n, "session">>
    BY <1>1, <1>2 DEF IInv, DirsInv, Knows
<1>4. d \in DirsOf(c) /\ sessionDir[c] # d
    <2>1. d \in DirsOf(c)
        BY <1>3, NamesProperties
    <2>2. d # NoDir
        BY NamesProperties
    <2>3. sessionDir[c] # d
        BY <1>1, <1>3, <2>2 DEF Knows
    <2>4. QED
        BY <2>1, <2>3
<1>5. Knows(c)'
    BY <1>1, <1>3, <1>4 DEF Knows
<1>6. Keeps(c)'
    <2>1. \A x : x = <<c, started[c], "work">> => x # d
        BY <1>3
    <2>2. /\ workDir[c] # NoDir => workDir[c] # d
          /\ batchDir[c] # NoDir => batchDir[c] # d
        BY <1>3, <2>1 DEF Knows
    <2>3. QED
        BY <1>1, <1>3, <2>2 DEF Keeps
<1>7. \A x \in disk \ removing : Owns(c, x) => Owns(c, x)'
    BY <1>1 DEF Owns, LeftBeforeItsTurn
<1>8. \A x \in disk' : x \in removing' \/ x \in disk \ removing
    BY <1>1
<1>9. QED
    BY <1>1, <1>3, <1>4, <1>5, <1>6, <1>7, <1>8, DirsKept

LEMMA DirsInvInit == Init => DirsInv
<1> SUFFICES ASSUME Init PROVE DirsInv
    OBVIOUS
<1>1. ASSUME NEW c \in Connections
      PROVE  Knows(c) /\ Keeps(c)
    BY DEF Init, Knows, Keeps, Idle, Working
<1>2. DirectoriesHaveOwners
    BY DEF Init, DirectoriesHaveOwners
<1>3. QED
    BY <1>1, <1>2 DEF DirsInv

LEMMA DirsInvStep == IInv /\ IInv' /\ DirsInv /\ [Next /\ Patient]_vars => DirsInv'
<1> SUFFICES ASSUME IInv, IInv', DirsInv, [Next /\ Patient]_vars PROVE DirsInv'
    OBVIOUS
<1>1. CASE UNCHANGED vars
    BY <1>1 DEF vars, session, dirs, local, turn, DirsInv, Knows, Keeps, DirectoriesHaveOwners, LeftBeforeItsTurn
<1>2. ASSUME NEW c \in Connections, Patient,
             Start(c) \/ Quota(c) \/ DiskFails(c) \/ Finish(c) \/ Handler(c) \/ Gone(c)
      PROVE  DirsInv'
    BY <1>2, StartDirs, QuotaDirs, HandlerDirs, FlushFailsDirs, LeaveDirs, MakeWorkDirDirs, CopiedDirs,
       UnzippedDirs, UndoneDirs, GoneDirs
       DEF Handler, Unauthorized, Import
<1>3. CASE Removal
    BY <1>3, BatchRemovedDirs, RemovedDirs DEF Removal
<1>4. QED
    BY <1>1, <1>2, <1>3 DEF Next

LEMMA PatientInv == PatientSpec => [](IInv /\ DirsInv)
<1>1. IInv /\ [Next /\ Patient]_vars => IInv'
    BY IInvStep
<1>2. QED
    BY <1>1, IInvInit, DirsInvInit, DirsInvStep, PTL DEF PatientSpec

\* Whoever fails or leaves, every temporary directory has somebody who will remove
\* it, except the work directory of an archive whose client left before its turn,
\* as long as clients are patient.
THEOREM DirectoriesCorrect == PatientSpec => []DirectoriesHaveOwners
<1>1. DirsInv => DirectoriesHaveOwners
    BY DEF DirsInv
<1>2. QED
    BY <1>1, PatientInv, PTL

\* Patience is what UploadHasDirectory lacks: a patient client never loses the
\* directory of an upload that is received or processed.
THEOREM PatientUploadsKeepTheirs == PatientSpec => []UploadHasDirectory
<1>1. IInv /\ DirsInv => UploadHasDirectory
    <2> SUFFICES ASSUME IInv, DirsInv, NEW c \in Connections,
                        link[c] = "up", state[c] \in {"uploading", "processing"}, pipe[c] # "discard"
                 PROVE  /\ sessionDir[c] \in disk \ removing
                        /\ pipe[c] = "import" =>
                             /\ batchDir[c] \in disk
                             /\ \A e \in Connections : batchDir[c] \notin awaiting[e]
        BY DEF UploadHasDirectory
    <2>1. Ranges /\ Knows(c) /\ Keeps(c)
        BY DEF IInv, DirsInv
    <2>2. sessionDir[c] \in disk \ removing
        BY <2>1 DEF Knows, Keeps
    <2>3. ASSUME pipe[c] = "import", NEW e \in Connections
          PROVE  batchDir[c] \in disk /\ batchDir[c] \notin awaiting[e]
        <3>1. batchDir[c] # NoDir /\ batchDir[c] \in disk /\ awaiting[c] = {}
            BY <2>1, <2>3 DEF Keeps
        <3>2. batchDir[c] \in DirsOf(c) /\ awaiting[e] \subseteq DirsOf(e)
            BY <2>1, <3>1, KnownAreOwn DEF DirsInv
        <3>3. QED
            BY <3>1, <3>2, NamesProperties
    <2>4. QED
        BY <2>2, <2>3
<1>2. QED
    BY <1>1, PatientInv, PTL

\* With one upload on each socket, as the web client uses them, nobody can be
\* impatient, and the theorem is about the specification itself.
THEOREM SingleUploadDirectories == ASSUME MaxUploads = 1 PROVE Spec => []DirectoriesHaveOwners
<1> DEFINE Fresh == \A c \in Connections : started[c] = 0 => sessionDir[c] = NoDir
<1>1. Init => Fresh
    BY DEF Init
<1>2. IInv /\ IInv' /\ DirsInv /\ Fresh /\ [Next]_vars => [Next /\ Patient]_vars
    <2> SUFFICES ASSUME IInv, IInv', Fresh, Next PROVE Patient
        OBVIOUS
    <2> SUFFICES ASSUME NEW c \in Connections, started'[c] # started[c] PROVE sessionDir[c] = NoDir
        BY DEF Patient
    <2>1. PICK e \in Connections : Start(e)
        BY DEF Next, Handler, Removal, Quota, DiskFails, Finish, Flushed, FlushFails, Discarded, MakeWorkDir,
           Unauthorized, Leave, End, Copied, Unzipped, Keep, FilesFail, Continue, Undone, Import, Gone,
           Removed, BatchRemoved, session, dirs
    <2>2. started[c] = 0
        <3>1. started[e] \in 0..1 /\ started[e] < 1 /\ started' = [started EXCEPT ![e] = started[e] + 1]
            BY <2>1 DEF Start, IInv, Ranges
        <3>2. started[e] = 0
            BY <3>1
        <3>3. e = c
            BY <3>1 DEF IInv, Ranges
        <3>4. QED
            BY <3>2, <3>3
    <2>3. QED
        BY <2>2
<1>3. IInv /\ IInv' /\ DirsInv' /\ Fresh => Fresh'
    <2> SUFFICES ASSUME IInv', DirsInv', NEW c \in Connections, started'[c] = 0 PROVE sessionDir'[c] = NoDir
        OBVIOUS
    <2>1. /\ sessionDir'[c] \in Dirs \cup {NoDir}
          /\ sessionDir'[c] \in {NoDir, <<c, started'[c], "session">>}
        BY DEF IInv, Ranges, DirsInv, Knows
    <2>2. <<c, 0, "session">> \notin Dirs
        BY DEF Dirs
    <2>3. QED
        BY <2>1, <2>2
<1> HIDE DEF Fresh
<1>4. Spec => [](IInv /\ DirsInv /\ Fresh)
    BY <1>1, <1>2, <1>3, IInvInit, IInvStep, DirsInvInit, DirsInvStep, PTL DEF Spec
<1>5. DirsInv => DirectoriesHaveOwners
    BY DEF DirsInv
<1>6. QED
    BY <1>4, <1>5, PTL
=============================================================================
