----------------------------- MODULE RoflUpload -----------------------------
(***************************************************************************)
(* The upload sockets of replays (attachRoflUploadGateway() of             *)
(* apps/api/src/modules/rofl-upload/websocket/rofl-upload.gateway.ts) with *)
(* processBatchFiles() and the DecompressionQueue they share               *)
(* (../processing/process-batch-files.ts).                                 *)
(*                                                                         *)
(* An upload is received into a session directory, copied or decompressed  *)
(* into a work directory, parsed, validated and imported (BatchImport).    *)
(* The handler of each message runs up to its next await; a directory is   *)
(* removed in the background.  Chunks below the quota, refused messages    *)
(* and events sent to the client change none of this state.                *)
(***************************************************************************)
EXTENDS Naturals, Sequences, FiniteSets, SequencesExt

CONSTANTS
    Connections,  \* authorized sockets
    Singles,      \* those that may also upload a single replay
    NoDir,
    MaxUploads    \* bound: uploads started on one connection

ASSUME UploadAssumption ==
    /\ NoDir \notin Connections \X (1..MaxUploads) \X {"session", "work"}
    /\ Singles \subseteq Connections
    /\ MaxUploads \in Nat
    /\ IsFiniteSet(Connections)

VARIABLES
    link,        \* "up" or "gone": the socket
    state,       \* state of the session
    started,     \* uploads started so far
    kind,        \* type of the last file started
    stream,      \* fileWriteStream: "none", "open" or "destroyed"
    sessionDir,  \* sessionDir
    batchDir,    \* batchTempDir
    pipe,        \* where the handler of the last 'finish' waits
    source,      \* directory of targetUploadPath, local to that handler
    workDir,     \* tempDir, local to processBatchFiles()
    awaiting,    \* work directories whose removal a cleanupResources() awaits
    removing,    \* directories whose removal is the last thing somebody awaits
    disk,        \* the directories that exist
    queue,       \* DecompressionQueue.queue
    isRunning,   \* DecompressionQueue.isRunning
    told         \* the last queue position each client was told

session == <<link, state, started, kind, stream>>
dirs == <<sessionDir, batchDir, awaiting, removing>>
local == <<pipe, source, workDir>>
turn == <<queue, isRunning, told>>
vars == <<session, dirs, local, disk, turn>>

\* The random name of a directory: its connection, upload and purpose.
Dirs == Connections \X (1..MaxUploads) \X {"session", "work"}

Offers(c) == {"zip"} \cup IF c \in Singles THEN {"rofl"} ELSE {}

Idle == "none"
Steps == {"flush", "discard", "prepare", "copy", "queued", "unzip", "undo", "import"}

Init ==
    /\ link = [c \in Connections |-> "up"]
    /\ state = [c \in Connections |-> "idle"]
    /\ started = [c \in Connections |-> 0]
    /\ kind = [c \in Connections |-> "rofl"]
    /\ stream = [c \in Connections |-> "none"]
    /\ sessionDir = [c \in Connections |-> NoDir]
    /\ batchDir = [c \in Connections |-> NoDir]
    /\ pipe = [c \in Connections |-> Idle]
    /\ source = [c \in Connections |-> NoDir]
    /\ workDir = [c \in Connections |-> NoDir]
    /\ awaiting = [c \in Connections |-> {}]
    /\ removing = {}
    /\ disk = {}
    /\ queue = <<>>
    /\ isRunning = FALSE
    /\ told = [c \in Connections |-> 0]

Goto(c, step) == pipe' = [pipe EXCEPT ![c] = step]

-----------------------------------------------------------------------------
(* DecompressionQueue.                                                     *)

Position(q, c) == CHOOSE i \in DOMAIN q : q[i] = c

\* Mutant: positions counted from one too many.
NotifyOffByOne(q, running) ==
    told' = [c \in Connections |->
               IF Contains(q, c) THEN 1 + (IF running THEN 1 ELSE 0) + Position(q, c)
                                 ELSE told[c]]

\* notifyWaiters(): everybody who waits is told a position.
Notify(q, running) ==
    told' = [c \in Connections |->
               IF Contains(q, c) THEN (IF running THEN 1 ELSE 0) + Position(q, c)
                                 ELSE told[c]]

\* Mutant: those who still wait are not told.
NotifyForgotten(q, running) == UNCHANGED told

NotifyLeft(q, running) == Notify(q, running)

\* release(): the turn passes to the first in the queue, whose promise resolves
\* before anything else can happen.
Release(c, after) ==
    IF queue = <<>>
    THEN /\ isRunning' = FALSE
         /\ Goto(c, after)
         /\ UNCHANGED <<queue, told>>
    ELSE /\ queue' = Tail(queue)
         /\ told' = [d \in Connections |->
                       IF d = Head(queue) THEN 1
                       ELSE IF Contains(queue, d) THEN Position(queue, d)
                       ELSE told[d]]
         /\ pipe' = [pipe EXCEPT ![c] = after, ![Head(queue)] = "unzip"]
         /\ UNCHANGED isRunning

\* Mutant: nobody looks whether another archive is being decompressed.
BusyNever == FALSE

Busy == isRunning

\* acquire() of a client that is still there.
Acquire(c) ==
    IF Busy
    THEN /\ queue' = Append(queue, c)
         /\ Notify(Append(queue, c), TRUE)
         /\ Goto(c, "queued")
         /\ UNCHANGED isRunning
    ELSE /\ isRunning' = TRUE
         /\ told' = [told EXCEPT ![c] = 1]
         /\ Goto(c, "unzip")
         /\ UNCHANGED queue

-----------------------------------------------------------------------------
(* cleanupResources().                                                     *)

\* Mutant: only the work directory is removed.
TakeSessionForgotten(c) == UNCHANGED <<sessionDir, removing>>

TakeSession(c) ==
    /\ sessionDir' = [sessionDir EXCEPT ![c] = NoDir]
    /\ removing' = removing \cup ({sessionDir[c]} \ {NoDir})

\* The part before its first await.  The session directory is looked at only
\* when the work directory is gone.
Cleanup(c) ==
    /\ stream' = [stream EXCEPT ![c] = IF @ = "open" THEN "none" ELSE @]
    /\ batchDir' = [batchDir EXCEPT ![c] = NoDir]
    /\ IF batchDir[c] # NoDir
       THEN awaiting' = [awaiting EXCEPT ![c] = @ \cup {batchDir[c]}] /\ UNCHANGED <<sessionDir, removing>>
       ELSE TakeSession(c) /\ UNCHANGED awaiting

\* The rest of it, once a work directory is removed.
BatchRemoved(c, d) ==
    /\ d \in awaiting[c]
    /\ awaiting' = [awaiting EXCEPT ![c] = @ \ {d}]
    /\ disk' = disk \ {d}
    /\ TakeSession(c)
    /\ UNCHANGED <<session, batchDir, local, turn>>

Removed(d) ==
    /\ d \in removing
    /\ removing' = removing \ {d}
    /\ disk' = disk \ {d}
    /\ UNCHANGED <<session, sessionDir, batchDir, awaiting, local, turn>>

\* The finally block of the 'finish' handler.
End(c) ==
    /\ state' = [state EXCEPT ![c] = "idle"]
    /\ Cleanup(c)
    /\ source' = [source EXCEPT ![c] = NoDir]
    /\ UNCHANGED <<link, started, kind>>

-----------------------------------------------------------------------------
(* Messages of the client.                                                 *)

Start(c) ==
    /\ link[c] = "up" /\ state[c] = "idle" /\ started[c] < MaxUploads
    /\ sessionDir' = [sessionDir EXCEPT ![c] = <<c, started[c] + 1, "session">>]
    /\ disk' = disk \cup {<<c, started[c] + 1, "session">>}
    /\ stream' = [stream EXCEPT ![c] = "open"]
    /\ state' = [state EXCEPT ![c] = "uploading"]
    /\ started' = [started EXCEPT ![c] = @ + 1]
    /\ \E k \in Offers(c) : kind' = [kind EXCEPT ![c] = k]
    /\ UNCHANGED <<link, batchDir, awaiting, removing, local, turn>>

\* A chunk takes the file over its quota.
Quota(c) ==
    /\ link[c] = "up" /\ state[c] = "uploading" /\ stream[c] # "none"
    /\ state' = [state EXCEPT ![c] = "closed"]
    /\ Cleanup(c)
    /\ UNCHANGED <<link, started, kind, local, disk, turn>>

\* The disk refuses the file: the client is told, the session stays as it is.
DiskFails(c) ==
    /\ state[c] = "uploading" /\ stream[c] = "open"
    /\ stream' = [stream EXCEPT ![c] = "destroyed"]
    /\ UNCHANGED <<link, state, started, kind, dirs, local, disk, turn>>

Finish(c) ==
    /\ link[c] = "up" /\ state[c] = "uploading"
    /\ stream[c] # "none" /\ sessionDir[c] # NoDir
    /\ state' = [state EXCEPT ![c] = "processing"]
    /\ source' = [source EXCEPT ![c] = sessionDir[c]]
    /\ Goto(c, "flush")
    /\ UNCHANGED <<link, started, kind, stream, dirs, workDir, disk, turn>>

-----------------------------------------------------------------------------
(* The handler of 'finish', await by await.                                *)

\* A stream that was destroyed before neither finishes nor fails.
Flushed(c) ==
    /\ pipe[c] = "flush" /\ stream[c] = "open"
    /\ stream' = [stream EXCEPT ![c] = "destroyed"]
    /\ Goto(c, "prepare")
    /\ UNCHANGED <<link, state, started, kind, dirs, source, workDir, disk, turn>>

FlushFails(c) ==
    /\ pipe[c] = "flush" /\ stream[c] = "open"
    /\ stream' = [stream EXCEPT ![c] = "destroyed"]
    /\ TakeSession(c)
    /\ Goto(c, "discard")
    /\ UNCHANGED <<link, state, started, kind, batchDir, awaiting, source, workDir, disk, turn>>

Discarded(c) ==
    /\ pipe[c] = "discard"
    /\ state' = [state EXCEPT ![c] = "idle"]
    /\ source' = [source EXCEPT ![c] = NoDir]
    /\ Goto(c, Idle)
    /\ UNCHANGED <<link, started, kind, stream, dirs, workDir, disk, turn>>

\* The handler ends without having touched the queue or the disk itself.
Leave(c, step) ==
    /\ pipe[c] = step
    /\ End(c)
    /\ Goto(c, Idle)
    /\ UNCHANGED <<workDir, disk, turn>>

Continue(c, from, to) ==
    /\ pipe[c] = from
    /\ Goto(c, to)
    /\ UNCHANGED <<session, dirs, source, workDir, disk, turn>>

\* The user is still an administrator and the work directory exists: an archive waits for its turn; with its client
\* gone acquire() throws, and nobody remembers the directory.
MakeWorkDir(c) ==
    /\ pipe[c] = "prepare"
    /\ workDir' = [workDir EXCEPT ![c] = <<c, started[c], "work">>]
    /\ disk' = disk \cup {<<c, started[c], "work">>}
    /\ \/ kind[c] = "rofl" /\ Goto(c, "copy") /\ UNCHANGED <<session, dirs, source, turn>>
       \/ kind[c] = "zip" /\ link[c] = "up" /\ Acquire(c) /\ UNCHANGED <<session, dirs, source>>
       \/ kind[c] = "zip" /\ link[c] = "gone" /\ End(c) /\ Goto(c, Idle) /\ UNCHANGED turn

Unauthorized(c) == Leave(c, "prepare")

\* processBatchFiles() returns its directory.
Keep(c) ==
    /\ batchDir' = [batchDir EXCEPT ![c] = workDir[c]]
    /\ workDir' = [workDir EXCEPT ![c] = NoDir]
    /\ UNCHANGED <<session, sessionDir, awaiting, removing, source, disk>>

Copied(c) ==
    /\ pipe[c] = "copy" /\ source[c] \in disk
    /\ Keep(c)
    /\ Goto(c, "import")
    /\ UNCHANGED turn

Unzipped(c) ==
    /\ pipe[c] = "unzip"
    /\ Keep(c)
    /\ Release(c, "import")

FilesFail(c) == Continue(c, "copy", "undo") \/ Continue(c, "unzip", "undo")

\* Mutant: an archive that fails keeps the turn.
GivesBackNever(c) == FALSE

GivesBack(c) == kind[c] = "zip"

\* The work directory is removed, then the turn is given back.
Undone(c) ==
    /\ pipe[c] = "undo"
    /\ disk' = disk \ {workDir[c]}
    /\ workDir' = [workDir EXCEPT ![c] = NoDir]
    /\ End(c)
    /\ IF GivesBack(c) THEN Release(c, Idle) ELSE Goto(c, Idle) /\ UNCHANGED turn

\* The parser, the validation of the players, a second look at the session of the
\* user and the import: whatever becomes of them, the handler ends, and the socket
\* closing on the way stops none of them.
Import(c) == Leave(c, "import")

-----------------------------------------------------------------------------
\* The queue when a client has left it.
Without(c) == RemoveAt(queue, Position(queue, c))

\* The socket closes: abort(), which rejects a wait for the queue and with it the
\* handler, then cleanupResources().
Gone(c) ==
    /\ link[c] = "up"
    /\ link' = [link EXCEPT ![c] = "gone"]
    /\ Cleanup(c)
    /\ IF pipe[c] = "queued"
       THEN /\ queue' = Without(c)
            /\ NotifyLeft(Without(c), isRunning)
            /\ Goto(c, Idle)
            /\ source' = [source EXCEPT ![c] = NoDir]
            /\ state' = [state EXCEPT ![c] = "idle"]
       ELSE /\ state' = [state EXCEPT ![c] = "closed"]
            /\ UNCHANGED <<queue, told, pipe, source>>
    /\ UNCHANGED <<started, kind, workDir, disk, isRunning>>

Handler(c) ==
    \/ Flushed(c) \/ FlushFails(c) \/ Discarded(c)
    \/ MakeWorkDir(c) \/ Unauthorized(c)
    \/ Copied(c) \/ Unzipped(c) \/ FilesFail(c) \/ Undone(c) \/ Import(c)

Removal == \E d \in Dirs : Removed(d) \/ \E c \in Connections : BatchRemoved(c, d)

Next ==
    \/ \E c \in Connections :
          Start(c) \/ Quota(c) \/ DiskFails(c) \/ Finish(c) \/ Handler(c) \/ Gone(c)
    \/ Removal

Spec == Init /\ [][Next]_vars

\* Every await of a handler is answered (the parser has a timeout, the disk and
\* the database answer), and directories are removed.
Fairness == WF_vars(Removal) /\ \A c \in Connections : WF_vars(Handler(c))

FairSpec == Spec /\ Fairness

-----------------------------------------------------------------------------
(* Properties.                                                             *)

TypeOK ==
    /\ link \in [Connections -> {"up", "gone"}]
    /\ state \in [Connections -> {"idle", "uploading", "processing", "closed"}]
    /\ started \in [Connections -> 0..MaxUploads]
    /\ kind \in [Connections -> {"zip", "rofl"}]
    /\ stream \in [Connections -> {"none", "open", "destroyed"}]
    /\ sessionDir \in [Connections -> Dirs \cup {NoDir}]
    /\ batchDir \in [Connections -> Dirs \cup {NoDir}]
    /\ pipe \in [Connections -> {Idle} \cup Steps]
    /\ source \in [Connections -> Dirs \cup {NoDir}]
    /\ workDir \in [Connections -> Dirs \cup {NoDir}]
    /\ awaiting \in [Connections -> SUBSET Dirs]
    /\ removing \in SUBSET Dirs /\ disk \in SUBSET Dirs
    /\ queue \in Seq(Connections) /\ Len(queue) <= Cardinality(Connections)
    /\ isRunning \in BOOLEAN
    /\ told \in [Connections -> 0..Cardinality(Connections)]

Decompressing(c) == pipe[c] = "unzip" \/ (pipe[c] = "undo" /\ kind[c] = "zip")

\* DecompressionQueue: one archive at a time is decompressed, the next one as soon
\* as it ends, whoever fails or leaves; the turn is never lost nor given twice.
TurnHasOneOwner ==
    /\ isRunning <=> \E c \in Connections : Decompressing(c)
    /\ \A c, d \in Connections : Decompressing(c) /\ Decompressing(d) => c = d
    /\ queue # <<>> => isRunning

\* The clients in the queue are those who wait, once each, and the last position
\* each of them was told is its position.
PositionsAreCurrent ==
    /\ \A c \in Connections : pipe[c] = "queued" => Contains(queue, c)
    /\ \A i \in DOMAIN queue : pipe[queue[i]] = "queued" /\ told[queue[i]] = i + 1

\* The client left before processBatchFiles() got its turn: its work directory has
\* no owner.
LeftBeforeItsTurn(c) == link[c] = "gone" /\ pipe[c] = Idle /\ workDir[c] # NoDir

\* Every temporary directory that exists has somebody who will remove it, except
\* the work directory of an archive whose client left before its turn.
DirectoriesHaveOwners ==
    \A d \in disk \ removing : \E c \in Connections :
        \/ sessionDir[c] = d /\ (link[c] = "up" \/ awaiting[c] # {})
        \/ batchDir[c] = d /\ pipe[c] = "import"
        \/ workDir[c] = d /\ (pipe[c] # Idle \/ LeftBeforeItsTurn(c))
        \/ d \in awaiting[c]

\* Nothing removes the files of an upload while its client is there and it is
\* received or processed.
UploadHasDirectory ==
    \A c \in Connections : link[c] = "up" /\ state[c] \in {"uploading", "processing"} /\ pipe[c] # "discard" =>
        /\ sessionDir[c] \in disk \ removing
        /\ pipe[c] = "import" =>
             /\ batchDir[c] \in disk
             /\ \A e \in Connections : batchDir[c] \notin awaiting[e]

\* An archive in the queue is decompressed, or its client leaves: failures and
\* disconnections of the others do not block it.
QueueMoves == \A c \in Connections : pipe[c] = "queued" ~> pipe[c] # "queued"
=============================================================================
