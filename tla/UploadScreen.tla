---------------------------- MODULE UploadScreen ----------------------------
(***************************************************************************)
(* The upload panel of the web client: useRoflUploadWs() and its reducer   *)
(* (apps/web/src/features/rofl-upload), with what RoflUploadPanel offers   *)
(* in each stage.  An upload has a socket and a loop that sends the file   *)
(* in slices; the handlers of an earlier socket outlive it.                *)
(*                                                                         *)
(* "working" stands for the stages after "uploading".  The logs and their  *)
(* timer are left out.  What the server does is RoflUpload; here it tells  *)
(* the stages and ends with success, an error or the end of the connection *)
(* (4001, 4003 or 1009; never 1000).                                       *)
(***************************************************************************)
EXTENDS Naturals, Sequences

CONSTANTS
    MaxUploadsShown,  \* bound: uploads of one visit
    Slices            \* slices of a file

ASSUME UploadScreenAssumption == MaxUploadsShown \in Nat /\ Slices \in Nat \ {0}

NoUpload == 0
Uploads == 1..MaxUploadsShown
Running == {"uploading", "working"}
Live == {"connecting", "open"}

VARIABLES
    display,     \* stage of the reducer, or "left" once unmounted
    uploads,     \* uploads started so far
    wsRef,       \* the upload whose socket it holds, or NoUpload
    isUploading, \* isUploadingRef
    socket,      \* upload -> readyState
    inbox,       \* upload -> events on their way to the page
    loop,        \* upload -> the slicing loop: "off" or "reading"
    sent,        \* upload -> slices sent
    finished,    \* upload -> 'finish' was sent
    terminal,    \* upload -> terminalStateReached
    serving      \* upload -> what the server does with it

uploadScreenVars == <<display, uploads, wsRef, isUploading, socket, inbox, loop,
                      sent, finished, terminal, serving>>
closures == <<uploads, wsRef, inbox, loop, sent, finished, serving>>

UploadScreenInit ==
    /\ display = "idle"
    /\ uploads = 0 /\ wsRef = NoUpload
    /\ isUploading = FALSE
    /\ socket = [n \in Uploads |-> "none"]
    /\ inbox = [n \in Uploads |-> <<>>]
    /\ loop = [n \in Uploads |-> "off"]
    /\ sent = [n \in Uploads |-> 0]
    /\ finished = [n \in Uploads |-> FALSE]
    /\ terminal = [n \in Uploads |-> FALSE]
    /\ serving = [n \in Uploads |-> "nothing"]

\* After the page is left no dispatch shows.
Show(stage) == display' = IF display = "left" THEN "left" ELSE stage

\* socket.close(1000): nothing is sent or received from then on.
Closing(n) == IF socket[n] \in Live THEN "closing" ELSE socket[n]

-----------------------------------------------------------------------------
(* What is done on the page. *)

\* A file dropped on the panel, which offers it only when idle.
UploadFile ==
    /\ display = "idle" /\ ~isUploading
    /\ uploads < MaxUploadsShown
    /\ isUploading' = TRUE
    /\ uploads' = uploads + 1
    /\ wsRef' = uploads + 1
    /\ socket' = [socket EXCEPT ![uploads + 1] = "connecting"]
    /\ display' = "uploading"
    /\ UNCHANGED <<inbox, loop, sent, finished, terminal, serving>>

\* A file of another type, or a page without an address to connect to.
RefuseFile ==
    /\ display = "idle" /\ ~isUploading
    /\ display' = "error"
    /\ UNCHANGED <<isUploading, socket, terminal, closures>>

CloseCurrent ==
    /\ socket' = IF wsRef = NoUpload THEN socket
                 ELSE [socket EXCEPT ![wsRef] = Closing(wsRef)]
    /\ wsRef' = NoUpload

\* The buttons of an error and of a finished upload.
ResetPanel ==
    /\ display \in {"error", "completed"}
    /\ CloseCurrent
    /\ isUploading' = FALSE
    /\ display' = "idle"
    /\ UNCHANGED <<uploads, inbox, loop, sent, finished, terminal, serving>>

LeavePanel ==
    /\ display # "left"
    /\ CloseCurrent
    /\ display' = "left"
    /\ UNCHANGED <<uploads, isUploading, inbox, loop, sent, finished, terminal,
                   serving>>

-----------------------------------------------------------------------------
(* The handlers of a socket. *)

OnOpen(n) ==
    /\ socket[n] = "connecting"
    /\ socket' = [socket EXCEPT ![n] = "open"]
    /\ serving' = [serving EXCEPT ![n] = "starting"]
    /\ UNCHANGED <<display, uploads, wsRef, isUploading, inbox, loop, sent,
                   finished, terminal>>

\* The next event; 'started' begins to send the file.
OnMessage(n) ==
    /\ socket[n] = "open" /\ inbox[n] # <<>>
    /\ inbox' = [inbox EXCEPT ![n] = Tail(@)]
    /\ LET event == Head(inbox[n]) IN
         \/ /\ event = "started"
            /\ Show("uploading")
            /\ loop' = [loop EXCEPT ![n] = "reading"]
            /\ UNCHANGED <<isUploading, socket, terminal>>
         \/ /\ event = "stage"
            /\ Show("working")
            /\ UNCHANGED <<isUploading, socket, loop, terminal>>
         \/ /\ event \in {"success", "error"}
            /\ Show(IF event = "success" THEN "completed" ELSE "error")
            /\ terminal' = [terminal EXCEPT ![n] = TRUE]
            /\ isUploading' = FALSE
            /\ socket' = [socket EXCEPT ![n] = "closing"]
            /\ UNCHANGED loop
    /\ UNCHANGED <<uploads, wsRef, sent, finished, serving>>

\* A slice was read and the buffer has room: it is sent, and after the last
\* one 'finish', unless the socket was closed meanwhile.
SliceRead(n) ==
    /\ loop[n] = "reading"
    /\ IF socket[n] = "open"
       THEN /\ sent' = [sent EXCEPT ![n] = @ + 1]
            /\ finished' = [finished EXCEPT ![n] = sent[n] + 1 = Slices]
            /\ loop' = [loop EXCEPT ![n] = IF sent[n] + 1 = Slices
                                           THEN "off" ELSE "reading"]
       ELSE loop' = [loop EXCEPT ![n] = "off"] /\ UNCHANGED <<sent, finished>>
    /\ UNCHANGED <<display, uploads, wsRef, isUploading, socket, inbox,
                   terminal, serving>>

\* The file cannot be read any more, or the buffer has been full for 15 s.
SliceFails(n) ==
    /\ loop[n] = "reading"
    /\ loop' = [loop EXCEPT ![n] = "off"]
    /\ terminal' = [terminal EXCEPT ![n] = TRUE]
    /\ isUploading' = FALSE
    /\ Show("error")
    /\ socket' = [socket EXCEPT ![n] = Closing(n)]
    /\ UNCHANGED <<uploads, wsRef, inbox, sent, finished, serving>>

\* onerror and onclose of a connection that breaks or that the server ends,
\* with any code but 1000.
ConnectionLost(n) ==
    /\ socket[n] \in Live \cup {"closing"}
    /\ socket' = [socket EXCEPT ![n] = "closed"]
    /\ isUploading' = FALSE
    /\ IF terminal[n] THEN UNCHANGED display ELSE Show("error")
    /\ UNCHANGED <<terminal, closures>>

\* onclose with 1000: the end of the closing handshake of the page.
OnClose(n) ==
    /\ socket[n] = "closing"
    /\ socket' = [socket EXCEPT ![n] = "closed"]
    /\ isUploading' = FALSE
    /\ UNCHANGED <<display, terminal, closures>>

-----------------------------------------------------------------------------
(* The server. *)

Sends(n, event, next) ==
    /\ socket[n] = "open"
    /\ inbox' = [inbox EXCEPT ![n] = Append(@, event)]
    /\ serving' = [serving EXCEPT ![n] = next]
    /\ UNCHANGED <<display, uploads, wsRef, isUploading, socket, loop, sent,
                   finished, terminal>>

Serve(n) ==
    \/ serving[n] = "starting" /\ Sends(n, "started", "receiving")
    \/ serving[n] = "receiving" /\ finished[n] /\ Sends(n, "stage", "importing")
    \/ serving[n] = "importing" /\ Sends(n, "success", "done")
    \/ serving[n] \in {"starting", "receiving", "importing"} /\ Sends(n, "error", "done")

UploadScreenNext ==
    \/ UploadFile \/ RefuseFile \/ ResetPanel \/ LeavePanel
    \/ \E n \in Uploads :
        \/ OnOpen(n) \/ OnMessage(n) \/ SliceRead(n) \/ SliceFails(n)
        \/ ConnectionLost(n) \/ OnClose(n) \/ Serve(n)

UploadScreenSpec == UploadScreenInit /\ [][UploadScreenNext]_uploadScreenVars

-----------------------------------------------------------------------------

UploadScreenTypeOK ==
    /\ display \in Running \cup {"idle", "completed", "error", "left"}
    /\ uploads \in 0..MaxUploadsShown /\ wsRef \in 0..MaxUploadsShown
    /\ socket \in [Uploads -> Live \cup {"none", "closing", "closed"}]
    /\ loop \in [Uploads -> {"off", "reading"}]
    /\ sent \in [Uploads -> 0..Slices]
    /\ isUploading \in BOOLEAN
    /\ finished \in [Uploads -> BOOLEAN] /\ terminal \in [Uploads -> BOOLEAN]
    /\ serving \in [Uploads -> {"nothing", "starting", "receiving", "importing", "done"}]

\* Whatever an earlier upload still does, the panel never waits for a
\* connection that is over, a panel that offers a new upload can start it and
\* holds no other connection, and the page never has two at a time.
PanelFollowsItsUpload ==
    /\ display \in Running => wsRef # NoUpload /\ socket[wsRef] \in Live
    /\ display = "idle" => ~isUploading
    /\ \A n \in Uploads : socket[n] \in Live => n = wsRef
=============================================================================
