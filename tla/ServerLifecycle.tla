--------------------------- MODULE ServerLifecycle ---------------------------
(***************************************************************************)
(* The life of the API process: apps/api/src/server.ts, with the close()   *)
(* of the upload gateway and of the database pool.  HTTP requests and the  *)
(* clean-up of images take connections from the pool; so does an upload.   *)
(* A handler goes on when its client leaves or its socket is terminated.   *)
(*                                                                         *)
(* pool.end() refuses new queries at once and waits for those under way; a *)
(* second call rejects, and a rejection nobody awaits ends the process.    *)
(* Whether the address can be listened on is known before a signal comes.  *)
(***************************************************************************)
EXTENDS Naturals

CONSTANTS
    HttpRequests,    \* requests that may be under way at a time
    UploadHandlers,  \* handlers of uploads
    MaxCleanups      \* bound: clean-ups started

VARIABLES
    process,     \* "starting", "serving", "exited": the event loop is empty,
                 \* or "killed": process.exit(1) or an unhandled rejection
    closing,
    listening,   \* server.listen(), until server.close()
    http,        \* HTTP request -> "none", "waiting": its client waits, or "left"
    querying,    \* the requests whose handler holds a connection of the pool
    uploading,   \* upload handler -> "none", "running" or "importing": it holds
                 \* a connection
    cleanups,    \* clean-ups started
    imageCleanup,\* one is under way
    interval,    \* imageCleanupTimer
    failure,     \* how far the 'error' handler is: "none", "clean-up" or "pool"
    closed,      \* how far shutdown() is: "none", "gateway", "server", "clients"
                 \* or "pool"
    pool,        \* "open", "ending" or "ended"
    watchdog     \* the ten seconds of shutdown() run

requestVars == <<http, querying, uploading>>
cleanVars == <<cleanups, imageCleanup, interval>>
closeVars == <<closing, listening, failure, closed, pool, watchdog>>
serverVars == <<process, requestVars, cleanVars, closeVars>>

ServerInit ==
    /\ process = "starting"
    /\ closing = FALSE /\ listening = FALSE
    /\ http = [r \in HttpRequests |-> "none"] /\ querying = {}
    /\ uploading = [u \in UploadHandlers |-> "none"]
    /\ cleanups = 0 /\ imageCleanup = FALSE
    /\ interval = FALSE
    /\ failure = "none" /\ closed = "none" /\ pool = "open" /\ watchdog = FALSE

PoolOpen == pool = "open"
Alive == process \in {"starting", "serving"}

\* The database answers: the clean-up starts and the server listens; or the
\* address is taken, and the 'error' handler waits for the clean-up.
Start(bound) ==
    /\ process = "starting"
    /\ process' = "serving"
    /\ listening' = bound /\ interval' = bound
    /\ failure' = IF bound THEN "none" ELSE "clean-up"
    /\ imageCleanup' = TRUE /\ cleanups' = cleanups + 1
    /\ UNCHANGED <<requestVars, closing, closed, pool, watchdog>>

\* The database does not answer.
StartFails ==
    /\ process = "starting"
    /\ process' = "killed"
    /\ UNCHANGED <<requestVars, cleanVars, closeVars>>

HttpArrives(r) ==
    /\ process = "serving" /\ listening /\ http[r] = "none"
    /\ http' = [http EXCEPT ![r] = "waiting"]
    /\ UNCHANGED <<process, querying, uploading, cleanVars, closeVars>>

\* The client closes its connection; the handler is not told.
ClientLeaves(r) ==
    /\ Alive /\ http[r] = "waiting"
    /\ http' = [http EXCEPT ![r] = "left"]
    /\ UNCHANGED <<process, querying, uploading, cleanVars, closeVars>>

HttpQueries(r) ==
    /\ Alive /\ http[r] # "none" /\ r \notin querying /\ PoolOpen
    /\ querying' = querying \cup {r}
    /\ UNCHANGED <<process, http, uploading, cleanVars, closeVars>>

QueryEnds(r) ==
    /\ Alive /\ r \in querying
    /\ querying' = querying \ {r}
    /\ UNCHANGED <<process, http, uploading, cleanVars, closeVars>>

\* The answer, or the error of a query the pool refuses.
HttpEnds(r) ==
    /\ Alive /\ http[r] # "none" /\ r \notin querying
    /\ http' = [http EXCEPT ![r] = "none"]
    /\ UNCHANGED <<process, querying, uploading, cleanVars, closeVars>>

\* The gateway accepts no upgrade once it is closed.
UploadBegins(u) ==
    /\ process = "serving" /\ listening /\ closed = "none" /\ uploading[u] = "none"
    /\ uploading' = [uploading EXCEPT ![u] = "running"]
    /\ UNCHANGED <<process, http, querying, cleanVars, closeVars>>

UploadImports(u) ==
    /\ Alive /\ uploading[u] = "running" /\ PoolOpen
    /\ uploading' = [uploading EXCEPT ![u] = "importing"]
    /\ UNCHANGED <<process, http, querying, cleanVars, closeVars>>

UploadEnds(u) ==
    /\ Alive /\ uploading[u] # "none"
    /\ uploading' = [uploading EXCEPT ![u] = "none"]
    /\ UNCHANGED <<process, http, querying, cleanVars, closeVars>>

\* cleanupImages(): every hour, one at a time.
CleanImages ==
    /\ process = "serving" /\ interval /\ ~imageCleanup
    /\ cleanups < MaxCleanups
    /\ imageCleanup' = TRUE /\ cleanups' = cleanups + 1
    /\ UNCHANGED <<process, requestVars, interval, closeVars>>

CleanUpEnds ==
    /\ Alive /\ imageCleanup
    /\ imageCleanup' = FALSE
    /\ UNCHANGED <<process, requestVars, cleanups, interval, closeVars>>

\* SIGINT or SIGTERM; a second one changes nothing.  Every upload socket is
\* terminated; its handler ends by itself.
Shutdown ==
    /\ process = "serving" /\ ~closing
    /\ closing' = TRUE
    /\ interval' = FALSE /\ watchdog' = TRUE
    /\ closed' = "gateway"
    /\ UNCHANGED <<process, requestVars, cleanups, imageCleanup, listening,
                   failure, pool>>

\* The callback of the gateway: server.close() accepts no more requests.
CloseServer ==
    /\ Alive /\ closed = "gateway"
    /\ closed' = "server"
    /\ listening' = FALSE
    /\ UNCHANGED <<process, requestVars, cleanVars, closing, failure, pool, watchdog>>

ClientsGone == \A r \in HttpRequests : http[r] # "waiting"
CleanUpOver == ~imageCleanup

\* Its callback, when the last connection is closed: no client waits for an
\* answer, a handler whose client left may go on.  The store and the bridge are
\* closed.
CloseClients ==
    /\ Alive /\ closed = "server" /\ ClientsGone
    /\ closed' = "clients"
    /\ UNCHANGED <<process, requestVars, cleanVars, closing, listening, failure,
                   pool, watchdog>>

\* connection.close(), the last step of shutdown() and of the 'error' handler.
EndPoolOnce ==
    IF PoolOpen THEN pool' = "ending" /\ UNCHANGED process
                ELSE process' = "killed" /\ UNCHANGED pool

\* shutdown() has awaited imageCleanup.
EndPool ==
    /\ Alive /\ closed = "clients" /\ CleanUpOver
    /\ closed' = "pool"
    /\ EndPoolOnce
    /\ UNCHANGED <<requestVars, cleanVars, closing, listening, failure, watchdog>>

\* The 'error' handler has.
GiveUpListening ==
    /\ Alive /\ failure = "clean-up" /\ CleanUpOver
    /\ failure' = "pool"
    /\ EndPoolOnce
    /\ UNCHANGED <<requestVars, cleanVars, closing, listening, closed, watchdog>>

NobodyQueries == querying = {} /\ \A u \in UploadHandlers : uploading[u] # "importing"

\* pool.end() has waited for every connection in use.
PoolEnds ==
    /\ Alive /\ pool = "ending" /\ NobodyQueries
    /\ pool' = "ended"
    /\ watchdog' = IF closed = "pool" THEN FALSE ELSE watchdog
    /\ UNCHANGED <<process, requestVars, cleanVars, closing, listening, failure, closed>>

\* Nothing is left in the event loop.
Exit ==
    /\ Alive /\ pool = "ended"
    /\ closed \in {"none", "pool"} /\ failure # "clean-up"
    /\ \A r \in HttpRequests : http[r] = "none"
    /\ \A u \in UploadHandlers : uploading[u] = "none"
    /\ process' = "exited"
    /\ UNCHANGED <<requestVars, cleanVars, closeVars>>

\* Ten seconds are over.
Watchdog ==
    /\ Alive /\ watchdog
    /\ process' = "killed"
    /\ UNCHANGED <<requestVars, cleanVars, closeVars>>

ServerNext ==
    \/ \E bound \in BOOLEAN : Start(bound)
    \/ StartFails \/ CleanImages \/ CleanUpEnds
    \/ \E r \in HttpRequests :
         \/ HttpArrives(r) \/ ClientLeaves(r)
         \/ HttpQueries(r) \/ QueryEnds(r) \/ HttpEnds(r)
    \/ \E u \in UploadHandlers : UploadBegins(u) \/ UploadImports(u) \/ UploadEnds(u)
    \/ Shutdown \/ CloseServer \/ CloseClients \/ EndPool \/ GiveUpListening
    \/ PoolEnds \/ Exit \/ Watchdog

ServerSpec == ServerInit /\ [][ServerNext]_serverVars

-----------------------------------------------------------------------------

ServerTypeOK ==
    /\ process \in {"starting", "serving", "exited", "killed"}
    /\ {closing, listening, imageCleanup, interval, watchdog} \subseteq BOOLEAN
    /\ http \in [HttpRequests -> {"none", "waiting", "left"}]
    /\ querying \subseteq HttpRequests
    /\ uploading \in [UploadHandlers -> {"none", "running", "importing"}]
    /\ cleanups \in 0..MaxCleanups
    /\ failure \in {"none", "clean-up", "pool"}
    /\ closed \in {"none", "gateway", "server", "clients", "pool"}
    /\ pool \in {"open", "ending", "ended"}

\* Whenever the signal arrives, and when the address cannot be listened on: no
\* client that waits for its answer and no clean-up of images finds the pool
\* closed (a handler whose client left may); no connection in use is taken away;
\* and until shutdown() has closed the pool its ten seconds run.
PoolOutlivesItsUsers ==
    /\ Alive /\ ~PoolOpen => ClientsGone /\ CleanUpOver
    /\ pool = "ended" => NobodyQueries
    /\ Alive /\ closing /\ ~(closed = "pool" /\ pool = "ended") => watchdog
=============================================================================
