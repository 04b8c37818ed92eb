---------------------------- MODULE ProcessMemory ----------------------------
(***************************************************************************)
(* What three parts of the API remember in memory, within bounds of time   *)
(* and size: the answer of the bot's health probe, the windows of the      *)
(* limiter of suggestions, and the avatars of Discord. They share nothing; *)
(* each has its constants, its variables and its next-state relation.      *)
(***************************************************************************)
EXTENDS Naturals, Sequences, FiniteSets, FiniteSetsExt, SequencesExt, Functions

-----------------------------------------------------------------------------
(***************************************************************************)
(* checkHealth() and probeHealth() of discord-bridge.client.ts: the public *)
(* health endpoint asks the bot whether it accepts the credentials.        *)
(*                                                                         *)
(* An action is one turn of the event loop.  Timers fire on time: the      *)
(* clock does not pass a probe's limit.                                    *)
(***************************************************************************)

CONSTANTS Callers,      \* requests for the health of the bridge
          HasUrl,       \* is the address of the bot configured?
          CacheFor,     \* healthCacheMs
          ProbeLimit,   \* healthProbeTimeoutMs
          LastTick      \* bound on the clock

ASSUME ProbeAssumption ==
  HasUrl \in BOOLEAN /\ CacheFor \in Nat /\ ProbeLimit \in Nat \ {0} /\ LastTick \in Nat

Answers == {"connected", "authentication_failed", "unreachable"}
NotAnswered == "waiting"
Quiescent == "idle"

VARIABLES tick,
          healthCache,    \* [answer, until]
          healthInFlight, \* the socket of the shared probe, or "none"
          began,          \* when the probe began
          asked,          \* what each caller got: idle, waiting or an answer
          opened,         \* when the last connection was opened, plus one
          accepted        \* when the bot last accepted a login, plus one

probeVars == <<tick, healthCache, healthInFlight, began, asked, opened, accepted>>

ProbeInit ==
  /\ tick = 0
  /\ healthCache = [answer |-> NotAnswered, until |-> 0]
  /\ healthInFlight = "none" /\ began = 0
  /\ asked = [c \in Callers |-> Quiescent]
  /\ opened = 0 /\ accepted = 0

(***************************************************************************)
(* The end of a probe: the socket is closed, the answer is kept and every  *)
(* caller that shares the probe gets it.                                   *)
(***************************************************************************)
Remembered(answer) ==
  IF CacheFor > 0 THEN [answer |-> answer, until |-> tick + CacheFor] ELSE healthCache

Concludes(answer, callers) ==
  /\ healthInFlight' = "none"
  /\ healthCache' = Remembered(answer)
  /\ asked' = [c \in Callers |-> IF c \in callers THEN answer ELSE asked[c]]

Waiting == {c \in Callers : asked[c] = NotAnswered}

\* Before the socket is open, the bot cannot be reached; after, it does not
\* accept the login.
Failure == IF healthInFlight = "open" THEN "authentication_failed" ELSE "unreachable"

(***************************************************************************)
(* checkHealth().                                                          *)
(***************************************************************************)
\* Mutant: the answer is not remembered.
CacheIsFreshNever == FALSE

CacheIsFresh == healthCache.answer # NotAnswered /\ tick < healthCache.until

CheckCached(c) ==
  /\ asked[c] = Quiescent /\ CacheIsFresh
  /\ asked' = [asked EXCEPT ![c] = healthCache.answer]
  /\ UNCHANGED <<tick, healthCache, healthInFlight, began, opened, accepted>>

ProbeRunning == healthInFlight # "none"

CheckJoins(c) ==
  /\ asked[c] = Quiescent /\ ~CacheIsFresh /\ ProbeRunning
  /\ asked' = [asked EXCEPT ![c] = NotAnswered]
  /\ UNCHANGED <<tick, healthCache, healthInFlight, began, opened, accepted>>

\* Without an address, or when the socket cannot be created, the answer is
\* there at once.
CheckProbes(c, creates) ==
  /\ asked[c] = Quiescent /\ ~CacheIsFresh /\ ~ProbeRunning
  /\ began' = tick
  /\ IF HasUrl /\ creates
       THEN /\ healthInFlight' = "connecting"
            /\ opened' = tick + 1
            /\ asked' = [asked EXCEPT ![c] = NotAnswered]
            /\ UNCHANGED healthCache
       ELSE /\ Concludes("unreachable", {c})
            /\ UNCHANGED opened
  /\ UNCHANGED <<tick, accepted>>

(***************************************************************************)
(* probeHealth().                                                          *)
(***************************************************************************)
\* The login is sent as soon as the socket is open; sending may throw.
SocketOpens(sent) ==
  /\ healthInFlight = "connecting"
  /\ IF sent THEN healthInFlight' = "open" /\ UNCHANGED <<healthCache, asked>>
             ELSE Concludes("authentication_failed", Waiting)
  /\ UNCHANGED <<tick, began, opened, accepted>>

LoginAccepted ==
  /\ healthInFlight = "open"
  /\ accepted' = tick + 1
  /\ Concludes("connected", Waiting)
  /\ UNCHANGED <<tick, began, opened>>

\* 'error' or 'close' of the socket, or the timer of the probe.
ProbeFails ==
  /\ ProbeRunning
  /\ Concludes(Failure, Waiting)
  /\ UNCHANGED <<tick, began, opened, accepted>>

\* A caller reads its answer and may ask again.
CallerReads(c) ==
  /\ asked[c] \in Answers
  /\ asked' = [asked EXCEPT ![c] = Quiescent]
  /\ UNCHANGED <<tick, healthCache, healthInFlight, began, opened, accepted>>

ProbeTick ==
  /\ tick < LastTick /\ (ProbeRunning => tick < began + ProbeLimit)
  /\ tick' = tick + 1
  /\ UNCHANGED <<healthCache, healthInFlight, began, asked, opened, accepted>>

ProbeNext ==
  \/ \E c \in Callers : \/ CheckCached(c) \/ CheckJoins(c) \/ CallerReads(c)
                        \/ \E creates \in BOOLEAN : CheckProbes(c, creates)
  \/ \E sent \in BOOLEAN : SocketOpens(sent)
  \/ LoginAccepted \/ ProbeFails \/ ProbeTick

ProbeSpec == ProbeInit /\ [][ProbeNext]_probeVars

(***************************************************************************)
(* Properties.                                                             *)
(***************************************************************************)
ProbeTypeOK ==
  /\ tick \in 0..LastTick /\ began \in 0..LastTick
  /\ healthCache \in [answer: Answers \cup {NotAnswered}, until: 0..LastTick + CacheFor]
  /\ healthInFlight \in {"none", "connecting", "open"}
  /\ asked \in [Callers -> Answers \cup {NotAnswered, Quiescent}]
  /\ opened \in 0..LastTick + 1 /\ accepted \in 0..LastTick + 1

\* However many requests arrive, a connection with the bot is opened only when
\* no other is open and a whole cache period after the last one
\* (discord-bridge.client.ts: "at most one connection with the bot per period");
\* and nobody is told that the bot is connected unless it accepted a login
\* within that period.
OneConnectionPerPeriod ==
  [][/\ opened' # opened => ~ProbeRunning /\ (opened # 0 => tick + 1 >= opened + CacheFor)
     /\ \A c \in Callers :
          asked'[c] = "connected" /\ asked[c] # "connected" =>
            accepted' # 0 /\ tick + 1 <= accepted' + CacheFor]_probeVars

-----------------------------------------------------------------------------
(***************************************************************************)
(* suggestion-rate-limiter.ts: the fixed windows that limit how many       *)
(* suggestions a client submits, in a table of bounded size.               *)
(***************************************************************************)

CONSTANTS Clients,    \* keys: an address or a signed-in member
          Limit,      \* submissions per window of each client (its rule)
          WindowMs,
          MaxClients, \* size of the table
          LastInstant \* bound on the clock

ASSUME LimiterAssumption ==
  /\ Limit \in [Clients -> Nat \ {0}] /\ WindowMs \in Nat \ {0}
  /\ MaxClients \in Nat /\ LastInstant \in Nat

VARIABLES instant,
          windows, \* [key -> [count, resetAt]] for the clients in the table
          granted, \* the accepted submissions: the nth of its client's window
          retry    \* when each client was told to come back, or 0

limiterVars == <<instant, windows, granted, retry>>

Instants == 0..LastInstant

LimiterInit ==
  /\ instant = 0
  /\ windows = [k \in {} |-> [count |-> 0, resetAt |-> 0]]
  /\ granted = {}
  /\ retry = [k \in Clients |-> 0]

Tracked(k) == k \in DOMAIN windows
ExpiredIn(table, k) == instant >= table[k].resetAt

\* prune()
Pruned == Restrict(windows, {k \in DOMAIN windows : ~ExpiredIn(windows, k)})

Full(table) == Cardinality(DOMAIN table) >= MaxClients

Accept(k, table) ==
  /\ windows' = table
  /\ granted' = granted \cup {[client |-> k, opened |-> table[k].resetAt - WindowMs,
                              nth |-> table[k].count, at |-> instant,
                              no |-> Cardinality(granted) + 1]}
  /\ UNCHANGED <<instant, retry>>

Refuse(k, table, after) ==
  /\ windows' = table
  /\ retry' = [retry EXCEPT ![k] = instant + after]
  /\ UNCHANGED <<instant, granted>>

NewWindow(table, k) ==
  [c \in DOMAIN table \cup {k} |-> IF c = k THEN [count |-> 1, resetAt |-> instant + WindowMs]
                                            ELSE table[c]]

\* consume(): a client without a window; a full table is pruned first.
FirstSubmission(k) ==
  /\ ~Tracked(k)
  /\ LET table == IF Full(windows) THEN Pruned ELSE windows
     IN IF Full(table) THEN Refuse(k, table, WindowMs)
                       ELSE Accept(k, NewWindow(table, k))

\* consume(): a window that is over is replaced.
NextWindow(k) == Tracked(k) /\ ExpiredIn(windows, k) /\ Accept(k, NewWindow(windows, k))

\* Mutant: one too many.
WithinLimitOffByOne(k) == windows[k].count <= Limit[k]

WithinLimit(k) == windows[k].count < Limit[k]

\* consume(): within a window.
AnotherSubmission(k) ==
  /\ Tracked(k) /\ ~ExpiredIn(windows, k)
  /\ IF WithinLimit(k) THEN Accept(k, [windows EXCEPT ![k].count = @ + 1])
                       ELSE Refuse(k, windows, windows[k].resetAt - instant)

InstantPasses ==
  /\ instant < LastInstant
  /\ instant' = instant + 1
  /\ UNCHANGED <<windows, granted, retry>>

LimiterNext ==
  \/ \E k \in Clients : FirstSubmission(k) \/ NextWindow(k) \/ AnotherSubmission(k)
  \/ InstantPasses

LimiterSpec == LimiterInit /\ [][LimiterNext]_limiterVars

(***************************************************************************)
(* Properties.                                                             *)
(***************************************************************************)
LimiterTypeOK ==
  /\ instant \in Instants /\ DOMAIN windows \subseteq Clients
  /\ \A k \in DOMAIN windows : windows[k].count \in 1..Limit[k]
  /\ granted \subseteq [client: Clients, opened: Instants, nth: Nat, at: Instants, no: Nat]
  /\ retry \in [Clients -> Nat]

AcceptedSince(k, t) == {g \in granted : g.client = k /\ g.at >= t}

\* A fixed window lets a client submit fewer than twice its limit in any period
\* of that length, and at most its limit in one that begins with nothing
\* accepted for as long; neither pruning the table nor the end of a window
\* gives it more.  The table never grows past its bound.
LimitIsKept ==
  /\ Cardinality(DOMAIN windows) <= MaxClients
  /\ \A k \in Clients :
       LET start == IF instant < WindowMs THEN 0 ELSE instant - WindowMs + 1
           before == IF start < WindowMs THEN 0 ELSE start - WindowMs
       IN /\ Cardinality(AcceptedSince(k, start)) <= 2 * Limit[k] - 1
          /\ AcceptedSince(k, before) = AcceptedSince(k, start)
               => Cardinality(AcceptedSince(k, start)) <= Limit[k]

-----------------------------------------------------------------------------
(***************************************************************************)
(* The avatars served by discordAvatarsRouter() of                         *)
(* apps/api/src/modules/auth/discord-avatars.router.ts: images of Discord, *)
(* downloaded once for all who ask and kept for Ttl in a Map of bounded    *)
(* size, the oldest giving way.                                            *)
(***************************************************************************)

CONSTANTS
    Avatars,      \* discordId/hash
    Sizes,        \* bytes of an image, at most MAX_IMAGE_BYTES
    MaxPending,   \* 16
    MaxEntries,   \* 256
    MaxBytes,     \* MAX_CACHE_BYTES
    Ttl,          \* TTL
    LastHour      \* bound on the clock

ASSUME AvatarAssumption ==
    /\ Sizes \subseteq Nat \ {0} /\ \A s \in Sizes : s <= MaxBytes
    /\ MaxEntries \in Nat \ {0} /\ MaxPending \in Nat
    /\ Ttl \in Nat /\ LastHour \in Nat

VARIABLES
    hour,       \* Date.now()
    images,     \* cache, in the order of insertion of a Map
    cacheBytes,
    pending,    \* avatars being downloaded, as the keys of the Map
    downloads   \* downloads under way, of each avatar

avatarVars == <<hour, images, cacheBytes, pending, downloads>>

AvatarInit ==
    /\ hour = 0
    /\ images = <<>>
    /\ cacheBytes = 0
    /\ pending = {}
    /\ downloads = [a \in Avatars |-> 0]

Keys(s) == {s[i].key : i \in DOMAIN s}
BytesOf(s) == FoldSeq(LAMBDA e, n : e.size + n, 0, s)
Fresh(e) == e.expiresAt > hour

\* The head of the handler drops what has expired.
Unexpired == SelectSeq(images, Fresh)

IsPending(a) == a \in pending

\* A hit, a wait for the download of another request, 503 or a new download.
RequestAvatar(a) ==
    /\ images' = Unexpired
    /\ cacheBytes' = cacheBytes - (BytesOf(images) - BytesOf(Unexpired))
    /\ IF a \in Keys(Unexpired) \/ IsPending(a) \/ Cardinality(pending) >= MaxPending
       THEN UNCHANGED <<pending, downloads>>
       ELSE /\ pending' = pending \cup {a}
            /\ downloads' = [downloads EXCEPT ![a] = @ + 1]
    /\ UNCHANGED hour

\* The while loop: the oldest images go until there is room.
Evicted(s, size) ==
    LET Without(n) == SubSeq(s, n + 1, Len(s))
        HasRoom(n) == Len(s) - n < MaxEntries /\ BytesOf(Without(n)) + size <= MaxBytes
    IN Without(Min({n \in 0..Len(s) : n = Len(s) \/ HasRoom(n)}))

\* Map.set(): a key that is there keeps its place.
WithAvatar(s, e) ==
    IF e.key \in Keys(s)
    THEN [i \in DOMAIN s |-> IF s[i].key = e.key THEN e ELSE s[i]]
    ELSE Append(s, e)

DownloadEnds(a, size) ==
    LET room == Evicted(images, size)
        avatar == [key |-> a, size |-> size, expiresAt |-> hour + Ttl]
    IN /\ downloads[a] > 0
       /\ images' = WithAvatar(room, avatar)
       /\ cacheBytes' = cacheBytes - (BytesOf(images) - BytesOf(room)) + size
       /\ pending' = pending \ {a}
       /\ downloads' = [downloads EXCEPT ![a] = @ - 1]
       /\ UNCHANGED hour

\* Refused, too large, empty or late: everybody who waits gets 502.
DownloadFails(a) ==
    /\ downloads[a] > 0
    /\ pending' = pending \ {a}
    /\ downloads' = [downloads EXCEPT ![a] = @ - 1]
    /\ UNCHANGED <<hour, images, cacheBytes>>

HourPasses ==
    /\ hour < LastHour
    /\ hour' = hour + 1
    /\ UNCHANGED <<images, cacheBytes, pending, downloads>>

AvatarNext ==
    \/ \E a \in Avatars :
        \/ RequestAvatar(a) \/ DownloadFails(a)
        \/ \E s \in Sizes : DownloadEnds(a, s)
    \/ HourPasses

-----------------------------------------------------------------------------

AvatarTypeOK ==
    /\ hour \in 0..LastHour
    /\ \A i \in DOMAIN images :
        images[i] \in [key : Avatars, size : Sizes, expiresAt : 0..(LastHour + Ttl)]
    /\ cacheBytes \in Nat
    /\ pending \subseteq Avatars
    /\ downloads \in [Avatars -> Nat]

\* The count of bytes that decides on evictions is what the cache holds,
\* however downloads, evictions and expiries interleave; the cache, its bytes
\* and the downloads keep to their limits, and an avatar is downloaded once for
\* all who ask for it, never while it is in the cache.
AvatarsStayBounded ==
    /\ cacheBytes = BytesOf(images)
    /\ cacheBytes <= MaxBytes /\ Len(images) <= MaxEntries
    /\ \A a \in Avatars :
        downloads[a] <= (IF a \in pending /\ a \notin Keys(images) THEN 1 ELSE 0)
    /\ Cardinality(pending) <= MaxPending
=============================================================================
