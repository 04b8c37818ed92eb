---------------------------- MODULE SitemapCache ----------------------------
(***************************************************************************)
(* The cache of the sitemap: getSitemapXml() and invalidateCache() of      *)
(* apps/api/src/modules/sitemap/processing/sitemap.service.ts, called by   *)
(* the requests for the sitemap and, through invalidateSitemapOnWrite(),   *)
(* by the administration writes that were answered with success.           *)
(*                                                                         *)
(* An XML document stands for what each of its queries read: the writes    *)
(* committed by then.  A generation is named by the request that started   *)
(* it.                                                                     *)
(***************************************************************************)
EXTENDS Naturals, FiniteSets

CONSTANTS
    Requests,  \* GET requests for the sitemap
    Writes,    \* administration writes
    Queries,   \* the queries of generateXml()
    Missing

ASSUME SitemapAssumption ==
    Missing \notin Requests \cup [Queries -> SUBSET Writes]

VARIABLES
    write,        \* of a write: "new", "committed", "answered" or "lost"
    requestPhase, \* of a request: "new", "waits", "served" or "failed"
    promise,      \* of a request that waits: whose promise
    seenWrites,   \* of a request: the writes answered when it arrived
    document,     \* of a request that was served: the document
    running,      \* the generations whose queries have not all answered
    hasRead,      \* of a generation: what each query has read, or Missing
    started,      \* of a generation: the value of `generation` when it began
    cachedXml, inFlightPromise,
    cacheGeneration \* generation

sitemapWrites == <<write>>
sitemapRequests == <<requestPhase, promise, seenWrites, document>>
sitemapGenerators == <<running, hasRead, started>>
sitemapService == <<cachedXml, inFlightPromise, cacheGeneration>>
sitemapVars == <<sitemapWrites, sitemapRequests, sitemapGenerators, sitemapService>>

SitemapInit ==
    /\ write = [w \in Writes |-> "new"]
    /\ requestPhase = [r \in Requests |-> "new"]
    /\ promise = [r \in Requests |-> Missing]
    /\ seenWrites = [r \in Requests |-> {}]
    /\ document = [r \in Requests |-> Missing]
    /\ running = {}
    /\ hasRead = [r \in Requests |-> [q \in Queries |-> Missing]]
    /\ started = [r \in Requests |-> 0]
    /\ cachedXml = Missing
    /\ inFlightPromise = Missing
    /\ cacheGeneration = 0

Committed == {w \in Writes : write[w] # "new"}
Answered == {w \in Writes : write[w] = "answered"}

-----------------------------------------------------------------------------
(* getSitemapXml().                                                        *)

Arrives(r) ==
    /\ requestPhase[r] = "new"
    /\ seenWrites' = [seenWrites EXCEPT ![r] = Answered]

Hit(r) ==
    /\ Arrives(r)
    /\ cachedXml # Missing
    /\ requestPhase' = [requestPhase EXCEPT ![r] = "served"]
    /\ document' = [document EXCEPT ![r] = cachedXml]
    /\ UNCHANGED <<sitemapWrites, promise, sitemapGenerators, sitemapService>>

Waits(r, s) ==
    /\ requestPhase' = [requestPhase EXCEPT ![r] = "waits"]
    /\ promise' = [promise EXCEPT ![r] = s]

Join(r) ==
    /\ Arrives(r)
    /\ cachedXml = Missing /\ inFlightPromise # Missing
    /\ Waits(r, inFlightPromise)
    /\ UNCHANGED <<sitemapWrites, document, sitemapGenerators, sitemapService>>

\* Mutant: the promise is stored only when it has resolved.
InFlightLate(r) == Missing

InFlight(r) == r

Generate(r) ==
    /\ Arrives(r)
    /\ cachedXml = Missing /\ inFlightPromise = Missing
    /\ Waits(r, r)
    /\ running' = running \cup {r}
    /\ started' = [started EXCEPT ![r] = cacheGeneration]
    /\ inFlightPromise' = InFlight(r)
    /\ UNCHANGED <<sitemapWrites, document, hasRead, cachedXml, cacheGeneration>>

\* One of the queries of generateXml() reads the database.
Query(r, q) ==
    /\ r \in running /\ hasRead[r][q] = Missing
    /\ hasRead' = [hasRead EXCEPT ![r][q] = Committed]
    /\ UNCHANGED <<sitemapWrites, sitemapRequests, running, started, sitemapService>>

Lands(r) == IF inFlightPromise = r THEN Missing ELSE inFlightPromise

Landed(r) ==
    /\ running' = running \ {r}
    /\ inFlightPromise' = Lands(r)

\* Mutant: a generation older than the last invalidation is cached.
CachesAlways(r) == TRUE

Caches(r) == started[r] = cacheGeneration

Awaits(s, r) == requestPhase[s] = "waits" /\ promise[s] = r

\* The promise resolves: everybody who awaits it is served.
Generated(r) ==
    /\ r \in running /\ \A q \in Queries : hasRead[r][q] # Missing
    /\ Landed(r)
    /\ cachedXml' = IF Caches(r) THEN hasRead[r] ELSE cachedXml
    /\ requestPhase' = [s \in Requests |-> IF Awaits(s, r) THEN "served" ELSE requestPhase[s]]
    /\ document' = [s \in Requests |-> IF Awaits(s, r) THEN hasRead[r] ELSE document[s]]
    /\ UNCHANGED <<sitemapWrites, promise, seenWrites, hasRead, started, cacheGeneration>>

GenerationFails(r) ==
    /\ r \in running
    /\ Landed(r)
    /\ requestPhase' = [s \in Requests |-> IF Awaits(s, r) THEN "failed" ELSE requestPhase[s]]
    /\ UNCHANGED <<sitemapWrites, promise, seenWrites, document, hasRead, started,
                   cachedXml, cacheGeneration>>

\* The cached document is older than cacheTtlMs: it is not looked at any more.
Expire ==
    /\ cachedXml # Missing
    /\ cachedXml' = Missing
    /\ UNCHANGED <<sitemapWrites, sitemapRequests, sitemapGenerators, inFlightPromise,
                   cacheGeneration>>

-----------------------------------------------------------------------------
(* Administration writes.                                                  *)

Commit(w) ==
    /\ write[w] = "new"
    /\ write' = [write EXCEPT ![w] = "committed"]
    /\ UNCHANGED <<sitemapRequests, sitemapGenerators, sitemapService>>

InvalidateCache ==
    /\ cacheGeneration' = cacheGeneration + 1
    /\ cachedXml' = Missing
    /\ inFlightPromise' = Missing

\* The response was sent, with a status below 400.
WriteAnswered(w) ==
    /\ write[w] = "committed"
    /\ write' = [write EXCEPT ![w] = "answered"]
    /\ InvalidateCache
    /\ UNCHANGED <<sitemapRequests, sitemapGenerators>>

\* Its client has gone before the response, or a later step of the request failed.
Lose(w) ==
    /\ write[w] = "committed"
    /\ write' = [write EXCEPT ![w] = "lost"]
    /\ UNCHANGED <<sitemapRequests, sitemapGenerators, sitemapService>>

SitemapNext ==
    \/ \E r \in Requests :
        \/ Hit(r) \/ Join(r) \/ Generate(r)
        \/ \E q \in Queries : Query(r, q)
        \/ Generated(r) \/ GenerationFails(r)
    \/ Expire
    \/ \E w \in Writes : Commit(w) \/ WriteAnswered(w) \/ Lose(w)

SitemapSpec == SitemapInit /\ [][SitemapNext]_sitemapVars

-----------------------------------------------------------------------------
(* Properties.                                                             *)

Documents == [Queries -> SUBSET Writes]

SitemapTypeOK ==
    /\ write \in [Writes -> {"new", "committed", "answered", "lost"}]
    /\ requestPhase \in [Requests -> {"new", "waits", "served", "failed"}]
    /\ promise \in [Requests -> Requests \cup {Missing}]
    /\ seenWrites \in [Requests -> SUBSET Writes]
    /\ document \in [Requests -> Documents \cup {Missing}]
    /\ running \in SUBSET Requests
    /\ hasRead \in [Requests -> [Queries -> (SUBSET Writes) \cup {Missing}]]
    /\ started \in [Requests -> Nat]
    /\ cachedXml \in Documents \cup {Missing}
    /\ inFlightPromise \in running \cup {Missing}
    /\ cacheGeneration \in Nat

\* docs/api/sitemap/routes.md (1.2): a sitemap asked for after a write was answered
\* shows it, whatever was cached or being generated at that moment.
AnswersAreCurrent ==
    \A r \in Requests :
        requestPhase[r] = "served" => \A q \in Queries : seenWrites[r] \subseteq document[r][q]

\* docs/api/sitemap/persistence.md: between two invalidations the database is
\* queried by one generation at a time.
SingleFlight ==
    \A r, s \in running : started[r] = started[s] => r = s
=============================================================================
