------------------------ MODULE SitemapCacheProofs ------------------------
(***************************************************************************)
(* Theorems about the cache of the sitemap: its type, that one generation  *)
(* at a time queries the database between two invalidations, and that no   *)
(* request is served a document older than the writes answered before it,  *)
(* for any number of requests, writes and queries.                         *)
(***************************************************************************)
EXTENDS SitemapCache, TLAPS

\* What a document includes, and what the queries that have answered include.
Shows(doc, S) == \A q \in Queries : S \subseteq doc[q]
Includes(doc, S) == \A q \in Queries : doc[q] # Missing => S \subseteq doc[q]

\* A request that has not come yet has left no trace; a generation is awaited by
\* the request that started it.
Traces ==
    \A r \in Requests :
        /\ requestPhase[r] = "new" =>
              r \notin running /\ \A q \in Queries : hasRead[r][q] = Missing
        /\ requestPhase[r] = "waits" => promise[r] \in running
        /\ seenWrites[r] \subseteq Answered

\* The generations that may still be cached are the one in flight.
Generations ==
    /\ \A r \in running : started[r] <= cacheGeneration
    /\ \A r \in running : started[r] = cacheGeneration => r = inFlightPromise
    /\ inFlightPromise # Missing => started[inFlightPromise] = cacheGeneration

\* What is cached, or may be cached, includes every write that was answered.
CacheIsCurrent ==
    /\ cachedXml # Missing => Shows(cachedXml, Answered)
    /\ \A r \in running : started[r] = cacheGeneration => Includes(hasRead[r], Answered)

\* What a request waits for includes the writes answered when it came.
WaitersAreCurrent ==
    \A r \in Requests :
        requestPhase[r] = "waits" => Includes(hasRead[promise[r]], seenWrites[r])

ServedAreCurrent ==
    \A r \in Requests : requestPhase[r] = "served" => Shows(document[r], seenWrites[r])

IInv ==
    /\ SitemapTypeOK /\ Traces /\ Generations /\ SingleFlight
    /\ CacheIsCurrent /\ WaitersAreCurrent /\ ServedAreCurrent

\* Answering a write adds it to the answered ones; nothing else changes them.
LEMMA AnsweredGrows ==
    ASSUME SitemapTypeOK, NEW w \in Writes, write[w] = "committed",
           write' = [write EXCEPT ![w] = "answered"]
    PROVE  Answered \subseteq Answered'
BY DEF SitemapTypeOK, Answered

LEMMA AnsweredSame ==
    ASSUME SitemapTypeOK, NEW w \in Writes, NEW x \in {"committed", "lost"},
           write[w] \in {"new", "committed"}, write' = [write EXCEPT ![w] = x]
    PROVE  Answered' = Answered
BY DEF SitemapTypeOK, Answered

LEMMA AnsweredCommitted == Answered \subseteq Committed
BY DEF Answered, Committed

USE DEF Shows, Includes

\* The invariant holds at the start and every step preserves it.
THEOREM IInvInit == SitemapInit => IInv
<1> SUFFICES ASSUME SitemapInit PROVE IInv
    OBVIOUS
<1> USE DEF SitemapInit
<1>1. SitemapTypeOK
    BY DEF SitemapTypeOK, Documents
<1>2. Traces /\ Generations /\ SingleFlight
    BY DEF Traces, Generations, SingleFlight, Answered
<1>3. CacheIsCurrent /\ WaitersAreCurrent /\ ServedAreCurrent
    BY DEF CacheIsCurrent, WaitersAreCurrent, ServedAreCurrent
<1>4. QED
    BY <1>1, <1>2, <1>3 DEF IInv

\* A request that arrives: it is served from the cache, joins the promise in
\* flight, or starts a generation.
LEMMA HitStep == ASSUME IInv, NEW r \in Requests, Hit(r) PROVE IInv'
<1> USE DEF Hit, Arrives, sitemapWrites, sitemapGenerators, sitemapService
<1>1. Answered' = Answered /\ Answered \subseteq Writes
    BY DEF Answered
<1>2. SitemapTypeOK'
    BY <1>1 DEF IInv, SitemapTypeOK
<1>3. (Traces /\ Generations /\ SingleFlight)'
    BY <1>1 DEF IInv, SitemapTypeOK, Traces, Generations, SingleFlight
<1>4. (CacheIsCurrent /\ WaitersAreCurrent)'
    BY <1>1 DEF IInv, SitemapTypeOK, CacheIsCurrent, WaitersAreCurrent
<1>5. ServedAreCurrent'
    BY <1>1 DEF IInv, SitemapTypeOK, CacheIsCurrent, ServedAreCurrent
<1>6. QED
    BY <1>2, <1>3, <1>4, <1>5 DEF IInv

LEMMA JoinStep == ASSUME IInv, NEW r \in Requests, Join(r) PROVE IInv'
<1> USE DEF Join, Arrives, Waits, sitemapWrites, sitemapGenerators, sitemapService
<1>1. Answered' = Answered /\ Answered \subseteq Writes
    BY DEF Answered
<1>2. inFlightPromise \in running /\ inFlightPromise \in Requests
    BY DEF IInv, SitemapTypeOK
<1>3. SitemapTypeOK'
    BY <1>1, <1>2 DEF IInv, SitemapTypeOK
<1>4. (Traces /\ Generations /\ SingleFlight)'
    BY <1>1, <1>2 DEF IInv, SitemapTypeOK, Traces, Generations, SingleFlight
<1>5. Includes(hasRead[inFlightPromise], Answered)
    BY <1>2 DEF IInv, Generations, CacheIsCurrent
<1>6. (CacheIsCurrent /\ WaitersAreCurrent /\ ServedAreCurrent)'
    BY <1>1, <1>5 DEF IInv, SitemapTypeOK, CacheIsCurrent, WaitersAreCurrent, ServedAreCurrent
<1>7. QED
    BY <1>3, <1>4, <1>6 DEF IInv

LEMMA GenerateStep == ASSUME IInv, NEW r \in Requests, Generate(r) PROVE IInv'
<1> USE DEF Generate, Arrives, Waits, InFlight, sitemapWrites
<1>1. Answered' = Answered /\ Answered \subseteq Writes
    BY DEF Answered
<1>2. r \notin running /\ \A q \in Queries : hasRead[r][q] = Missing
    BY DEF IInv, Traces
<1>3. \A s \in running : started[s] # cacheGeneration
    BY SitemapAssumption DEF IInv, SitemapTypeOK, Generations
<1>4. SitemapTypeOK'
    BY <1>1 DEF IInv, SitemapTypeOK
<1>5. Traces'
    BY <1>1, <1>2 DEF IInv, SitemapTypeOK, Traces
<1>6. (Generations /\ SingleFlight)'
    BY <1>2, <1>3 DEF IInv, SitemapTypeOK, Generations, SingleFlight
<1>7. CacheIsCurrent'
    BY <1>1, <1>2, <1>3 DEF IInv, SitemapTypeOK, CacheIsCurrent
<1>8. (WaitersAreCurrent /\ ServedAreCurrent)'
    BY <1>2 DEF IInv, SitemapTypeOK, WaitersAreCurrent, ServedAreCurrent
<1>9. QED
    BY <1>4, <1>5, <1>6, <1>7, <1>8 DEF IInv

\* A query reads what is committed, and so what is answered.
LEMMA QueryStep == ASSUME IInv, NEW r \in Requests, NEW q \in Queries, Query(r, q) PROVE IInv'
<1> USE DEF Query, sitemapWrites, sitemapRequests, sitemapService
<1>1. Answered' = Answered /\ Answered \subseteq Committed /\ Committed \subseteq Writes
    BY AnsweredCommitted DEF Answered, Committed
<1>2. SitemapTypeOK'
    BY <1>1 DEF IInv, SitemapTypeOK
<1>3. (Traces /\ Generations /\ SingleFlight)'
    BY <1>1 DEF IInv, SitemapTypeOK, Traces, Generations, SingleFlight
<1>4. (CacheIsCurrent /\ ServedAreCurrent)'
    BY <1>1 DEF IInv, SitemapTypeOK, CacheIsCurrent, ServedAreCurrent
<1>5. WaitersAreCurrent'
    BY <1>1 DEF IInv, SitemapTypeOK, Traces, WaitersAreCurrent
<1>6. QED
    BY <1>2, <1>3, <1>4, <1>5 DEF IInv

\* A generation ends: its document is served, and cached unless it is old.
LEMMA GeneratedStep == ASSUME IInv, NEW r \in Requests, Generated(r) PROVE IInv'
<1> USE DEF Generated, Landed, Lands, Caches, Awaits, sitemapWrites
<1>1. Answered' = Answered /\ Answered \subseteq Writes
    BY DEF Answered
<1>2. hasRead[r] \in Documents
    BY DEF IInv, SitemapTypeOK, Documents
<1>3. SitemapTypeOK'
    BY <1>1, <1>2 DEF IInv, SitemapTypeOK
<1>4. (Traces /\ Generations /\ SingleFlight)'
    BY <1>1 DEF IInv, SitemapTypeOK, Traces, Generations, SingleFlight
<1>5. CacheIsCurrent'
    BY <1>1 DEF IInv, SitemapTypeOK, CacheIsCurrent
<1>6. (WaitersAreCurrent /\ ServedAreCurrent)'
    BY <1>1 DEF IInv, SitemapTypeOK, WaitersAreCurrent, ServedAreCurrent
<1>7. QED
    BY <1>3, <1>4, <1>5, <1>6 DEF IInv

LEMMA FailsStep == ASSUME IInv, NEW r \in Requests, GenerationFails(r) PROVE IInv'
<1> USE DEF GenerationFails, Landed, Lands, Awaits, sitemapWrites
<1>1. Answered' = Answered /\ Answered \subseteq Writes
    BY DEF Answered
<1>2. SitemapTypeOK'
    BY <1>1 DEF IInv, SitemapTypeOK
<1>3. (Traces /\ Generations /\ SingleFlight)'
    BY <1>1 DEF IInv, SitemapTypeOK, Traces, Generations, SingleFlight
<1>4. (CacheIsCurrent /\ WaitersAreCurrent /\ ServedAreCurrent)'
    BY <1>1 DEF IInv, SitemapTypeOK, CacheIsCurrent, WaitersAreCurrent, ServedAreCurrent
<1>5. QED
    BY <1>2, <1>3, <1>4 DEF IInv

LEMMA ExpireStep == ASSUME IInv, Expire PROVE IInv'
<1> USE DEF Expire, sitemapWrites, sitemapRequests, sitemapGenerators
<1>1. Answered' = Answered
    BY DEF Answered
<1>2. (SitemapTypeOK /\ Traces /\ Generations /\ SingleFlight)'
    BY <1>1 DEF IInv, SitemapTypeOK, Traces, Generations, SingleFlight
<1>3. (CacheIsCurrent /\ WaitersAreCurrent /\ ServedAreCurrent)'
    BY <1>1 DEF IInv, SitemapTypeOK, CacheIsCurrent, WaitersAreCurrent, ServedAreCurrent
<1>4. QED
    BY <1>2, <1>3 DEF IInv

\* A write that does not invalidate the cache leaves the answered ones alone.
LEMMA SilentWriteStep == ASSUME IInv, NEW w \in Writes, Commit(w) \/ Lose(w) PROVE IInv'
<1> USE DEF sitemapRequests, sitemapGenerators, sitemapService
<1>1. Answered' = Answered
    BY AnsweredSame DEF IInv, Commit, Lose
<1>2. write' \in [Writes -> {"new", "committed", "answered", "lost"}]
    BY DEF IInv, SitemapTypeOK, Commit, Lose
<1>3. UNCHANGED <<requestPhase, promise, seenWrites, document, running, hasRead,
                   started, cachedXml, inFlightPromise, cacheGeneration>>
    BY DEF Commit, Lose
<1>4. (SitemapTypeOK /\ Traces /\ Generations /\ SingleFlight)'
    BY <1>1, <1>2, <1>3 DEF IInv, SitemapTypeOK, Traces, Generations, SingleFlight
<1>5. (CacheIsCurrent /\ WaitersAreCurrent /\ ServedAreCurrent)'
    BY <1>1, <1>3 DEF IInv, CacheIsCurrent, WaitersAreCurrent, ServedAreCurrent
<1>6. QED
    BY <1>4, <1>5 DEF IInv

\* An answered write: no generation that is running may be cached any more.
LEMMA AnswerStep == ASSUME IInv, NEW w \in Writes, WriteAnswered(w) PROVE IInv'
<1> USE DEF WriteAnswered, InvalidateCache, sitemapRequests, sitemapGenerators
<1>1. Answered \subseteq Answered'
    BY AnsweredGrows DEF IInv
<1>2. \A r \in running : started[r] # cacheGeneration'
    BY DEF IInv, SitemapTypeOK, Generations
<1>3. SitemapTypeOK'
    BY DEF IInv, SitemapTypeOK
<1>4. (Traces /\ Generations /\ SingleFlight)'
    BY <1>1, <1>2 DEF IInv, SitemapTypeOK, Traces, Generations, SingleFlight
<1>5. CacheIsCurrent'
    BY <1>2 DEF IInv, CacheIsCurrent
<1>6. (WaitersAreCurrent /\ ServedAreCurrent)'
    BY DEF IInv, WaitersAreCurrent, ServedAreCurrent
<1>7. QED
    BY <1>3, <1>4, <1>5, <1>6 DEF IInv

\* Every step preserves the invariant.
THEOREM IInvStep == IInv /\ [SitemapNext]_sitemapVars => IInv'
<1> SUFFICES ASSUME IInv, [SitemapNext]_sitemapVars PROVE IInv'
    OBVIOUS
<1>1. CASE \E r \in Requests : Hit(r) \/ Join(r) \/ Generate(r)
    BY <1>1, HitStep, JoinStep, GenerateStep
<1>2. CASE \E r \in Requests, q \in Queries : Query(r, q)
    BY <1>2, QueryStep
<1>3. CASE \E r \in Requests : Generated(r) \/ GenerationFails(r)
    BY <1>3, GeneratedStep, FailsStep
<1>4. CASE Expire
    BY <1>4, ExpireStep
<1>5. CASE \E w \in Writes : Commit(w) \/ WriteAnswered(w) \/ Lose(w)
    BY <1>5, SilentWriteStep, AnswerStep
<1>6. CASE UNCHANGED sitemapVars
    BY <1>6 DEF IInv, SitemapTypeOK, Traces, Generations, SingleFlight, CacheIsCurrent,
        WaitersAreCurrent, ServedAreCurrent, Answered, sitemapVars, sitemapWrites,
        sitemapRequests, sitemapGenerators, sitemapService
<1>7. QED
    BY <1>1, <1>2, <1>3, <1>4, <1>5, <1>6 DEF SitemapNext

\* Every reachable state of the cache satisfies the invariant.
THEOREM IInvAlways == SitemapSpec => []IInv
BY IInvInit, IInvStep, PTL DEF SitemapSpec

\* Every variable of the cache stays in its range; the promise in flight is that
\* of a generation that is running.
THEOREM TypeCorrect == SitemapSpec => []SitemapTypeOK
<1>1. IInv => SitemapTypeOK
    BY DEF IInv
<1>2. QED
    BY <1>1, IInvAlways, PTL

\* Two generations never query the database between the same two invalidations.
THEOREM SingleFlightCorrect == SitemapSpec => []SingleFlight
<1>1. IInv => SingleFlight
    BY DEF IInv
<1>2. QED
    BY <1>1, IInvAlways, PTL

\* No request is served a document that lacks a write answered before it came.
THEOREM CurrentCorrect == SitemapSpec => []AnswersAreCurrent
<1>1. IInv => AnswersAreCurrent
    BY DEF IInv, ServedAreCurrent, AnswersAreCurrent
<1>2. QED
    BY <1>1, IInvAlways, PTL
=============================================================================
