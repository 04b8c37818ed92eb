--------------------------- MODULE ServingProofs ----------------------------
(***************************************************************************)
(* Theorems about what the process keeps in memory, and about the parser   *)
(* pool: every replay reaches the import once and in order, one connection *)
(* with the bot per period, the limit of submissions, the end of the       *)
(* database pool, and the MVP of a series. They hold for any number of     *)
(* workers, replays, callers, clients, requests and matches.               *)
(***************************************************************************)
EXTENDS ReplayParser, ProcessMemory, ServerLifecycle,
        MvpAwards, FiniteSetTheorems, TLAPS

-----------------------------------------------------------------------------
(***************************************************************************)
(* ReplayParser: the workers share an index, and each replay is at one     *)
(* worker, written, skipped or still to come.                              *)
(***************************************************************************)

\* The base names of an archive differ.
NamesDiffer ==
    \A a \in Archives : \A i, j \in DOMAIN a : a[i].name = a[j].name => i = j

Working(w) == workerAt[w] \in {"process", "stat"}

ParserRanges ==
    /\ archive \in Archives
    /\ currentIndex \in 1..(Len(archive) + 1)
    /\ doing \in [Pool -> {Nothing} \cup Replays]
    /\ workerAt \in [Pool -> {"loop", "process", "stat", "returned", "threw"}]
    /\ phase \in {"parsing", "reading", "validating", "persisting", "failed"}
    /\ jsonFilePaths \subseteq Valid
    /\ skippedFiles \subseteq Replays \ Valid

\* Unless the upload fails, each replay up to the shared pointer has its output,
\* was skipped or is being parsed.
TakenAreKnown ==
    phase # "failed" =>
        \A r \in 1..(currentIndex - 1) :
            \/ r \in jsonFilePaths \cup skippedFiles
            \/ \E w \in Pool : Working(w) /\ doing[w] = r

Workers ==
    \A w \in Pool :
        /\ Working(w) => doing[w] \in Replays
        /\ workerAt[w] = "stat" => doing[w] \in Valid
        /\ workerAt[w] = "returned" => currentIndex = Len(archive) + 1
        /\ workerAt[w] = "threw" => phase = "failed"

\* Nobody overwrites the output of another replay.
Written(r) == OutputOf(r) \in DOMAIN outputs /\ outputs[OutputOf(r)] = r

OutputsAreOwn ==
    /\ removed => phase = "failed"
    /\ ~removed => /\ \A r \in jsonFilePaths : Written(r)
                   /\ \A w \in Pool : workerAt[w] = "stat" => Written(doing[w])

PoolIsDone ==
    /\ jsonFilePaths # {} => Pool # {}
    /\ phase \in {"reading", "validating", "persisting"} =>
         (\A w \in Pool : workerAt[w] = "returned") /\ jsonFilePaths = Valid

GamesOf(s) ==
    /\ Range(s) = Valid
    /\ IsInjective(s)
    /\ Consistent(Valid) =>
           \A i, j \in DOMAIN s : Before(archive[s[i]], archive[s[j]]) => i < j

ParserInv ==
    /\ ParserRanges /\ TakenAreKnown /\ Workers /\ OutputsAreOwn /\ PoolIsDone
    /\ phase \in {"validating", "persisting"} => GamesOf(games)

LEMMA ReplayNumbers ==
    ASSUME archive \in Archives
    PROVE  /\ Replays = 1..Len(archive) /\ Len(archive) \in Nat
           /\ Valid \subseteq Replays /\ Nothing \notin Replays
           /\ \A r \in Replays : archive[r].name \in Nat /\ archive[r].kind \in {"rofl", "other"}
BY ParserAssumption DEF Replays, Valid, Nothing

\* What the steps of the pool leave alone while the upload is parsing.
LEMMA StillParsing ==
    ASSUME ParserInv, NEW w \in Pool, workerAt[w] # "returned"
    PROVE  phase \in {"parsing", "failed"}
BY DEF ParserInv, PoolIsDone, ParserRanges

LEMMA TakeStep == ASSUME ParserInv, NEW w \in Pool, Take(w) PROVE ParserInv'
<1> USE DEF ParserInv
<1>1. /\ UNCHANGED <<archive, outputs, removed, jsonFilePaths, skippedFiles, phase, games>>
      /\ workerAt[w] = "loop" /\ phase \in {"parsing", "failed"}
    BY StillParsing DEF Take
<1>2. /\ archive \in Archives /\ Len(archive) \in Nat /\ Replays = 1..Len(archive)
      /\ currentIndex \in 1..(Len(archive) + 1)
      /\ doing \in [Pool -> {Nothing} \cup Replays]
      /\ workerAt \in [Pool -> {"loop", "process", "stat", "returned", "threw"}]
    BY ReplayNumbers DEF ParserRanges
<1>3. /\ Replays' = Replays /\ Valid' = Valid /\ \A r : Written(r)' = Written(r)
    BY <1>1 DEF Replays, Valid, Written, OutputOf
<1>4. CASE currentIndex <= Len(archive)
    <2>1. /\ doing' = [doing EXCEPT ![w] = currentIndex]
          /\ workerAt' = [workerAt EXCEPT ![w] = "process"] /\ currentIndex' = currentIndex + 1
        BY <1>4 DEF Take
    <2>2. /\ currentIndex \in Replays /\ currentIndex' \in 1..(Len(archive) + 1)
          /\ 1..(currentIndex' - 1) = 1..(currentIndex - 1) \cup {currentIndex}
        BY <1>2, <1>4, <2>1
    <2>3. /\ doing'[w] = currentIndex /\ workerAt'[w] = "process"
          /\ \A v \in Pool : v # w => doing'[v] = doing[v] /\ workerAt'[v] = workerAt[v]
        BY <1>2, <2>1
    <2>4. ParserRanges'
        BY <1>1, <1>2, <1>3, <2>1, <2>2 DEF ParserRanges
    <2>5. TakenAreKnown'
        <3> SUFFICES ASSUME phase # "failed", NEW r \in 1..(currentIndex' - 1),
                            r \notin jsonFilePaths \cup skippedFiles
                     PROVE  \E v \in Pool : Working(v)' /\ doing'[v] = r
            BY <1>1 DEF TakenAreKnown
        <3>1. CASE r = currentIndex
            BY <3>1, <2>3 DEF Working
        <3>2. CASE r # currentIndex
            <4>1. PICK v \in Pool : Working(v) /\ doing[v] = r
                BY <3>2, <2>2 DEF TakenAreKnown
            <4>2. v # w
                BY <4>1, <1>1 DEF Working
            <4>3. QED
                BY <4>1, <4>2, <2>3 DEF Working
        <3>3. QED
            BY <3>1, <3>2
    <2>6. Workers'
        <3> SUFFICES ASSUME NEW v \in Pool
                     PROVE  /\ Working(v)' => doing'[v] \in Replays
                            /\ workerAt'[v] = "stat" => doing'[v] \in Valid
                            /\ workerAt'[v] = "returned" => currentIndex' = Len(archive) + 1
                            /\ workerAt'[v] = "threw" => phase = "failed"
            BY <1>1, <1>3 DEF Workers
        <3>1. CASE v = w
            BY <3>1, <2>2, <2>3
        <3>2. CASE v # w
            BY <3>2, <1>2, <1>4, <2>3 DEF Workers, Working
        <3>3. QED
            BY <3>1, <3>2
    <2>7. OutputsAreOwn'
        BY <1>1, <1>3, <2>3 DEF OutputsAreOwn
    <2>8. QED
        BY <1>1, <2>4, <2>5, <2>6, <2>7 DEF PoolIsDone
<1>5. CASE currentIndex > Len(archive)
    <2>1. workerAt' = [workerAt EXCEPT ![w] = "returned"] /\ UNCHANGED <<doing, currentIndex>>
        BY <1>2, <1>5 DEF Take
    <2>2. /\ workerAt'[w] = "returned" /\ currentIndex = Len(archive) + 1
          /\ \A v \in Pool : v # w => workerAt'[v] = workerAt[v]
        BY <1>2, <1>5, <2>1
    <2>3. ParserRanges'
        BY <1>1, <1>2, <1>3, <2>1 DEF ParserRanges
    <2>4. \A v \in Pool : Working(v)' <=> Working(v)
        BY <1>1, <2>2 DEF Working
    <2>5. TakenAreKnown'
        BY <1>1, <2>1, <2>4 DEF TakenAreKnown
    <2>6. Workers'
        BY <1>1, <1>3, <2>1, <2>2, <2>4 DEF Workers
    <2>7. OutputsAreOwn'
        BY <1>1, <1>3, <2>1, <2>2 DEF OutputsAreOwn
    <2>8. QED
        BY <1>1, <2>3, <2>5, <2>6, <2>7 DEF PoolIsDone
<1>6. QED
    BY <1>2, <1>4, <1>5

LEMMA ProcessWritesStep ==
    ASSUME ParserInv, NamesDiffer, NEW w \in Pool, ProcessWrites(w)
    PROVE  ParserInv'
<1> USE DEF ParserInv
<1>1. /\ UNCHANGED <<archive, removed, currentIndex, doing, jsonFilePaths, skippedFiles, phase, games>>
      /\ workerAt[w] = "process" /\ phase \in {"parsing", "failed"} /\ ~removed
      /\ doing[w] \in Valid
      /\ outputs' = [n \in DOMAIN outputs \cup {OutputOf(doing[w])} |->
                       IF n = OutputOf(doing[w]) THEN doing[w] ELSE outputs[n]]
      /\ workerAt' = [workerAt EXCEPT ![w] = "stat"]
    BY StillParsing DEF ProcessWrites
<1>2. /\ archive \in Archives /\ Valid \subseteq Replays /\ jsonFilePaths \subseteq Valid
      /\ workerAt \in [Pool -> {"loop", "process", "stat", "returned", "threw"}]
    BY ReplayNumbers DEF ParserRanges
<1>3. Replays' = Replays /\ Valid' = Valid
    BY <1>1 DEF Replays, Valid
<1>4. /\ workerAt'[w] = "stat" /\ \A v \in Pool : v # w => workerAt'[v] = workerAt[v]
    BY <1>1, <1>2
<1>5. ParserRanges'
    BY <1>1, <1>2, <1>3 DEF ParserRanges
<1>6. \A v \in Pool : Working(v)' <=> Working(v)
    BY <1>1, <1>4 DEF Working
<1>7. TakenAreKnown'
    BY <1>1, <1>6 DEF TakenAreKnown
<1>8. Workers'
    BY <1>1, <1>3, <1>4, <1>6 DEF Workers
<1>9. \A r \in Replays : Written(r) \/ r = doing[w] => Written(r)'
    <2> SUFFICES ASSUME NEW r \in Replays, Written(r) \/ r = doing[w] PROVE Written(r)'
        OBVIOUS
    <2>1. archive[r].name = archive[doing[w]].name => r = doing[w]
        BY <1>1, <1>2 DEF NamesDiffer, Replays
    <2>2. QED
        BY <1>1, <2>1 DEF Written, OutputOf
<1>10. OutputsAreOwn'
    BY <1>1, <1>2, <1>4, <1>9 DEF OutputsAreOwn, Workers
<1>11. QED
    BY <1>1, <1>5, <1>7, <1>8, <1>10 DEF PoolIsDone

LEMMA ProcessSkipsStep == ASSUME ParserInv, NEW w \in Pool, ProcessSkips(w) PROVE ParserInv'
<1> USE DEF ParserInv
<1>1. /\ UNCHANGED <<archive, outputs, removed, currentIndex, doing, jsonFilePaths, phase, games>>
      /\ workerAt[w] = "process" /\ phase \in {"parsing", "failed"}
      /\ archive[doing[w]].kind = "other" /\ skippedFiles' = skippedFiles \cup {doing[w]}
      /\ workerAt' = [workerAt EXCEPT ![w] = "loop"]
    BY StillParsing DEF ProcessSkips
<1>2. /\ workerAt \in [Pool -> {"loop", "process", "stat", "returned", "threw"}]
      /\ doing[w] \in Replays \ Valid
    BY <1>1 DEF ParserRanges, Workers, Working, Valid
<1>3. Replays' = Replays /\ Valid' = Valid /\ \A r : Written(r)' = Written(r)
    BY <1>1 DEF Replays, Valid, Written, OutputOf
<1>4. /\ workerAt'[w] = "loop" /\ \A v \in Pool : v # w => workerAt'[v] = workerAt[v]
    BY <1>1, <1>2
<1>5. ParserRanges'
    BY <1>1, <1>2, <1>3 DEF ParserRanges
<1>6. TakenAreKnown'
    <2> SUFFICES ASSUME phase # "failed", NEW r \in 1..(currentIndex - 1),
                        r \notin jsonFilePaths \cup skippedFiles'
                 PROVE  \E v \in Pool : Working(v)' /\ doing[v] = r
        BY <1>1 DEF TakenAreKnown
    <2>1. PICK v \in Pool : Working(v) /\ doing[v] = r
        BY <1>1 DEF TakenAreKnown
    <2>2. v # w
        BY <2>1, <1>1
    <2>3. QED
        BY <2>1, <2>2, <1>4 DEF Working
<1>7. Workers'
    BY <1>1, <1>3, <1>4 DEF Workers, Working
<1>8. OutputsAreOwn'
    BY <1>1, <1>3, <1>4 DEF OutputsAreOwn
<1>9. QED
    BY <1>1, <1>5, <1>6, <1>7, <1>8 DEF PoolIsDone

LEMMA ProcessFailsStep == ASSUME ParserInv, NEW w \in Pool, ProcessFails(w) PROVE ParserInv'
<1> USE DEF ParserInv
<1>1. /\ UNCHANGED <<archive, outputs, removed, currentIndex, doing, jsonFilePaths, skippedFiles, games>>
      /\ workerAt' = [workerAt EXCEPT ![w] = "threw"] /\ phase' = "failed"
    BY DEF ProcessFails
<1>2. workerAt \in [Pool -> {"loop", "process", "stat", "returned", "threw"}]
    BY DEF ParserRanges
<1>3. Replays' = Replays /\ Valid' = Valid /\ \A r : Written(r)' = Written(r)
    BY <1>1 DEF Replays, Valid, Written, OutputOf
<1>4. workerAt'[w] = "threw" /\ \A v \in Pool : v # w => workerAt'[v] = workerAt[v]
    BY <1>1, <1>2
<1>5. ParserRanges'
    BY <1>1, <1>2, <1>3 DEF ParserRanges
<1>6. TakenAreKnown'
    BY <1>1 DEF TakenAreKnown
<1>7. Workers'
    BY <1>1, <1>3, <1>4 DEF Workers, Working
<1>8. OutputsAreOwn'
    BY <1>1, <1>3, <1>4 DEF OutputsAreOwn
<1>9. QED
    BY <1>1, <1>5, <1>6, <1>7, <1>8 DEF PoolIsDone

LEMMA StatStep == ASSUME ParserInv, NEW w \in Pool, Stat(w) PROVE ParserInv'
<1> USE DEF ParserInv
<1>1. /\ UNCHANGED <<archive, removed, currentIndex, doing, outputs, skippedFiles, phase, games>>
      /\ workerAt[w] = "stat" /\ phase \in {"parsing", "failed"}
    BY StillParsing DEF Stat
<1>2. /\ workerAt \in [Pool -> {"loop", "process", "stat", "returned", "threw"}]
      /\ doing[w] \in Valid /\ jsonFilePaths \subseteq Valid
    BY <1>1 DEF ParserRanges, Workers
<1>3. Replays' = Replays /\ Valid' = Valid /\ \A r : Written(r)' = Written(r)
    BY <1>1 DEF Replays, Valid, Written, OutputOf
<1>4. CASE OutputOf(doing[w]) \in DOMAIN outputs
    <2>1. /\ jsonFilePaths' = jsonFilePaths \cup {doing[w]}
          /\ workerAt' = [workerAt EXCEPT ![w] = "loop"]
        BY <1>4 DEF Stat
    <2>2. /\ workerAt'[w] = "loop" /\ \A v \in Pool : v # w => workerAt'[v] = workerAt[v]
        BY <2>1, <1>2
    <2>3. ParserRanges'
        BY <1>1, <1>2, <1>3, <2>1 DEF ParserRanges
    <2>4. TakenAreKnown'
        <3> SUFFICES ASSUME phase # "failed", NEW r \in 1..(currentIndex - 1),
                            r \notin jsonFilePaths' \cup skippedFiles
                     PROVE  \E v \in Pool : Working(v)' /\ doing[v] = r
            BY <1>1 DEF TakenAreKnown
        <3>1. PICK v \in Pool : Working(v) /\ doing[v] = r
            BY <2>1 DEF TakenAreKnown
        <3>2. v # w
            BY <3>1, <2>1
        <3>3. QED
            BY <3>1, <3>2, <2>2 DEF Working
    <2>5. Workers'
        BY <1>1, <1>3, <2>2 DEF Workers, Working
    <2>6. OutputsAreOwn'
        BY <1>1, <1>3, <2>1, <2>2 DEF OutputsAreOwn
    <2>7. PoolIsDone'
        BY <1>1, <2>1 DEF PoolIsDone
    <2>8. QED
        BY <1>1, <2>3, <2>4, <2>5, <2>6, <2>7
<1>5. CASE OutputOf(doing[w]) \notin DOMAIN outputs
    <2>1. workerAt' = [workerAt EXCEPT ![w] = "threw"] /\ jsonFilePaths' = jsonFilePaths
        BY <1>5 DEF Stat
    <2>2. phase = "failed"
        BY <1>1, <1>5 DEF OutputsAreOwn, Written
    <2>3. /\ workerAt'[w] = "threw" /\ \A v \in Pool : v # w => workerAt'[v] = workerAt[v]
        BY <2>1, <1>2
    <2>4. ParserRanges'
        BY <1>1, <1>2, <1>3, <2>1 DEF ParserRanges
    <2>5. TakenAreKnown'
        BY <1>1, <2>2 DEF TakenAreKnown
    <2>6. Workers'
        BY <1>1, <1>3, <2>2, <2>3 DEF Workers, Working
    <2>7. OutputsAreOwn'
        BY <1>1, <1>3, <2>1, <2>3 DEF OutputsAreOwn
    <2>8. QED
        BY <1>1, <2>1, <2>4, <2>5, <2>6, <2>7 DEF PoolIsDone
<1>6. QED
    BY <1>4, <1>5

LEMMA DirectoryGoesStep == ASSUME ParserInv, DirectoryGoes PROVE ParserInv'
<1> USE DEF ParserInv
<1>1. /\ UNCHANGED <<archive, currentIndex, doing, workerAt, jsonFilePaths, skippedFiles, phase, games>>
      /\ phase = "failed" /\ removed'
    BY DEF DirectoryGoes
<1>2. Replays' = Replays /\ Valid' = Valid
    BY <1>1 DEF Replays, Valid
<1>3. ParserRanges' /\ TakenAreKnown' /\ PoolIsDone'
    BY <1>1, <1>2 DEF ParserRanges, TakenAreKnown, PoolIsDone
<1>4. Workers' /\ OutputsAreOwn'
    BY <1>1, <1>2 DEF Workers, Working, OutputsAreOwn
<1>5. QED
    BY <1>1, <1>3, <1>4

LEMMA PoolReturnsStep == ASSUME ParserInv, PoolReturns PROVE ParserInv'
<1> USE DEF ParserInv
<1>1. /\ UNCHANGED <<archive, removed, currentIndex, doing, workerAt, outputs, jsonFilePaths,
                     skippedFiles, games>>
      /\ phase = "parsing" /\ \A w \in Pool : workerAt[w] = "returned"
      /\ phase' = IF CountsAgree THEN "reading" ELSE "failed"
    BY DEF PoolReturns
<1>2. Replays' = Replays /\ Valid' = Valid /\ \A r : Written(r)' = Written(r)
    BY <1>1 DEF Replays, Valid, Written, OutputOf
<1>3. ParserRanges' /\ TakenAreKnown'
    BY <1>1, <1>2 DEF ParserRanges, TakenAreKnown, Working
<1>4. Workers'
    BY <1>1, <1>2 DEF Workers, Working
<1>5. OutputsAreOwn'
    BY <1>1, <1>2 DEF OutputsAreOwn
<1>6. ASSUME jsonFilePaths # {}
      PROVE  jsonFilePaths = Valid
    <2>1. PICK w \in Pool : workerAt[w] = "returned"
        BY <1>1, <1>6 DEF PoolIsDone
    <2>2. currentIndex = Len(archive) + 1 /\ Len(archive) \in Nat /\ Replays = 1..Len(archive)
        BY <2>1, ReplayNumbers DEF Workers, ParserRanges
    <2>3. \A v \in Pool : ~Working(v)
        BY <1>1 DEF Working
    <2>4. \A r \in Replays : r \in jsonFilePaths \cup skippedFiles
        BY <1>1, <2>2, <2>3 DEF TakenAreKnown
    <2>5. QED
        BY <2>4 DEF ParserRanges, Valid
<1>7. PoolIsDone'
    BY <1>1, <1>2, <1>6 DEF PoolIsDone, CountsAgree
<1>8. QED
    BY <1>1, <1>3, <1>4, <1>5, <1>7

\* A sequence of as many different elements of a finite set as it has members
\* has them all.
LEMMA AllOfThem ==
    ASSUME NEW S, IsFiniteSet(S), NEW f \in SetToSeqs(S)
    PROVE  /\ DOMAIN f = 1..Cardinality(S) /\ f \in [1..Cardinality(S) -> S]
           /\ IsInjective(f) /\ Range(f) = S
<1> DEFINE D == 1..Cardinality(S)
<1>1. f \in [D -> S] /\ \A i, j \in D : i # j => f[i] # f[j]
    BY DEF SetToSeqs
<1>2. Cardinality(S) \in Nat
    BY FS_CardinalityType
<1>3. Cardinality(D) = Cardinality(S)
    BY <1>2, FS_Interval
<1>4. f \in Injection(D, S) /\ IsInjective(f)
    BY <1>1 DEF Injection, IsInjective
<1>5. f \in Surjection(D, S)
    BY <1>3, <1>4, FS_Injection
<1>6. Range(f) = S
    BY <1>1, <1>5 DEF Surjection, Range
<1>7. QED
    BY <1>1, <1>4, <1>6

LEMMA ReadOutputsStep == ASSUME ParserInv, ReadOutputs PROVE ParserInv'
<1> USE DEF ParserInv
<1> DEFINE read == [r \in jsonFilePaths |-> outputs[OutputOf(r)]]
<1>1. /\ UNCHANGED <<archive, currentIndex, doing, workerAt, outputs, removed, jsonFilePaths, skippedFiles>>
      /\ phase = "reading" /\ phase' = "validating"
    BY DEF ReadOutputs
<1>2. /\ archive \in Archives /\ Replays = 1..Len(archive) /\ Len(archive) \in Nat
      /\ Valid \subseteq Replays /\ jsonFilePaths = Valid /\ ~removed
      /\ \A r \in Replays : archive[r].name \in Nat
    BY <1>1, ReplayNumbers DEF PoolIsDone, ParserRanges, OutputsAreOwn
<1>3. \A r \in Valid : read[r] = r
    BY <1>2 DEF OutputsAreOwn, Written
<1>4. IsFiniteSet(Valid) /\ Cardinality(Valid) \in Nat
    <2>1. IsFiniteSet(1..Len(archive))
        BY <1>2, FS_Interval
    <2>2. IsFiniteSet(Valid)
        BY <1>2, <2>1, FS_Subset
    <2>3. QED
        BY <2>2, FS_CardinalityType
<1>5. PICK order \in SetToSeqs(Valid) :
          /\ Sorted([i \in DOMAIN order |-> read[order[i]]], Range(read))
          /\ games' = [i \in DOMAIN order |-> read[order[i]]]
    BY <1>2 DEF ReadOutputs
<1>6. /\ order \in [1..Cardinality(Valid) -> Valid] /\ DOMAIN order = 1..Cardinality(Valid)
      /\ IsInjective(order) /\ Range(order) = Valid
    BY <1>4, AllOfThem
<1>7. games' = order
    BY <1>3, <1>5, <1>6
<1>8. Range(read) = Valid
    BY <1>2, <1>3 DEF Range
<1>9. Sorted(order, Valid)
    BY <1>5, <1>7, <1>8
<1> HIDE DEF read
<1>10. ASSUME Consistent(Valid), NEW i \in DOMAIN order, NEW j \in DOMAIN order,
              Before(archive[order[i]], archive[order[j]])
       PROVE  i < j
    <2>1. order[i] \in Replays /\ order[j] \in Replays /\ i \in Int /\ j \in Int
        <3>1. i \in 1..Cardinality(Valid) /\ j \in 1..Cardinality(Valid)
            BY <1>6
        <3>2. order[i] \in Valid /\ order[j] \in Valid
            BY <1>6, <3>1
        <3>3. i \in Int /\ j \in Int
            BY <1>4, <3>1
        <3>4. QED
            BY <1>2, <3>2, <3>3
    <2>2. CASE i = j
        BY <2>1, <2>2, <1>2, <1>10 DEF Before
    <2>3. CASE j < i
        BY <2>3, <1>9, <1>10 DEF Sorted
    <2>4. QED
        BY <2>1, <2>2, <2>3
<1>11. Replays' = Replays /\ Valid' = Valid /\ Consistent(Valid)' = Consistent(Valid)
    BY <1>1 DEF Replays, Valid, Consistent
<1>12. GamesOf(games)'
    BY <1>1, <1>6, <1>7, <1>10, <1>11 DEF GamesOf
<1>13. ParserRanges' /\ TakenAreKnown' /\ Workers'
    BY <1>1, <1>11 DEF ParserRanges, TakenAreKnown, Workers, Working
<1>14. OutputsAreOwn' /\ PoolIsDone'
    BY <1>1, <1>2, <1>11 DEF OutputsAreOwn, PoolIsDone, Written, OutputOf
<1>15. QED
    BY <1>12, <1>13, <1>14

LEMMA ValidateCastStep == ASSUME ParserInv, ValidateCast PROVE ParserInv'
<1> USE DEF ParserInv
<1>1. /\ UNCHANGED <<archive, removed, currentIndex, doing, workerAt, outputs, jsonFilePaths,
                     skippedFiles, games>>
      /\ phase = "validating" /\ phase' \in {"persisting", "failed"}
    BY DEF ValidateCast
<1>2. Replays' = Replays /\ Valid' = Valid /\ Consistent(Valid)' = Consistent(Valid)
      /\ \A r : Written(r)' = Written(r)
    BY <1>1 DEF Replays, Valid, Written, OutputOf, Consistent
<1>3. ParserRanges' /\ TakenAreKnown'
    BY <1>1, <1>2 DEF ParserRanges, TakenAreKnown, Working
<1>4. Workers' /\ OutputsAreOwn' /\ PoolIsDone'
    BY <1>1, <1>2 DEF Workers, Working, OutputsAreOwn, PoolIsDone
<1>5. GamesOf(games)'
    BY <1>1, <1>2 DEF GamesOf
<1>6. QED
    BY <1>3, <1>4, <1>5

LEMMA ParserInvStep == ASSUME ParserInv, NamesDiffer, [ParserNext]_parserVars PROVE ParserInv'
<1>1. CASE UNCHANGED parserVars
    <2>1. UNCHANGED <<archive, removed, currentIndex, doing, workerAt, outputs, jsonFilePaths,
                      skippedFiles, games, phase>>
        BY <1>1 DEF parserVars
    <2>2. Replays' = Replays /\ Valid' = Valid /\ Consistent(Valid)' = Consistent(Valid)
          /\ \A r : Written(r)' = Written(r)
        BY <2>1 DEF Replays, Valid, Written, OutputOf, Consistent
    <2>3. ParserRanges' /\ TakenAreKnown'
        BY <2>1, <2>2 DEF ParserInv, ParserRanges, TakenAreKnown, Working
    <2>4. Workers' /\ OutputsAreOwn' /\ PoolIsDone'
        BY <2>1, <2>2 DEF ParserInv, Workers, Working, OutputsAreOwn, PoolIsDone
    <2>5. QED
        BY <2>1, <2>2, <2>3, <2>4 DEF ParserInv, GamesOf
<1>2. QED
    BY <1>1, TakeStep, ProcessWritesStep, ProcessSkipsStep, ProcessFailsStep, StatStep,
       DirectoryGoesStep, PoolReturnsStep, ReadOutputsStep, ValidateCastStep DEF ParserNext

LEMMA ParserInvInit == ParserInit => ParserInv
<1> SUFFICES ASSUME ParserInit PROVE ParserInv
    OBVIOUS
<1>1. archive \in Archives /\ Len(archive) \in Nat /\ 1..(1 - 1) = {}
    BY ReplayNumbers DEF ParserInit
<1>2. ParserRanges
    BY <1>1 DEF ParserInit, ParserRanges
<1>3. TakenAreKnown
    BY <1>1 DEF ParserInit, TakenAreKnown
<1>4. Workers /\ OutputsAreOwn /\ PoolIsDone
    BY DEF ParserInit, Workers, Working, OutputsAreOwn, PoolIsDone
<1>5. QED
    BY <1>2, <1>3, <1>4 DEF ParserInit, ParserInv

\* The pool parses each replay once, and the outputs of different replays are
\* different files, when their base names differ.
THEOREM ParserInvCorrect == ASSUME NamesDiffer PROVE ParserSpec => []ParserInv
BY ParserInvInit, ParserInvStep, PTL DEF ParserSpec

\* The import gets every replay of the archive once and in the order they were
\* played, for any number of workers and replays whose base names differ.
THEOREM ReplaysCorrect == ASSUME NamesDiffer PROVE ParserSpec => []ImportGetsEveryReplay
<1>1. ParserInv => ImportGetsEveryReplay
    BY DEF ParserInv, GamesOf, ImportGetsEveryReplay
<1>2. QED
    BY <1>1, ParserInvCorrect, PTL

-----------------------------------------------------------------------------
(***************************************************************************)
(* ProcessMemory: the answer of the bot is remembered for a period, and a  *)
(* probe under way is shared.                                              *)
(***************************************************************************)

\* The remembered answer covers a period after the last connection, and one
\* that says connected ends within a period of the last accepted login.
ProbeInv ==
  /\ tick \in Nat /\ opened \in 0..tick + 1 /\ accepted \in 0..tick + 1
  /\ healthCache \in [answer: Answers \cup {NotAnswered}, until: Nat]
  /\ asked \in [Callers -> Answers \cup {NotAnswered, Quiescent}]
  /\ ~ProbeRunning /\ opened # 0 /\ CacheFor > 0 =>
       healthCache.answer # NotAnswered /\ opened + CacheFor <= healthCache.until + 1
  /\ healthCache.answer = "connected" =>
       accepted # 0 /\ healthCache.until + 1 <= accepted + CacheFor

ProbeStep ==
  /\ opened' # opened => ~ProbeRunning /\ (opened # 0 => tick + 1 >= opened + CacheFor)
  /\ \A c \in Callers :
       asked'[c] = "connected" /\ asked[c] # "connected" =>
         accepted' # 0 /\ tick + 1 <= accepted' + CacheFor

\* A probe that ends with another answer than connected.
LEMMA Concluding ==
  ASSUME ProbeInv, NEW answer \in Answers \ {"connected"}, NEW callers,
         Concludes(answer, callers), UNCHANGED <<tick, opened, accepted>>
  PROVE  ProbeInv' /\ ProbeStep
<1>1. tick \in Nat /\ CacheFor \in Nat /\ opened \in 0..tick + 1 /\ accepted \in 0..tick + 1
  BY ProbeAssumption DEF ProbeInv
<1>2. asked' \in [Callers -> Answers \cup {NotAnswered, Quiescent}]
      /\ \A c \in Callers : asked'[c] = "connected" => asked[c] = "connected"
  BY DEF ProbeInv, Concludes, Answers
<1>3. CASE CacheFor > 0
  <2>1. healthCache' = [answer |-> answer, until |-> tick + CacheFor]
    BY <1>3 DEF Concludes, Remembered
  <2>2. QED
    BY <1>1, <1>2, <1>3, <2>1 DEF ProbeInv, ProbeStep, ProbeRunning, Answers, NotAnswered
<1>4. CASE ~(CacheFor > 0)
  <2>1. healthCache' = healthCache
    BY <1>4 DEF Concludes, Remembered
  <2>2. QED
    BY <1>1, <1>2, <1>4, <2>1 DEF ProbeInv, ProbeStep, ProbeRunning
<1>5. QED
  BY <1>3, <1>4

LEMMA StepOfCaller ==
  ASSUME ProbeInv, NEW c \in Callers, CheckCached(c) \/ CheckJoins(c) \/ CallerReads(c)
  PROVE  ProbeInv' /\ ProbeStep
<1>1. /\ tick \in Nat /\ CacheFor \in Nat /\ accepted \in Nat
      /\ healthCache.answer \in Answers \cup {NotAnswered} /\ healthCache.until \in Nat
      /\ asked \in [Callers -> Answers \cup {NotAnswered, Quiescent}]
  BY ProbeAssumption DEF ProbeInv
<1>2. UNCHANGED <<tick, healthCache, healthInFlight, opened, accepted>>
  BY DEF CheckCached, CheckJoins, CallerReads
<1>3. PICK answer \in Answers \cup {NotAnswered, Quiescent} :
        /\ asked' = [asked EXCEPT ![c] = answer]
        /\ answer = "connected" => CacheIsFresh /\ healthCache.answer = "connected"
  BY <1>1 DEF CheckCached, CheckJoins, CallerReads, CacheIsFresh, NotAnswered, Quiescent
<1>4. ProbeInv'
  BY <1>1, <1>2, <1>3 DEF ProbeInv, ProbeRunning
<1>5. ProbeStep
  BY <1>1, <1>2, <1>3 DEF ProbeInv, ProbeStep, CacheIsFresh
<1>6. QED
  BY <1>4, <1>5

LEMMA StepOfProbing ==
  ASSUME ProbeInv, NEW c \in Callers, NEW creates \in BOOLEAN, CheckProbes(c, creates)
  PROVE  ProbeInv' /\ ProbeStep
<1>1. CASE ~(HasUrl /\ creates)
  BY <1>1, Concluding DEF CheckProbes, Answers
<1>2. CASE HasUrl /\ creates
  <2>1. /\ tick \in Nat /\ CacheFor \in Nat /\ opened \in 0..tick + 1 /\ accepted \in 0..tick + 1
        /\ healthCache.until \in Nat
        /\ asked \in [Callers -> Answers \cup {NotAnswered, Quiescent}]
    BY ProbeAssumption DEF ProbeInv
  <2>2. /\ ~ProbeRunning /\ ~CacheIsFresh /\ healthInFlight' = "connecting" /\ opened' = tick + 1
        /\ asked' = [asked EXCEPT ![c] = NotAnswered]
        /\ UNCHANGED <<tick, healthCache, accepted>>
    BY <1>2 DEF CheckProbes
  <2>3. opened # 0 => tick + 1 >= opened + CacheFor
    <3>1. CASE CacheFor = 0
      BY <2>1, <3>1
    <3>2. CASE CacheFor > 0
      BY <2>1, <2>2, <3>2 DEF ProbeInv, CacheIsFresh
    <3>3. QED
      BY <2>1, <3>1, <3>2
  <2>4. ProbeInv'
    BY <2>1, <2>2 DEF ProbeInv, ProbeRunning
  <2>5. ProbeStep
    BY <2>1, <2>2, <2>3 DEF ProbeStep, NotAnswered
  <2>6. QED
    BY <2>4, <2>5
<1>3. QED
  BY <1>1, <1>2

LEMMA StepOfProbe ==
  ASSUME ProbeInv, (\E sent \in BOOLEAN : SocketOpens(sent)) \/ ProbeFails
  PROVE  ProbeInv' /\ ProbeStep
<1>1. CASE ProbeFails
  <2>1. Failure \in Answers \ {"connected"}
    BY DEF Failure, Answers
  <2>2. QED
    BY <1>1, <2>1, Concluding DEF ProbeFails
<1>2. CASE \E sent \in BOOLEAN : SocketOpens(sent)
  <2>1. PICK sent \in BOOLEAN : SocketOpens(sent)
    BY <1>2
  <2>2. CASE sent
    <3>1. /\ UNCHANGED <<tick, healthCache, asked, opened, accepted>>
          /\ ProbeRunning /\ ProbeRunning'
      BY <2>1, <2>2 DEF SocketOpens, ProbeRunning
    <3>2. ProbeInv'
      BY <3>1 DEF ProbeInv
    <3>3. ProbeStep
      BY <3>1 DEF ProbeStep
    <3>4. QED
      BY <3>2, <3>3
  <2>3. CASE ~sent
    BY <2>1, <2>3, Concluding DEF SocketOpens, Answers
  <2>4. QED
    BY <2>2, <2>3
<1>3. QED
  BY <1>1, <1>2

LEMMA StepOfLogin == ASSUME ProbeInv, LoginAccepted PROVE ProbeInv' /\ ProbeStep
<1>1. /\ tick \in Nat /\ CacheFor \in Nat /\ opened \in 0..tick + 1 /\ accepted \in 0..tick + 1
      /\ healthCache.until \in Nat
  BY ProbeAssumption DEF ProbeInv
<1>2. /\ UNCHANGED <<tick, opened>> /\ accepted' = tick + 1
      /\ asked' \in [Callers -> Answers \cup {NotAnswered, Quiescent}]
  BY DEF LoginAccepted, Concludes, ProbeInv, Answers
<1>3. ProbeStep
  BY <1>1, <1>2 DEF ProbeStep
<1>4. CASE CacheFor > 0
  <2>1. healthCache' = [answer |-> "connected", until |-> tick + CacheFor]
    BY <1>4 DEF LoginAccepted, Concludes, Remembered
  <2>2. QED
    BY <1>1, <1>2, <1>3, <1>4, <2>1 DEF ProbeInv, ProbeRunning, Answers, NotAnswered
<1>5. CASE ~(CacheFor > 0)
  <2>1. healthCache' = healthCache
    BY <1>5 DEF LoginAccepted, Concludes, Remembered
  <2>2. QED
    BY <1>1, <1>2, <1>3, <1>5, <2>1 DEF ProbeInv, ProbeRunning
<1>6. QED
  BY <1>4, <1>5

LEMMA StepOfClock == ASSUME ProbeInv, ProbeTick \/ UNCHANGED probeVars PROVE ProbeInv' /\ ProbeStep
<1>1. tick \in Nat /\ tick' \in {tick, tick + 1}
      /\ UNCHANGED <<healthCache, healthInFlight, asked, opened, accepted>>
  BY DEF ProbeTick, probeVars, ProbeInv
<1>2. tick' \in Nat /\ opened \in 0..tick' + 1 /\ accepted \in 0..tick' + 1
  <2>1. opened \in 0..tick + 1 /\ accepted \in 0..tick + 1
    BY DEF ProbeInv
  <2>2. CASE tick' = tick
    BY <1>1, <2>1, <2>2
  <2>3. CASE tick' = tick + 1
    <3>1. opened \in 0..tick + 1 + 1 /\ accepted \in 0..tick + 1 + 1 /\ tick + 1 \in Nat
      BY <1>1, <2>1
    <3>2. QED
      BY <2>3, <3>1
  <2>4. QED
    BY <1>1, <2>2, <2>3
<1>3. ProbeInv'
  BY <1>1, <1>2 DEF ProbeInv, ProbeRunning
<1>4. ProbeStep
  BY <1>1 DEF ProbeStep
<1>5. QED
  BY <1>3, <1>4

LEMMA ProbeInvStep == ASSUME ProbeInv, [ProbeNext]_probeVars PROVE ProbeInv' /\ ProbeStep
BY StepOfCaller, StepOfProbing, StepOfProbe, StepOfLogin, StepOfClock DEF ProbeNext

\* At most one connection with the bot per cache period, for any number of
\* callers and any period.
THEOREM ConnectionsCorrect == ProbeSpec => OneConnectionPerPeriod
<1>1. ProbeInit => ProbeInv
  BY DEF ProbeInit, ProbeInv, Answers, NotAnswered, Quiescent
<1>2. ASSUME ProbeInv, [ProbeNext]_probeVars PROVE [ProbeStep]_probeVars
  BY <1>2, ProbeInvStep
<1>3. QED
  BY <1>1, <1>2, ProbeInvStep, PTL DEF ProbeSpec, OneConnectionPerPeriod, ProbeStep

-----------------------------------------------------------------------------
(***************************************************************************)
(* ProcessMemory: a window of the limiter accepts its limit, the windows   *)
(* of a client do not overlap, and one that is not over is in the table.   *)
(***************************************************************************)

TableRanges ==
  /\ instant \in Nat
  /\ windows \in [DOMAIN windows -> [count: Nat, resetAt: Nat]]
  /\ DOMAIN windows \subseteq Clients
  /\ IsFiniteSet(DOMAIN windows) /\ Cardinality(DOMAIN windows) <= MaxClients
  /\ \A k \in DOMAIN windows :
       /\ windows[k].count \in 1..Limit[k]
       /\ windows[k].resetAt \in WindowMs..instant + WindowMs
  /\ granted \subseteq [client: Clients, opened: Nat, nth: Nat, at: Nat, no: Nat]
  /\ IsFiniteSet(granted)

\* A window accepts its limit at most, the first at its opening.
GrantsAreInWindows ==
  \A g \in granted :
    /\ g.nth \in 1..Limit[g.client]
    /\ g.opened <= g.at /\ g.at < g.opened + WindowMs /\ g.at <= instant
    /\ g.nth = 1 => g.at = g.opened
    /\ \E h \in granted : h.client = g.client /\ h.opened = g.opened /\ h.nth = 1

\* The windows of a client do not overlap, whatever the table forgot.
WindowsAreApart ==
  \A g, h \in granted : g.client = h.client =>
    /\ g.opened < h.opened => g.opened + WindowMs <= h.opened
    /\ g.opened = h.opened /\ g.nth = h.nth => g = h

\* A window that is not over is in the table.
OpenWindowsAreKept ==
  \A g \in granted :
    \/ g.opened + WindowMs <= instant
    \/ /\ g.client \in DOMAIN windows
       /\ windows[g.client].resetAt = g.opened + WindowMs
       /\ g.nth <= windows[g.client].count

TableIsOfGrants ==
  \A k \in DOMAIN windows :
    \E h \in granted : h.client = k /\ h.opened + WindowMs = windows[k].resetAt /\ h.nth = 1

LimiterInv ==
  TableRanges /\ GrantsAreInWindows /\ WindowsAreApart /\ OpenWindowsAreKept /\ TableIsOfGrants

LEMMA LimiterInvInit == LimiterInit => LimiterInv
<1> SUFFICES ASSUME LimiterInit PROVE LimiterInv
  OBVIOUS
<1>1. DOMAIN windows = {} /\ granted = {} /\ instant = 0
  BY DEF LimiterInit
<1>2. IsFiniteSet({}) /\ Cardinality({}) = 0
  BY FS_EmptySet
<1>3. QED
  BY <1>1, <1>2, LimiterAssumption
     DEF LimiterInit, LimiterInv, TableRanges, GrantsAreInWindows, WindowsAreApart,
         OpenWindowsAreKept, TableIsOfGrants

\* The clients of D stay in the table, the windows of the others are over.
LEMMA TableShrinks ==
  ASSUME LimiterInv, NEW D, D \subseteq DOMAIN windows,
         \A c \in DOMAIN windows \ D : windows[c].resetAt <= instant,
         windows' = [c \in D |-> windows[c]], UNCHANGED <<instant, granted>>
  PROVE  LimiterInv'
<1> USE DEF LimiterInv
<1>1. DOMAIN windows' = D /\ \A c \in D : windows'[c] = windows[c]
  OBVIOUS
<1>2. IsFiniteSet(D) /\ Cardinality(D) <= Cardinality(DOMAIN windows)
      /\ Cardinality(D) \in Nat /\ Cardinality(DOMAIN windows) \in Nat
  BY FS_Subset, FS_CardinalityType DEF TableRanges
<1>3. TableRanges'
  <2>1. Cardinality(D) <= MaxClients
    BY <1>2, LimiterAssumption DEF TableRanges
  <2>2. windows' \in [D -> [count: Nat, resetAt: Nat]]
    BY <1>1 DEF TableRanges
  <2>3. QED
    BY <1>1, <1>2, <2>1, <2>2 DEF TableRanges
<1>4. GrantsAreInWindows' /\ WindowsAreApart'
  BY DEF GrantsAreInWindows, WindowsAreApart
<1>5. OpenWindowsAreKept'
  <2> SUFFICES ASSUME NEW g \in granted, ~(g.opened + WindowMs <= instant)
               PROVE  g.client \in D /\ windows[g.client].resetAt = g.opened + WindowMs
                      /\ g.nth <= windows[g.client].count
    BY <1>1 DEF OpenWindowsAreKept
  <2>1. QED
    BY DEF OpenWindowsAreKept
<1>6. TableIsOfGrants'
  BY <1>1 DEF TableIsOfGrants
<1>7. QED
  BY <1>3, <1>4, <1>5, <1>6

\* A submission is accepted: the nth of a window of its client.
LEMMA Granting ==
  ASSUME LimiterInv, NEW k \in Clients, NEW D, D \subseteq DOMAIN windows,
         NEW o \in Nat, NEW n \in 1..Limit[k],
         \A c \in DOMAIN windows \ D : windows[c].resetAt <= instant,
         Cardinality(D \cup {k}) <= MaxClients,
         windows' = [c \in D \cup {k} |->
                       IF c = k THEN [count |-> n, resetAt |-> o + WindowMs] ELSE windows[c]],
         granted' = granted \cup {[client |-> k, opened |-> o, nth |-> n, at |-> instant,
                                   no |-> Cardinality(granted) + 1]},
         UNCHANGED instant,
         o <= instant, instant < o + WindowMs, n = 1 => o = instant,
         \A g \in granted : g.client = k =>
            \/ g.opened + WindowMs <= o
            \/ g.opened = o /\ g.nth < n,
         n # 1 => \E h \in granted : h.client = k /\ h.opened = o /\ h.nth = 1
  PROVE  LimiterInv'
<1> USE DEF LimiterInv
<1> DEFINE new == [client |-> k, opened |-> o, nth |-> n, at |-> instant,
                   no |-> Cardinality(granted) + 1]
<1>1. /\ instant \in Nat /\ WindowMs \in Nat \ {0} /\ Limit[k] \in Nat /\ n \in Nat
      /\ granted \subseteq [client: Clients, opened: Nat, nth: Nat, at: Nat, no: Nat]
      /\ IsFiniteSet(granted)
      /\ \A c \in D : c \in Clients /\ windows[c] \in [count: Nat, resetAt: Nat]
                     /\ windows[c].count \in 1..Limit[c]
                     /\ windows[c].resetAt \in WindowMs..instant + WindowMs
  BY LimiterAssumption DEF TableRanges
<1>2. /\ DOMAIN windows' = D \cup {k}
      /\ windows'[k] = [count |-> n, resetAt |-> o + WindowMs]
      /\ \A c \in D \ {k} : windows'[c] = windows[c]
  OBVIOUS
<1>3. new.client = k /\ new.opened = o /\ new.nth = n /\ new.at = instant
      /\ new \in [client: Clients, opened: Nat, nth: Nat, at: Nat, no: Nat]
      /\ new \in granted' /\ granted \subseteq granted' /\ IsFiniteSet(granted')
  <2>1. PICK x : x = new
    OBVIOUS
  <2>2. IsFiniteSet(granted \cup {x})
    BY <1>1, FS_AddElement
  <2>3. granted' = granted \cup {x}
    BY <2>1
  <2>4. IsFiniteSet(granted')
    BY <2>2, <2>3, Zenon
  <2>5. Cardinality(granted) + 1 \in Nat
    BY <1>1, FS_CardinalityType
  <2>6. QED
    BY <1>1, <2>4, <2>5
<1>4. \A g \in granted' : g \in granted \/ g = new
  OBVIOUS
<1> HIDE DEF new
<1>5. TableRanges'
  <2>1. IsFiniteSet(D \cup {k})
    BY FS_Subset, FS_AddElement DEF TableRanges
  <2>2. windows' \in [D \cup {k} -> [count: Nat, resetAt: Nat]]
    BY <1>1, <1>2
  <2>3. \A c \in D \cup {k} : windows'[c].count \in 1..Limit[c]
                             /\ windows'[c].resetAt \in WindowMs..instant + WindowMs
    BY <1>1, <1>2
  <2>4. /\ granted' \subseteq [client: Clients, opened: Nat, nth: Nat, at: Nat, no: Nat]
        /\ IsFiniteSet(granted')
    BY <1>1, <1>3, <1>4
  <2>5. QED
    BY <1>1, <1>2, <2>1, <2>2, <2>3, <2>4 DEF TableRanges
<1>6. GrantsAreInWindows'
  <2> SUFFICES ASSUME NEW g \in granted'
               PROVE  /\ g.nth \in 1..Limit[g.client]
                      /\ g.opened <= g.at /\ g.at < g.opened + WindowMs /\ g.at <= instant
                      /\ g.nth = 1 => g.at = g.opened
                      /\ \E h \in granted' : h.client = g.client /\ h.opened = g.opened /\ h.nth = 1
    BY DEF GrantsAreInWindows
  <2>1. CASE g \in granted
    BY <2>1, <1>3 DEF GrantsAreInWindows
  <2>2. CASE g = new
    <3>1. \E h \in granted' : h.client = k /\ h.opened = o /\ h.nth = 1
      BY <1>3
    <3>2. QED
      BY <2>2, <3>1, <1>1, <1>3
  <2>3. QED
    BY <1>4, <2>1, <2>2
<1>7. WindowsAreApart'
  <2> SUFFICES ASSUME NEW g \in granted', NEW h \in granted', g.client = h.client
               PROVE  /\ g.opened < h.opened => g.opened + WindowMs <= h.opened
                      /\ g.opened = h.opened /\ g.nth = h.nth => g = h
    BY DEF WindowsAreApart
  <2>1. \A x \in granted : x.opened \in Nat /\ x.nth \in Nat
    BY <1>1
  <2>2. CASE g \in granted /\ h \in granted
    BY <2>2 DEF WindowsAreApart
  <2>3. CASE g = new /\ h = new
    BY <2>3, <1>3, <1>1
  <2>4. CASE g \in granted /\ h = new
    BY <2>4, <2>1, <1>1, <1>3
  <2>5. CASE g = new /\ h \in granted
    BY <2>5, <2>1, <1>1, <1>3
  <2>6. QED
    BY <1>4, <2>2, <2>3, <2>4, <2>5
<1>8. OpenWindowsAreKept'
  <2> SUFFICES ASSUME NEW g \in granted', ~(g.opened + WindowMs <= instant)
               PROVE  /\ g.client \in D \cup {k}
                      /\ windows'[g.client].resetAt = g.opened + WindowMs
                      /\ g.nth <= windows'[g.client].count
    BY <1>2 DEF OpenWindowsAreKept
  <2>1. CASE g = new
    BY <2>1, <1>1, <1>2, <1>3
  <2>2. CASE g \in granted /\ g.client = k
    <3>1. g.opened \in Nat /\ g.nth \in Nat
      BY <2>2, <1>1
    <3>2. g.opened = o /\ g.nth < n
      BY <2>2, <3>1, <1>1
    <3>3. QED
      BY <2>2, <3>1, <3>2, <1>1, <1>2
  <2>3. CASE g \in granted /\ g.client # k
    <3>1. /\ g.client \in DOMAIN windows /\ windows[g.client].resetAt = g.opened + WindowMs
          /\ g.nth <= windows[g.client].count
      BY <2>3 DEF OpenWindowsAreKept
    <3>2. g.client \in D
      BY <3>1
    <3>3. QED
      BY <2>3, <3>1, <3>2, <1>2
  <2>4. QED
    BY <1>4, <2>1, <2>2, <2>3
<1>9. TableIsOfGrants'
  <2> SUFFICES ASSUME NEW c \in D \cup {k}
               PROVE  \E h \in granted' : h.client = c /\ h.opened + WindowMs = windows'[c].resetAt
                                          /\ h.nth = 1
    BY <1>2 DEF TableIsOfGrants
  <2>1. CASE c = k
    <3>1. \E h \in granted' : h.client = k /\ h.opened = o /\ h.nth = 1
      BY <1>3
    <3>2. QED
      BY <2>1, <3>1, <1>2
  <2>2. CASE c # k
    BY <2>2, <1>2, <1>3 DEF TableIsOfGrants
  <2>3. QED
    BY <2>1, <2>2
<1>10. QED
  BY <1>5, <1>6, <1>7, <1>8, <1>9

\* A new window: the client is not in the table, or its window is over.
LEMMA NewWindowStep ==
  ASSUME LimiterInv, NEW k \in Clients, NEW D, D \subseteq DOMAIN windows,
         \A c \in DOMAIN windows \ D : windows[c].resetAt <= instant,
         k \in DOMAIN windows => windows[k].resetAt <= instant,
         Cardinality(D \cup {k}) <= MaxClients,
         windows' = [c \in D \cup {k} |->
                       IF c = k THEN [count |-> 1, resetAt |-> instant + WindowMs] ELSE windows[c]],
         granted' = granted \cup {[client |-> k, opened |-> instant, nth |-> 1, at |-> instant,
                                   no |-> Cardinality(granted) + 1]},
         UNCHANGED instant
  PROVE  LimiterInv'
<1>1. instant \in Nat /\ WindowMs \in Nat \ {0} /\ 1 \in 1..Limit[k]
  BY LimiterAssumption DEF LimiterInv, TableRanges
<1>2. \A g \in granted : g.client = k => g.opened + WindowMs <= instant
  BY <1>1 DEF LimiterInv, OpenWindowsAreKept
<1>3. PICK o \in Nat : o = instant
  BY <1>1
<1>4. PICK n \in 1..Limit[k] : n = 1
  BY <1>1
<1>5. windows' = [c \in D \cup {k} |->
                    IF c = k THEN [count |-> n, resetAt |-> o + WindowMs] ELSE windows[c]]
  BY <1>3, <1>4
<1>6. granted' = granted \cup {[client |-> k, opened |-> o, nth |-> n, at |-> instant,
                                no |-> Cardinality(granted) + 1]}
  BY <1>3, <1>4
<1>7. /\ o <= instant /\ instant < o + WindowMs /\ (n = 1 => o = instant)
      /\ (n # 1 => \E h \in granted : h.client = k /\ h.opened = o /\ h.nth = 1)
  BY <1>1, <1>3, <1>4
<1>8. \A g \in granted : g.client = k =>
         \/ g.opened + WindowMs <= o
         \/ g.opened = o /\ g.nth < n
  BY <1>2, <1>3
<1>9. QED
  BY <1>5, <1>6, <1>7, <1>8, Granting

LEMMA FirstStep == ASSUME LimiterInv, NEW k \in Clients, FirstSubmission(k) PROVE LimiterInv'
<1>1. /\ instant \in Nat /\ WindowMs \in Nat \ {0} /\ MaxClients \in Nat
      /\ \A c \in DOMAIN windows : windows[c].resetAt \in Nat
      /\ windows = [c \in DOMAIN windows |-> windows[c]]
      /\ IsFiniteSet(DOMAIN windows) /\ k \notin DOMAIN windows
  BY LimiterAssumption DEF LimiterInv, TableRanges, FirstSubmission, Tracked
<1> DEFINE table == IF Full(windows) THEN Pruned ELSE windows
<1>2. PICK D : D = DOMAIN table
  OBVIOUS
<1>3. /\ D \subseteq DOMAIN windows
      /\ \A c \in DOMAIN windows \ D : windows[c].resetAt <= instant
      /\ table = [c \in D |-> windows[c]]
  <2>1. CASE Full(windows)
    <3>1. D = {c \in DOMAIN windows : ~ExpiredIn(windows, c)}
          /\ table = [c \in D |-> windows[c]]
      BY <1>2, <2>1 DEF Pruned, Restrict
    <3>2. QED
      BY <3>1, <1>1 DEF ExpiredIn
  <2>2. CASE ~Full(windows)
    BY <1>1, <1>2, <2>2
  <2>3. QED
    BY <2>1, <2>2
<1>4. \/ Full(table) /\ Refuse(k, table, WindowMs)
      \/ ~Full(table) /\ Accept(k, NewWindow(table, k))
  BY DEF FirstSubmission
<1> HIDE DEF table
<1>5. CASE Full(table) /\ Refuse(k, table, WindowMs)
  BY <1>3, <1>5, TableShrinks DEF Refuse
<1>6. CASE ~Full(table) /\ Accept(k, NewWindow(table, k))
  <2>1. NewWindow(table, k) =
          [c \in D \cup {k} |-> IF c = k THEN [count |-> 1, resetAt |-> instant + WindowMs]
                                          ELSE windows[c]]
    BY <1>2, <1>3 DEF NewWindow
  <2>2. /\ windows' = NewWindow(table, k) /\ UNCHANGED instant
        /\ granted' = granted \cup {[client |-> k, opened |-> instant, nth |-> 1, at |-> instant,
                                     no |-> Cardinality(granted) + 1]}
    <3>1. NewWindow(table, k)[k].count = 1
          /\ NewWindow(table, k)[k].resetAt = instant + WindowMs
      BY <2>1
    <3>2. NewWindow(table, k)[k].resetAt - WindowMs = instant
      BY <1>1, <3>1
    <3>3. QED
      BY <1>6, <3>1, <3>2, Zenon DEF Accept
  <2>3. Cardinality(D \cup {k}) <= MaxClients
    <3>1. IsFiniteSet(D) /\ k \notin D
      BY <1>1, <1>3, FS_Subset
    <3>2. Cardinality(D \cup {k}) = Cardinality(D) + 1 /\ Cardinality(D) \in Nat
      BY <3>1, FS_AddElement, FS_CardinalityType
    <3>3. ~(Cardinality(D) >= MaxClients)
      BY <1>2, <1>6 DEF Full
    <3>4. QED
      BY <1>1, <3>2, <3>3
  <2>4. QED
    BY <1>1, <1>3, <2>1, <2>2, <2>3, NewWindowStep
<1>7. QED
  BY <1>4, <1>5, <1>6

\* A client of the table keeps its place in it.
LEMMA TableKeepsItsSize ==
  ASSUME LimiterInv, NEW k \in DOMAIN windows
  PROVE  /\ DOMAIN windows \cup {k} = DOMAIN windows
         /\ Cardinality(DOMAIN windows) <= MaxClients
         /\ windows[k].count \in Nat /\ windows[k].resetAt \in Nat
BY LimiterAssumption DEF LimiterInv, TableRanges

LEMMA NextWindowStep == ASSUME LimiterInv, NEW k \in Clients, NextWindow(k) PROVE LimiterInv'
<1>1. /\ instant \in Nat /\ WindowMs \in Nat \ {0} /\ k \in DOMAIN windows
      /\ windows[k].resetAt <= instant
  BY LimiterAssumption, TableKeepsItsSize
     DEF LimiterInv, TableRanges, NextWindow, Tracked, ExpiredIn
<1>2. PICK D : D = DOMAIN windows
  OBVIOUS
<1>3. NewWindow(windows, k) =
        [c \in D \cup {k} |-> IF c = k THEN [count |-> 1, resetAt |-> instant + WindowMs]
                                        ELSE windows[c]]
  BY <1>2 DEF NewWindow
<1>4. /\ windows' = NewWindow(windows, k) /\ UNCHANGED instant
      /\ granted' = granted \cup {[client |-> k, opened |-> instant, nth |-> 1, at |-> instant,
                                   no |-> Cardinality(granted) + 1]}
  <2>1. NewWindow(windows, k)[k].count = 1
        /\ NewWindow(windows, k)[k].resetAt = instant + WindowMs
    BY <1>3
  <2>2. NewWindow(windows, k)[k].resetAt - WindowMs = instant
    BY <1>1, <2>1
  <2>3. QED
    BY <2>1, <2>2, Zenon DEF NextWindow, Accept
<1>5. Cardinality(D \cup {k}) <= MaxClients
  BY <1>1, <1>2, TableKeepsItsSize
<1>6. QED
  BY <1>1, <1>2, <1>3, <1>4, <1>5, NewWindowStep

LEMMA AnotherStep == ASSUME LimiterInv, NEW k \in Clients, AnotherSubmission(k) PROVE LimiterInv'
<1>1. /\ instant \in Nat /\ WindowMs \in Nat \ {0} /\ Limit[k] \in Nat
      /\ k \in DOMAIN windows /\ windows[k] \in [count: Nat, resetAt: Nat]
      /\ windows = [c \in DOMAIN windows |-> windows[c]]
      /\ windows[k].count \in 1..Limit[k]
      /\ windows[k].resetAt \in WindowMs..instant + WindowMs /\ ~(instant >= windows[k].resetAt)
      /\ granted \subseteq [client: Clients, opened: Nat, nth: Nat, at: Nat, no: Nat]
  BY LimiterAssumption DEF LimiterInv, TableRanges, AnotherSubmission, Tracked, ExpiredIn
<1>2. CASE WithinLimit(k)
  <2>1. PICK o \in Nat : o + WindowMs = windows[k].resetAt
    <3>1. windows[k].resetAt - WindowMs \in Nat
          /\ windows[k].resetAt - WindowMs + WindowMs = windows[k].resetAt
      BY <1>1
    <3>2. QED
      BY <3>1
  <2>2. PICK n \in 1..Limit[k] : n = windows[k].count + 1
    BY <1>1, <1>2 DEF WithinLimit
  <2>3. PICK D : D = DOMAIN windows
    OBVIOUS
  <2>4. [windows EXCEPT ![k].count = @ + 1] =
          [c \in D \cup {k} |-> IF c = k THEN [count |-> n, resetAt |-> o + WindowMs]
                                          ELSE windows[c]]
    <3>1. [windows[k] EXCEPT !.count = @ + 1] = [count |-> n, resetAt |-> o + WindowMs]
      BY <1>1, <2>1, <2>2
    <3>2. QED
      BY <1>1, <2>3, <3>1
  <2>5. /\ windows' = [windows EXCEPT ![k].count = @ + 1] /\ UNCHANGED instant
        /\ granted' = granted \cup {[client |-> k, opened |-> o, nth |-> n, at |-> instant,
                                     no |-> Cardinality(granted) + 1]}
    <3>1. [windows EXCEPT ![k].count = @ + 1][k].count = n
          /\ [windows EXCEPT ![k].count = @ + 1][k].resetAt = o + WindowMs
      BY <2>4
    <3>2. [windows EXCEPT ![k].count = @ + 1][k].resetAt - WindowMs = o
      BY <1>1, <2>1, <3>1
    <3>3. Accept(k, [windows EXCEPT ![k].count = @ + 1])
      BY <1>2 DEF AnotherSubmission
    <3>4. QED
      BY <3>1, <3>2, <3>3, Zenon DEF Accept
  <2>6. o <= instant /\ instant < o + WindowMs /\ n # 1
    BY <1>1, <2>1, <2>2
  <2>7. PICK h \in granted : h.client = k /\ h.opened + WindowMs = windows[k].resetAt /\ h.nth = 1
    BY <1>1 DEF LimiterInv, TableIsOfGrants
  <2>8. h.opened = o
    BY <1>1, <2>1, <2>7
  <2>9. ASSUME NEW g \in granted, g.client = k
        PROVE  g.opened + WindowMs <= o \/ (g.opened = o /\ g.nth < n)
    <3>1. g.opened \in Nat /\ g.nth \in Nat
      BY <1>1
    <3>2. CASE g.opened = o
      <4>1. g.nth <= windows[k].count
        BY <3>1, <3>2, <2>6, <2>9, <1>1 DEF LimiterInv, OpenWindowsAreKept
      <4>2. QED
        BY <3>1, <3>2, <4>1, <1>1, <2>2
    <3>3. CASE g.opened < o
      BY <3>3, <2>7, <2>8, <2>9 DEF LimiterInv, WindowsAreApart
    <3>4. CASE g.opened > o
      <4>1. o + WindowMs <= g.opened
        BY <3>1, <3>4, <2>7, <2>8, <2>9 DEF LimiterInv, WindowsAreApart
      <4>2. g.opened <= instant
        <5>1. g.opened <= g.at /\ g.at <= instant /\ g.at \in Nat
          BY <1>1 DEF LimiterInv, GrantsAreInWindows
        <5>2. QED
          BY <1>1, <3>1, <5>1
      <4>3. QED
        BY <1>1, <3>1, <4>1, <4>2, <2>6
    <3>5. QED
      BY <3>1, <3>2, <3>3, <3>4
  <2>10. Cardinality(D \cup {k}) <= MaxClients
    BY <1>1, <2>3, TableKeepsItsSize
  <2>11. QED
    <3>1. windows' = [c \in D \cup {k} |-> IF c = k THEN [count |-> n, resetAt |-> o + WindowMs]
                                                    ELSE windows[c]]
      BY <2>4, <2>5
    <3>2. \E x \in granted : x.client = k /\ x.opened = o /\ x.nth = 1
      BY <2>7, <2>8
    <3>3. D \subseteq DOMAIN windows /\ \A c \in DOMAIN windows \ D : windows[c].resetAt <= instant
      BY <2>3
    <3>4. QED
      BY <2>5, <2>6, <2>9, <2>10, <3>1, <3>2, <3>3, Granting
<1>3. CASE ~WithinLimit(k)
  <2>1. PICK D : D = DOMAIN windows
    OBVIOUS
  <2>2. windows' = [c \in D |-> windows[c]] /\ UNCHANGED <<instant, granted>>
    BY <1>1, <1>3, <2>1 DEF AnotherSubmission, Refuse
  <2>3. QED
    BY <2>1, <2>2, TableShrinks
<1>4. QED
  BY <1>2, <1>3

LEMMA ClockStep ==
  ASSUME LimiterInv, InstantPasses \/ UNCHANGED limiterVars PROVE LimiterInv'
<1> USE DEF LimiterInv
<1>1. /\ UNCHANGED <<windows, granted>> /\ instant \in Nat /\ WindowMs \in Nat
      /\ instant' \in Nat /\ instant' >= instant
      /\ granted \subseteq [client: Clients, opened: Nat, nth: Nat, at: Nat, no: Nat]
  BY LimiterAssumption DEF InstantPasses, limiterVars, TableRanges
<1>2. TableRanges'
  <2>1. \A k \in DOMAIN windows : windows[k].resetAt \in WindowMs..instant' + WindowMs
    <3> SUFFICES ASSUME NEW k \in DOMAIN windows
                 PROVE  windows[k].resetAt \in WindowMs..instant' + WindowMs
      OBVIOUS
    <3>1. windows[k].resetAt \in WindowMs..instant + WindowMs
      BY DEF TableRanges
    <3>2. QED
      BY <1>1, <3>1
  <2>2. QED
    BY <1>1, <2>1 DEF TableRanges
<1>3. GrantsAreInWindows'
  <2>1. \A g \in granted : g.at <= instant'
    BY <1>1 DEF GrantsAreInWindows
  <2>2. QED
    BY <1>1, <2>1 DEF GrantsAreInWindows
<1>4. WindowsAreApart' /\ TableIsOfGrants'
  BY <1>1 DEF WindowsAreApart, TableIsOfGrants
<1>5. OpenWindowsAreKept'
  BY <1>1 DEF OpenWindowsAreKept
<1>6. QED
  BY <1>2, <1>3, <1>4, <1>5

LEMMA LimiterInvStep == ASSUME LimiterInv, [LimiterNext]_limiterVars PROVE LimiterInv'
BY FirstStep, NextWindowStep, AnotherStep, ClockStep DEF LimiterNext

\* Of a window that opened before the period, the first submission is not in it.
LEMMA WindowHolds ==
  ASSUME LimiterInv, NEW k \in Clients, NEW o \in Nat, NEW lo \in {1, 2}, NEW S,
         \A g \in S : g \in granted /\ g.client = k /\ g.opened = o /\ g.nth >= lo
  PROVE  IsFiniteSet(S) /\ Cardinality(S) <= Limit[k] - lo + 1 /\ Cardinality(S) \in Nat
<1>1. Limit[k] \in Nat \ {0}
  BY LimiterAssumption
<1> DEFINE T == lo..Limit[k]
           f == [g \in S |-> g.nth]
<1>2. IsFiniteSet(T) /\ Cardinality(T) = Limit[k] - lo + 1
  <2>1. lo \in Int /\ Limit[k] \in Int /\ (lo > Limit[k] => Limit[k] - lo + 1 = 0)
    BY <1>1
  <2>2. IsFiniteSet(lo..Limit[k])
        /\ Cardinality(lo..Limit[k]) = IF lo > Limit[k] THEN 0 ELSE Limit[k] - lo + 1
    BY <2>1, FS_Interval
  <2>3. QED
    BY <2>1, <2>2
<1>3. \A g \in S : g.nth \in T
  BY <1>1 DEF LimiterInv, GrantsAreInWindows
<1>4. \A g, h \in S : g.nth = h.nth => g = h
  BY DEF LimiterInv, WindowsAreApart
<1>5. f \in Injection(S, T)
  BY <1>3, <1>4 DEF Injection, IsInjective
<1>6. IsFiniteSet(S) /\ Cardinality(S) <= Cardinality(T)
  BY <1>2, <1>5, FS_Injection
<1>7. QED
  BY <1>2, <1>6, FS_CardinalityType

\* What a client is granted in a period of one window.
LEMMA PeriodHolds ==
  ASSUME LimiterInv, NEW k \in Clients, NEW start \in Nat, instant < start + WindowMs
  PROVE  /\ Cardinality(AcceptedSince(k, start)) <= 2 * Limit[k] - 1
         /\ (\A g \in granted : g.client = k /\ g.at < start => g.at + WindowMs <= start)
              => Cardinality(AcceptedSince(k, start)) <= Limit[k]
<1>1. /\ instant \in Nat /\ WindowMs \in Nat \ {0} /\ Limit[k] \in Nat \ {0}
      /\ granted \subseteq [client: Clients, opened: Nat, nth: Nat, at: Nat, no: Nat]
  BY LimiterAssumption DEF LimiterInv, TableRanges
<1> DEFINE R == AcceptedSince(k, start)
<1>2. \A g \in R : /\ g \in granted /\ g.client = k /\ g.at >= start
                   /\ g.opened \in Nat /\ g.at \in Nat /\ g.nth \in Nat
  BY <1>1 DEF AcceptedSince
<1>3. \A g \in R : /\ g.opened <= g.at /\ g.at <= instant /\ g.at < g.opened + WindowMs
                   /\ g.nth >= 1 /\ (g.opened < start => g.nth >= 2)
  <2> SUFFICES ASSUME NEW g \in R
               PROVE  /\ g.opened <= g.at /\ g.at <= instant /\ g.at < g.opened + WindowMs
                      /\ g.nth >= 1 /\ (g.opened < start => g.nth >= 2)
    OBVIOUS
  <2>1. /\ g.nth \in 1..Limit[g.client] /\ g.client = k
        /\ g.opened <= g.at /\ g.at < g.opened + WindowMs /\ g.at <= instant
        /\ g.nth = 1 => g.at = g.opened
    BY <1>2 DEF LimiterInv, GrantsAreInWindows
  <2>2. QED
    BY <1>1, <1>2, <2>1
<1>4. \A g, h \in R : /\ g.opened < h.opened => g.opened + WindowMs <= h.opened
  BY <1>2 DEF LimiterInv, WindowsAreApart
<1> HIDE DEF R
<1>5. PICK late : late = {g \in R : g.opened >= start}
  OBVIOUS
<1>6. PICK early : early = {g \in R : g.opened < start}
  OBVIOUS
<1>7. R = early \cup late
  BY <1>2, <1>5, <1>6
<1>8. IsFiniteSet(late) /\ Cardinality(late) <= Limit[k] /\ Cardinality(late) \in Nat
  <2>1. CASE late = {}
    BY <1>1, <2>1, FS_EmptySet
  <2>2. CASE late # {}
    <3>1. PICK g \in late : TRUE
      BY <2>2
    <3>2. \A h \in late : h.opened = g.opened
      BY <1>1, <1>2, <1>3, <1>4, <1>5, <3>1
    <3>3. \A h \in late : h \in granted /\ h.client = k /\ h.opened = g.opened /\ h.nth >= 1
      BY <1>2, <1>3, <1>5, <3>2
    <3>4. g.opened \in Nat
      BY <1>2, <1>5, <3>1
    <3>5. IsFiniteSet(late) /\ Cardinality(late) <= Limit[k] - 1 + 1 /\ Cardinality(late) \in Nat
      BY <3>3, <3>4, WindowHolds
    <3>6. QED
      BY <1>1, <3>5
  <2>3. QED
    BY <2>1, <2>2
<1>9. IsFiniteSet(early) /\ Cardinality(early) <= Limit[k] - 1 /\ Cardinality(early) \in Nat
  <2>1. CASE early = {}
    BY <1>1, <2>1, FS_EmptySet
  <2>2. CASE early # {}
    <3>1. PICK g \in early : TRUE
      BY <2>2
    <3>2. \A h \in early : h.opened = g.opened
      BY <1>1, <1>2, <1>3, <1>4, <1>6, <3>1
    <3>3. \A h \in early : h \in granted /\ h.client = k /\ h.opened = g.opened /\ h.nth >= 2
      BY <1>2, <1>3, <1>6, <3>2
    <3>4. g.opened \in Nat
      BY <1>2, <1>6, <3>1
    <3>5. IsFiniteSet(early) /\ Cardinality(early) <= Limit[k] - 2 + 1 /\ Cardinality(early) \in Nat
      BY <3>3, <3>4, WindowHolds
    <3>6. QED
      BY <1>1, <3>5
  <2>3. QED
    BY <2>1, <2>2
<1>10. Cardinality(R) <= 2 * Limit[k] - 1
  <2>1. Cardinality(early \cup late) = Cardinality(early) + Cardinality(late) - Cardinality(early \cap late)
        /\ Cardinality(early \cap late) \in Nat
    BY <1>8, <1>9, FS_Union, FS_Intersection, FS_CardinalityType
  <2>2. QED
    BY <1>1, <1>7, <1>8, <1>9, <2>1
<1>11. ASSUME \A g \in granted : g.client = k /\ g.at < start => g.at + WindowMs <= start
       PROVE  Cardinality(R) <= Limit[k]
  <2>1. ASSUME NEW g \in early
        PROVE  FALSE
    <3>1. g \in R /\ g.opened < start
      BY <1>6
    <3>2. PICK h \in granted : h.client = k /\ h.opened = g.opened /\ h.nth = 1
      BY <1>2, <3>1 DEF LimiterInv, GrantsAreInWindows
    <3>3. h.at = g.opened
      BY <3>2 DEF LimiterInv, GrantsAreInWindows
    <3>4. g.opened + WindowMs <= start
      BY <1>11, <3>1, <3>2, <3>3
    <3>5. QED
      BY <1>1, <1>2, <1>3, <3>1, <3>4
  <2>2. R = late
    BY <1>7, <2>1
  <2>3. QED
    BY <1>8, <2>2
<1>12. QED
  BY <1>10, <1>11 DEF R

\* The limit of submissions, for any limits, window, table and number of clients.
THEOREM LimitCorrect == LimiterSpec => []LimitIsKept
<1>1. ASSUME LimiterInv PROVE LimitIsKept
  <2>1. /\ instant \in Nat /\ WindowMs \in Nat \ {0}
        /\ granted \subseteq [client: Clients, opened: Nat, nth: Nat, at: Nat, no: Nat]
        /\ Cardinality(DOMAIN windows) <= MaxClients
    BY <1>1, LimiterAssumption DEF LimiterInv, TableRanges
  <2>2. PICK start \in Nat : start = IF instant < WindowMs THEN 0 ELSE instant - WindowMs + 1
    <3>1. (IF instant < WindowMs THEN 0 ELSE instant - WindowMs + 1) \in Nat
      BY <2>1
    <3>2. QED
      BY <3>1, Zenon
  <2>3. PICK before \in Nat : before = IF start < WindowMs THEN 0 ELSE start - WindowMs
    <3>1. (IF start < WindowMs THEN 0 ELSE start - WindowMs) \in Nat
      BY <2>1
    <3>2. QED
      BY <3>1, Zenon
  <2>4. instant < start + WindowMs /\ before <= start
    BY <2>1, <2>2, <2>3
  <2>5. ASSUME NEW k \in Clients
        PROVE  /\ Cardinality(AcceptedSince(k, start)) <= 2 * Limit[k] - 1
               /\ AcceptedSince(k, before) = AcceptedSince(k, start)
                    => Cardinality(AcceptedSince(k, start)) <= Limit[k]
    <3>1. Cardinality(AcceptedSince(k, start)) <= 2 * Limit[k] - 1
      BY <1>1, <2>4, PeriodHolds
    <3>2. ASSUME AcceptedSince(k, before) = AcceptedSince(k, start),
                 NEW g \in granted, g.client = k, g.at < start
          PROVE  g.at + WindowMs <= start
      <4>1. g.at \in Nat /\ g \notin AcceptedSince(k, start)
        BY <2>1, <3>2 DEF AcceptedSince
      <4>2. ~(g.at >= before)
        BY <3>2, <4>1 DEF AcceptedSince
      <4>3. QED
        BY <2>1, <2>3, <4>1, <4>2
    <3>3. QED
      BY <1>1, <2>4, <3>1, <3>2, PeriodHolds
  <2>6. QED
    BY <2>1, <2>2, <2>3, <2>5 DEF LimitIsKept
<1>2. QED
  BY <1>1, LimiterInvInit, LimiterInvStep, PTL DEF LimiterSpec

-----------------------------------------------------------------------------
(***************************************************************************)
(* ServerLifecycle: the pool is closed after the clients that wait for it.  *)
(***************************************************************************)

ClosingRanges ==
    /\ process \in {"starting", "serving", "exited", "killed"}
    /\ http \in [HttpRequests -> {"none", "waiting", "left"}]
    /\ uploading \in [UploadHandlers -> {"none", "running", "importing"}]
    /\ failure \in {"none", "clean-up", "pool"}
    /\ closed \in {"none", "gateway", "server", "clients", "pool"}
    /\ pool \in {"open", "ending", "ended"}

\* Each step of shutdown() and of the 'error' handler stops what would begin
\* again what it waits for.
ServerInv ==
    /\ ClosingRanges
    /\ closed = "none" <=> ~closing
    /\ process = "starting" => ~closing /\ failure = "none" /\ ClientsGone
    /\ closing \/ failure # "none" => ~interval
    /\ closed \in {"server", "clients", "pool"} \/ failure # "none" => ~listening
    /\ closed \in {"clients", "pool"} \/ failure # "none" => ClientsGone
    /\ closed = "pool" \/ failure = "pool" => CleanUpOver
    /\ ~PoolOpen => closed = "pool" \/ failure = "pool"
    /\ PoolOutlivesItsUsers

LEMMA StepOfProcess ==
    ASSUME ServerInv, (\E bound \in BOOLEAN : Start(bound)) \/ StartFails \/ Exit \/ Watchdog
    PROVE  ServerInv'
<1>1. ASSUME NEW bound \in BOOLEAN, Start(bound)
      PROVE  ServerInv'
    <2>1. /\ process = "starting" /\ process' = "serving"
          /\ UNCHANGED <<http, querying, uploading, closing, closed, pool, watchdog>>
          /\ failure' \in {"none", "clean-up"}
          /\ failure' # "none" => ~listening' /\ ~interval'
        BY <1>1 DEF Start, requestVars
    <2>2. ~closing /\ closed = "none" /\ failure = "none" /\ PoolOpen /\ ClientsGone /\ ClosingRanges
        BY <2>1 DEF ServerInv
    <2>3. QED
        BY <2>1, <2>2 DEF ServerInv, ClosingRanges, PoolOutlivesItsUsers,
                     ClientsGone, CleanUpOver, Alive, PoolOpen, NobodyQueries
<1>2. CASE StartFails \/ Exit \/ Watchdog
    <2>1. /\ process' \in {"exited", "killed"}
          /\ UNCHANGED <<http, querying, uploading, imageCleanup, interval, closing, listening,
                         failure, closed, pool, watchdog>>
        BY <1>2 DEF StartFails, Exit, Watchdog, requestVars, cleanVars, closeVars
    <2>2. QED
        BY <2>1 DEF ServerInv, ClosingRanges, PoolOutlivesItsUsers, ClientsGone, CleanUpOver,
                    Alive, PoolOpen, NobodyQueries
<1>3. QED
    BY <1>1, <1>2

LEMMA StepOfCleanUp == ASSUME ServerInv, CleanImages \/ CleanUpEnds PROVE ServerInv'
<1>1. /\ UNCHANGED <<process, http, querying, uploading, interval, closing, listening,
                     failure, closed, pool, watchdog>>
      /\ imageCleanup' => imageCleanup \/ interval
    BY DEF CleanImages, CleanUpEnds, requestVars, closeVars
<1>2. QED
    BY <1>1 DEF ServerInv, ClosingRanges, PoolOutlivesItsUsers, ClientsGone, CleanUpOver,
                Alive, PoolOpen, NobodyQueries

LEMMA StepOfRequest ==
    ASSUME ServerInv, NEW r \in HttpRequests,
           \/ HttpArrives(r) \/ ClientLeaves(r)
           \/ HttpQueries(r) \/ QueryEnds(r) \/ HttpEnds(r)
    PROVE  ServerInv'
<1>1. ClosingRanges'
    BY DEF ServerInv, ClosingRanges, HttpArrives, ClientLeaves, HttpQueries, QueryEnds, HttpEnds,
           closeVars
<1>2. UNCHANGED <<process, uploading, imageCleanup, interval, closing, listening,
                  failure, closed, pool, watchdog>>
    BY DEF HttpArrives, ClientLeaves, HttpQueries, QueryEnds, HttpEnds, cleanVars, closeVars
<1>3. ClientsGone => ClientsGone' \/ (process = "serving" /\ listening)
    BY DEF ServerInv, ClosingRanges, ClientsGone, HttpArrives, ClientLeaves, HttpQueries,
           QueryEnds, HttpEnds
<1>4. PoolOpen \/ querying' \subseteq querying
    BY DEF HttpArrives, ClientLeaves, HttpQueries, QueryEnds, HttpEnds
<1>5. QED
    BY <1>1, <1>2, <1>3, <1>4
       DEF ServerInv, PoolOutlivesItsUsers, CleanUpOver, Alive, PoolOpen, NobodyQueries

LEMMA StepOfUpload ==
    ASSUME ServerInv, NEW u \in UploadHandlers,
           UploadBegins(u) \/ UploadImports(u) \/ UploadEnds(u)
    PROVE  ServerInv'
<1>1. ClosingRanges'
    BY DEF ServerInv, ClosingRanges, UploadBegins, UploadImports, UploadEnds, closeVars
<1>2. UNCHANGED <<process, http, querying, imageCleanup, interval, closing, listening,
                  failure, closed, pool, watchdog>>
    BY DEF UploadBegins, UploadImports, UploadEnds, cleanVars, closeVars
<1>3. pool = "ended" => \A v \in UploadHandlers : uploading'[v] # "importing"
    BY DEF ServerInv, ClosingRanges, PoolOutlivesItsUsers, PoolOpen, NobodyQueries,
           UploadBegins, UploadImports, UploadEnds
<1>4. QED
    BY <1>1, <1>2, <1>3
       DEF ServerInv, PoolOutlivesItsUsers, ClientsGone, CleanUpOver, Alive, PoolOpen, NobodyQueries

LEMMA StepOfShutdown ==
    ASSUME ServerInv, Shutdown \/ CloseServer \/ CloseClients
    PROVE  ServerInv'
<1>1. UNCHANGED <<process, http, querying, uploading, imageCleanup, failure, pool>>
    BY DEF Shutdown, CloseServer, CloseClients, requestVars, cleanVars
<1>2. CASE Shutdown
    BY <1>1, <1>2 DEF ServerInv, ClosingRanges, Shutdown, PoolOutlivesItsUsers,
                ClientsGone, CleanUpOver, Alive, PoolOpen, NobodyQueries
<1>3. CASE CloseServer
    BY <1>1, <1>3 DEF ServerInv, ClosingRanges, CloseServer, PoolOutlivesItsUsers,
                ClientsGone, CleanUpOver, Alive, PoolOpen, NobodyQueries, cleanVars
<1>4. CASE CloseClients
    BY <1>1, <1>4 DEF ServerInv, ClosingRanges, CloseClients, PoolOutlivesItsUsers,
                ClientsGone, CleanUpOver, Alive, PoolOpen, NobodyQueries, cleanVars
<1>5. QED
    BY <1>2, <1>3, <1>4

LEMMA StepOfPool ==
    ASSUME ServerInv, EndPool \/ GiveUpListening \/ PoolEnds
    PROVE  ServerInv'
<1>1. UNCHANGED <<http, querying, uploading, imageCleanup, interval, closing, listening>>
    BY Zenon DEF EndPool, GiveUpListening, PoolEnds, requestVars, cleanVars
<1>2. CASE EndPool
    BY <1>1, <1>2 DEF ServerInv, ClosingRanges, EndPool, EndPoolOnce, PoolOutlivesItsUsers,
                ClientsGone, CleanUpOver, Alive, PoolOpen, NobodyQueries
<1>3. CASE GiveUpListening
    BY <1>1, <1>3 DEF ServerInv, ClosingRanges, GiveUpListening, EndPoolOnce, PoolOutlivesItsUsers,
                ClientsGone, CleanUpOver, Alive, PoolOpen, NobodyQueries
<1>4. CASE PoolEnds
    BY <1>1, <1>4 DEF ServerInv, ClosingRanges, PoolEnds, PoolOutlivesItsUsers,
                ClientsGone, CleanUpOver, Alive, PoolOpen, NobodyQueries
<1>5. QED
    BY <1>2, <1>3, <1>4

LEMMA ServerInvStep == ASSUME ServerInv, [ServerNext]_serverVars PROVE ServerInv'
<1>1. CASE UNCHANGED serverVars
    BY <1>1 DEF serverVars, requestVars, cleanVars, closeVars, ServerInv, ClosingRanges,
                PoolOutlivesItsUsers, ClientsGone, CleanUpOver, Alive, PoolOpen, NobodyQueries
<1>2. QED
    BY <1>1, StepOfProcess, StepOfCleanUp, StepOfRequest, StepOfUpload, StepOfShutdown, StepOfPool
       DEF ServerNext

\* For any number of requests and uploads: the database pool is closed after the
\* last client that waits for an answer is gone and the clean-up of images is
\* over, and it ends when nobody holds a connection.
THEOREM PoolCorrect == ServerSpec => []PoolOutlivesItsUsers
<1>1. ServerInit => ServerInv
    BY DEF ServerInit, ServerInv, ClosingRanges, PoolOutlivesItsUsers, ClientsGone,
           CleanUpOver, Alive, PoolOpen, NobodyQueries
<1>2. ServerInv => PoolOutlivesItsUsers
    BY DEF ServerInv
<1>3. QED
    BY <1>1, <1>2, ServerInvStep, PTL DEF ServerSpec

-----------------------------------------------------------------------------
(***************************************************************************)
(* MvpAwards: the entry of a match is written once, and its score stays even*)
(* when the player is deleted.                                             *)
(***************************************************************************)

Whole(a) == a = [player |-> a.player, score |-> a.score]

\* An entry, as it is stored or about to be, is a player with a score.
AwardsAreWhole ==
    /\ DOMAIN award = AwardedMatches /\ DOMAIN chosen = Backfills
    /\ \A m \in AwardedMatches : Whole(award[m])
    /\ \A b \in Backfills : Whole(chosen[b])

LEMMA AwardsStart == MvpInit => AwardsAreWhole
    BY DEF MvpInit, AwardsAreWhole, Whole, Unawarded

LEMMA NewAwardIsWhole == \A ms : Whole(AwardOf(ms))
    BY DEF AwardOf, Whole

LEMMA EndedIsWhole == AwardsAreWhole /\ (\E b \in Backfills : EndSeries(b)) =>
    DOMAIN chosen' = Backfills /\ \A b \in Backfills : Whole(chosen[b])'
    BY DEF AwardsAreWhole, EndSeries, Whole, Unawarded

\* What one step may do to the entries: only an empty one is filled, and a player
\* that is deleted leaves the score.
LEMMA AwardStep ==
  ASSUME AwardsAreWhole, [MvpNext]_mvpVars
  PROVE  /\ AwardsAreWhole'
         /\ \A m \in AwardedMatches : award[m] # Unawarded =>
               /\ award'[m].score = award[m].score
               /\ award'[m].player \in {award[m].player, Deleted}
<1>1. ASSUME UNCHANGED <<award, chosen>>
      PROVE  /\ AwardsAreWhole'
             /\ \A m \in AwardedMatches : award'[m] = award[m]
    BY <1>1 DEF AwardsAreWhole, Whole
<1>2. ASSUME NEW n \in AwardedMatches, NEW r \in GameReplays, ImportMap(n, r)
      PROVE  /\ AwardsAreWhole'
             /\ \A m \in AwardedMatches : award[m] # Unawarded => award'[m] = award[m]
    <2> DEFINE now == Append(maps[n], r)
               sealed == Seals(n, GamesWon(now, r.winner) >= Needed(n))
    <2>1. award' = [award EXCEPT ![n] = IF sealed THEN AwardOf(now) ELSE @] /\ chosen' = chosen
        BY <1>2 DEF ImportMap
    <2>2. sealed => award[n] = Unawarded
        BY DEF Seals
    <2>3. PICK new : new = AwardOf(now) /\ Whole(new)
        BY NewAwardIsWhole
    <2> HIDE DEF sealed, now
    <2>4. QED
        BY <2>1, <2>2, <2>3 DEF AwardsAreWhole, Whole
<1>3. ASSUME NEW p \in Leaving, DeletePlayer(p)
      PROVE  /\ AwardsAreWhole'
             /\ \A m \in AwardedMatches :
                   /\ award'[m].score = award[m].score
                   /\ award'[m].player \in {award[m].player, Deleted}
    <2>1. /\ award' = [m \in AwardedMatches |->
                    IF award[m].player = p
                    THEN [award[m] EXCEPT !.player = Deleted] ELSE award[m]]
          /\ chosen' = chosen
        BY <1>3 DEF DeletePlayer
    <2>2. \A m \in AwardedMatches :
             LET a == [player |-> award[m].player, score |-> award[m].score]
             IN  [a EXCEPT !.player = Deleted] = [player |-> Deleted, score |-> award[m].score]
        OBVIOUS
    <2>3. \A m \in AwardedMatches :
             award'[m] = IF award[m].player = p THEN [player |-> Deleted, score |-> award[m].score]
                         ELSE award[m]
        BY <2>1, <2>2 DEF AwardsAreWhole, Whole
    <2>4. QED
        BY <2>1, <2>3 DEF AwardsAreWhole, Whole
<1>4. ASSUME NEW b \in Backfills, OpenSeries(b)
      PROVE  AwardsAreWhole' /\ award' = award
    <2>1. award' = award /\ (chosen' = chosen \/ EndSeries(b))
        BY <1>4 DEF OpenSeries
    <2>2. QED
        BY <2>1, EndedIsWhole DEF AwardsAreWhole, Whole
<1>5. ASSUME NEW b \in Backfills, DecideSeries(b)
      PROVE  AwardsAreWhole' /\ award' = award
    <2>1. award' = award
          /\ (chosen' = [chosen EXCEPT ![b] = AwardOf(maps[InTurn(b)])] \/ EndSeries(b))
        BY <1>5 DEF DecideSeries
    <2>2. PICK new : new = AwardOf(maps[InTurn(b)]) /\ Whole(new)
        BY NewAwardIsWhole
    <2>3. CASE chosen' = [chosen EXCEPT ![b] = new]
        BY <2>1, <2>2, <2>3 DEF AwardsAreWhole, Whole
    <2>4. CASE EndSeries(b)
        BY <2>1, <2>4, EndedIsWhole DEF AwardsAreWhole, Whole
    <2>5. QED
        BY <2>1, <2>2, <2>3, <2>4
<1>6. ASSUME NEW b \in Backfills, WriteAward(b)
      PROVE  /\ AwardsAreWhole'
             /\ \A m \in AwardedMatches : award[m] # Unawarded => award'[m] = award[m]
    <2>1. EndSeries(b)
        BY <1>6 DEF WriteAward
    <2>2. PICK n : n = InTurn(b)
        OBVIOUS
    <2> DEFINE fills == /\ matchState[n] = "completed"
                        /\ award[n] = Unawarded
                        /\ chosen[b].player \in Played(maps[n])
    <2>3. award' = [award EXCEPT ![n] = IF fills THEN chosen[b] ELSE award[n]]
          /\ DOMAIN award = AwardedMatches
        BY <1>6, <2>2 DEF WriteAward, AwardsAreWhole
    <2>4. /\ DOMAIN award' = AwardedMatches
          /\ \A m \in AwardedMatches : \/ award'[m] = award[m]
                                       \/ award[m] = Unawarded /\ award'[m] = chosen[b]
        <3>1. CASE fills
            BY <2>3, <3>1
        <3>2. CASE ~ fills
            <4>1. award' = [award EXCEPT ![n] = award[n]]
                BY <2>3, <3>2
            <4>2. QED
                BY <4>1, <2>3
        <3>3. QED
            BY <3>1, <3>2
    <2>5. QED
        BY <2>1, <2>4, EndedIsWhole DEF AwardsAreWhole, Whole
<1>7. QED
    <2>1. CASE UNCHANGED mvpVars
        BY <2>1, <1>1 DEF mvpVars
    <2>2. CASE \E n \in AwardedMatches : Reopen(n) \/ \E r \in GameReplays : ImportMap(n, r)
        BY <2>2, <1>1, <1>2 DEF Reopen
    <2>3. CASE \E p \in Leaving : DeletePlayer(p)
        BY <2>3, <1>3
    <2>4. CASE \E b \in Backfills : ListCompleted(b) \/ OpenSeries(b) \/ DecideSeries(b) \/ WriteAward(b)
        BY <2>4, <1>1, <1>4, <1>5, <1>6 DEF ListCompleted
    <2>5. QED
        BY <2>1, <2>2, <2>3, <2>4 DEF MvpNext

\* An award is written once, whatever uploads, backfills and administrators do
\* at the same time: only the deletion of its player changes it, and leaves the
\* score (sealMatchMvp(), backfill-match-mvps.ts).
THEOREM AwardsFinalCorrect == MvpSpec => AwardsAreFinal
<1>1. AwardsAreWhole /\ [MvpNext]_mvpVars => AwardsAreWhole'
    BY AwardStep
<1>2. AwardsAreWhole /\ [MvpNext]_mvpVars =>
        [\A m \in AwardedMatches : award[m] # Unawarded =>
            /\ award'[m].score = award[m].score
            /\ award'[m].player \in {award[m].player, Deleted}]_mvpVars
    BY AwardStep
<1>3. QED
    BY <1>1, <1>2, AwardsStart, PTL DEF MvpSpec, AwardsAreFinal
=============================================================================
