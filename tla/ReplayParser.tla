---------------------------- MODULE ReplayParser ----------------------------
(***************************************************************************)
(* What an upload does with its replays between their extraction and the   *)
(* import (apps/api/src/modules/rofl-upload): the pool of parser processes *)
(* of executePythonParser(), the reading of their outputs by               *)
(* transformParserJson(), validateParticipantCache() and                   *)
(* detectMultiAccountAnomalies(), in the order of the 'finish' handler of  *)
(* websocket/rofl-upload.gateway.ts.                                       *)
(*                                                                         *)
(* Every process writes outDir/<base name>_estadisticas.json, whatever     *)
(* directory of the archive its replay came from.  A replay is a record of *)
(* its base name (a number: the natural order of the names), whether it is *)
(* one, its date (or Undated) and the accounts that played it.             *)
(***************************************************************************)
EXTENDS Naturals, Sequences, FiniteSets, SequencesExt, Functions

CONSTANTS
    Archives,     \* the sequences of replays an upload may hold
    Pool,         \* the workers: min(MAX_PARSER_CONCURRENCY, replays)
    UserOf,       \* registered account -> its Discord user
    Undated

\* A file has a name and is a replay or is not.
ASSUME ParserAssumption ==
    \A a \in Archives :
        /\ Len(a) \in Nat /\ DOMAIN a = 1..Len(a)
        /\ \A r \in DOMAIN a : a[r].name \in Nat /\ a[r].kind \in {"rofl", "other"}

VARIABLES
    archive,       \* roflFilePaths, with what the files hold
    currentIndex,  \* the shared pointer, from 1
    doing,         \* of a worker: the replay it parses
    workerAt,      \* of a worker: where its loop stands
    outputs,       \* output file -> the replay it describes
    removed,       \* the directory is gone
    jsonFilePaths, \* replays whose output a worker has seen
    skippedFiles,
    phase,         \* of the upload
    games,         \* what transformParserJson() returned
    anomalies

parserVars == <<archive, currentIndex, doing, workerAt, outputs, removed,
                jsonFilePaths, skippedFiles, phase, games, anomalies>>

Nothing == 0
Replays == DOMAIN archive
Valid == {r \in Replays : archive[r].kind = "rofl"}

ParserInit ==
    /\ archive \in Archives
    /\ currentIndex = 1
    /\ doing = [w \in Pool |-> Nothing]
    /\ workerAt = [w \in Pool |-> "loop"]
    /\ outputs = [n \in {} |-> Nothing]
    /\ removed = FALSE
    /\ jsonFilePaths = {}
    /\ skippedFiles = {}
    /\ phase = "parsing"
    /\ games = <<>>
    /\ anomalies = {}

\* The head of the loop of a worker: the next replay, or the end.
Take(w) ==
    /\ workerAt[w] = "loop"
    /\ IF currentIndex <= Len(archive)
       THEN /\ doing' = [doing EXCEPT ![w] = currentIndex]
            /\ workerAt' = [workerAt EXCEPT ![w] = "process"]
            /\ currentIndex' = currentIndex + 1
       ELSE /\ workerAt' = [workerAt EXCEPT ![w] = "returned"]
            /\ UNCHANGED <<doing, currentIndex>>
    /\ UNCHANGED <<archive, outputs, removed, jsonFilePaths, skippedFiles,
                   phase, games, anomalies>>

\* outputPath: the directory is the same for every replay.
OutputOf(r) == archive[r].name

\* The process ends well: its output is on disk.
ProcessWrites(w) ==
    /\ workerAt[w] = "process"
    /\ doing[w] \in Valid
    /\ ~removed
    /\ outputs' = [n \in DOMAIN outputs \cup {OutputOf(doing[w])} |->
                     IF n = OutputOf(doing[w]) THEN doing[w] ELSE outputs[n]]
    /\ workerAt' = [workerAt EXCEPT ![w] = "stat"]
    /\ UNCHANGED <<archive, removed, currentIndex, doing, jsonFilePaths,
                   skippedFiles, phase, games, anomalies>>

\* Exit code 11: not a replay.  A warning, and the next one.
ProcessSkips(w) ==
    /\ workerAt[w] = "process"
    /\ archive[doing[w]].kind = "other"
    /\ skippedFiles' = skippedFiles \cup {doing[w]}
    /\ workerAt' = [workerAt EXCEPT ![w] = "loop"]
    /\ UNCHANGED <<archive, removed, currentIndex, doing, outputs,
                   jsonFilePaths, phase, games, anomalies>>

\* Any other end, or the 45 seconds are over: the worker throws, Promise.all
\* rejects and the upload fails.  The other workers are not told.
ProcessFails(w) ==
    /\ workerAt[w] = "process"
    /\ workerAt' = [workerAt EXCEPT ![w] = "threw"]
    /\ phase' = "failed"
    /\ UNCHANGED <<archive, removed, currentIndex, doing, outputs,
                   jsonFilePaths, skippedFiles, games, anomalies>>

\* fs.stat(): the output is there unless the failed upload removed it.
Stat(w) ==
    /\ workerAt[w] = "stat"
    /\ IF OutputOf(doing[w]) \in DOMAIN outputs
       THEN /\ jsonFilePaths' = jsonFilePaths \cup {doing[w]}
            /\ workerAt' = [workerAt EXCEPT ![w] = "loop"]
       ELSE /\ workerAt' = [workerAt EXCEPT ![w] = "threw"]
            /\ UNCHANGED jsonFilePaths
    /\ UNCHANGED <<archive, removed, currentIndex, doing, outputs,
                   skippedFiles, phase, games, anomalies>>

\* cleanupResources() of the failed upload, while workers still run.
DirectoryGoes ==
    /\ phase = "failed"
    /\ ~removed
    /\ removed' = TRUE
    /\ outputs' = [n \in {} |-> Nothing]
    /\ UNCHANGED <<archive, currentIndex, doing, workerAt, jsonFilePaths,
                   skippedFiles, phase, games, anomalies>>

\* validateParserFileCounts() and the empty batch.
CountsAgree ==
    /\ Len(archive) - Cardinality(skippedFiles) = Cardinality(jsonFilePaths)
    /\ jsonFilePaths # {}

PoolReturns ==
    /\ phase = "parsing"
    /\ \A w \in Pool : workerAt[w] = "returned"
    /\ phase' = IF CountsAgree THEN "reading" ELSE "failed"
    /\ UNCHANGED <<archive, removed, currentIndex, doing, workerAt, outputs,
                   jsonFilePaths, skippedFiles, games, anomalies>>

\* The comparator of sortGamesChronologically().
Before(a, b) ==
    IF a.date # Undated /\ b.date # Undated /\ a.date # b.date
    THEN a.date < b.date
    ELSE a.name < b.name

Consistent(read) ==
    \/ \A r \in read : archive[r].date # Undated
    \/ \A r \in read : archive[r].date = Undated

\* Mutant: the games are left in the order they were read.
SortedNot(s, read) == Range(s) = read

\* A comparator that is no order leaves the result to the engine.
Sorted(s, read) ==
    Consistent(read) =>
        \A i, j \in DOMAIN s : i < j => ~Before(archive[s[j]], archive[s[i]])

\* transformParserJson(): reads every path, in the order of the replays.
ReadOutputs ==
    /\ phase = "reading"
    /\ LET read == [r \in jsonFilePaths |-> outputs[OutputOf(r)]]
       IN \E order \in SetToSeqs(jsonFilePaths) :
            LET sequence == [i \in DOMAIN order |-> read[order[i]]]
            IN /\ Sorted(sequence, Range(read))
               /\ games' = sequence
    /\ phase' = "validating"
    /\ UNCHANGED <<archive, removed, currentIndex, doing, workerAt, outputs,
                   jsonFilePaths, skippedFiles, anomalies>>

\* The accounts of a game, by team and position.
CastOf(r) == archive[r].cast

AllRegistered ==
    \A i \in DOMAIN games : Range(CastOf(games[i])) \subseteq DOMAIN UserOf

\* detectMultiAccountAnomalies(): a user with several accounts in one game.
AnomaliesOf(r) ==
    {u \in Range(UserOf) :
        \E i, j \in DOMAIN CastOf(r) :
            i # j /\ UserOf[CastOf(r)[i]] = u /\ UserOf[CastOf(r)[j]] = u}

\* validateParticipantCache() refuses the whole batch, or the anomalies are
\* announced and executeBatchInsert() gets the games.
ValidateCast ==
    /\ phase = "validating"
    /\ IF AllRegistered
       THEN /\ anomalies' = UNION {{games[i]} \X AnomaliesOf(games[i]) :
                                       i \in DOMAIN games}
            /\ phase' = "persisting"
       ELSE phase' = "failed" /\ UNCHANGED anomalies
    /\ UNCHANGED <<archive, removed, currentIndex, doing, workerAt, outputs,
                   jsonFilePaths, skippedFiles, games>>

ParserNext ==
    \/ \E w \in Pool :
        \/ Take(w)
        \/ ProcessWrites(w)
        \/ ProcessSkips(w)
        \/ ProcessFails(w)
        \/ Stat(w)
    \/ DirectoryGoes
    \/ PoolReturns
    \/ ReadOutputs
    \/ ValidateCast

ParserSpec == ParserInit /\ [][ParserNext]_parserVars

-----------------------------------------------------------------------------

ParserTypeOK ==
    /\ archive \in Archives
    /\ currentIndex \in 1..(Len(archive) + 1)
    /\ doing \in [Pool -> {Nothing} \cup Replays]
    /\ workerAt \in [Pool -> {"loop", "process", "stat", "returned", "threw"}]
    /\ DOMAIN outputs \subseteq {OutputOf(r) : r \in Replays}
    /\ jsonFilePaths \cup skippedFiles \subseteq Replays
    /\ phase \in {"parsing", "reading", "validating", "persisting", "failed"}
    /\ Range(games) \subseteq Replays

\* What reaches the import is every replay of the archive exactly once, in
\* the order they were played, and no file that is not a replay: whatever
\* worker parsed each one and in whatever order the processes ended.  (The
\* base names of the archive differ.)
ImportGetsEveryReplay ==
    phase = "persisting" =>
        /\ Range(games) = Valid
        /\ IsInjective(games)
        /\ Consistent(Valid) =>
               \A i, j \in DOMAIN games :
                   Before(archive[games[i]], archive[games[j]]) => i < j

\* docs/api/rofl-upload/processing.md:96: the number of output files is
\* compared with the number of valid replays, one to one.  The code counts
\* the replays a worker saw an output for, not the files.
OneOutputPerReplay ==
    phase = "reading" => Cardinality(DOMAIN outputs) = Cardinality(Valid)
=============================================================================
