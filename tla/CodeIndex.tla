------------------------------ MODULE CodeIndex -----------------------------
(***************************************************************************)
(* The symbol index of codegraph (tools/codegraph): index runs that walk a *)
(* tree, parse changed files with a pool of parser engines, store them in  *)
(* batches and link the calls, and queries that open the same database.    *)
(*                                                                         *)
(* A file's content is a version; its facts are the version they were      *)
(* parsed from.  The database admits one writer: a write while another     *)
(* transaction writes is an error, not a wait.  What the symbols are and   *)
(* how calls are linked is left to CallResolver.                           *)
(***************************************************************************)
EXTENDS Naturals, FiniteSets

CONSTANTS Files, Versions,
          Runs,       \* calls of the index operation that run at a time
          BatchSize,  \* batchSize
          PoolSize,   \* poolSize
          MaxEdits, MaxFaults  \* bounds: edits of the tree; failures and crashes

ASSUME IndexAssumption ==
    /\ {BatchSize, PoolSize} \subseteq Nat \ {0} /\ MaxEdits \in Nat /\ MaxFaults \in Nat
    /\ "none" \notin Runs

VARIABLES
    disk,      \* the tree
    rows,      \* the committed tables: a file's hash and facts
    linked,    \* the facts the last linking pass merged (semantic_symbols)
    candidates,\* call_candidates: a call of one file to a symbol of another
    edges,     \* dispatch_edges and inferred inheritance: a file to a merged symbol of another
    spoiled,   \* history: a run changed rows and ended without linking them
    extractor, \* the version of the extractor the database knows
    created,   \* the database exists
    writer,    \* the run whose transaction holds the write lock, or none
    run,       \* what an index call knows
    idle,      \* engines in the pool
    live,      \* engines not closed
    edits, faults

links == <<linked, candidates, edges, spoiled>>
vars  == <<disk, rows, links, extractor, created, writer, run, idle, live, edits, faults>>

Absent == 0
None   == "none"
NoHash == 0
Row    == [hash : Versions \cup {NoHash}, facts : Versions \cup {Absent}]
NoRow  == [hash |-> NoHash, facts |-> Absent]
Job    == [file : Files, hash : Versions, facts : Versions]
Pairs(facts) == {f \in Files : facts[f] # Absent} \X {f \in Files : facts[f] # Absent}
Steps  == {"idle", "walk", "parse", "store", "link", "done"}
Fresh  == [pc |-> "idle", towalk |-> {}, seen |-> {}, queue |-> {}, parsing |-> {}, jobs |-> {},
           batch |-> {}, tx |-> {}, clean |-> TRUE, whole |-> TRUE, changed |-> FALSE, alone |-> TRUE,
           there |-> {}]

TypeOK ==
    /\ disk \in [Files -> Versions \cup {Absent}]
    /\ rows \in [Files -> Row] /\ linked \in [Files -> Versions \cup {Absent}]
    /\ candidates \cup edges \subseteq Files \X Files /\ spoiled \in BOOLEAN
    /\ extractor \in {"old", "new"} /\ created \in BOOLEAN /\ writer \in Runs \cup {None}
    /\ \A r \in Runs :
          /\ run[r].pc \in Steps
          /\ run[r].towalk \cup run[r].seen \cup run[r].queue \subseteq Files
          /\ run[r].jobs \cup run[r].batch \cup run[r].tx \subseteq Job
          /\ run[r].parsing \subseteq Job
          /\ run[r].tx # {} => writer = r
    /\ idle \in 0 .. PoolSize
    /\ live = idle + Cardinality({p \in Runs \X Job : p[2] \in run[p[1]].parsing})

\* a fresh tree, or one that an older version of the extractor has indexed
Init ==
    /\ disk \in [Files -> Versions]
    /\ \/ rows = [f \in Files |-> NoRow] /\ linked = [f \in Files |-> Absent] /\ created = FALSE
       \/ \E v \in Versions : /\ rows = [f \in Files |-> [hash |-> v, facts |-> v]]
                              /\ linked = [f \in Files |-> v] /\ created = TRUE
    /\ candidates = Pairs(linked) /\ edges = Pairs(linked) /\ spoiled = FALSE
    /\ extractor = IF created THEN "old" ELSE "new"
    /\ writer = None /\ run = [r \in Runs |-> Fresh] /\ idle = 0 /\ live = 0
    /\ edits = 0 /\ faults = 0

(***************************************************************************)
(* The world                                                               *)
(***************************************************************************)
\* an editor changes, adds or removes a file
Edit(f, v) ==
    /\ edits < MaxEdits /\ disk[f] # v
    /\ disk' = [disk EXCEPT ![f] = v] /\ edits' = edits + 1
    /\ run' = [r \in Runs |-> [run[r] EXCEPT !.alone = FALSE,
                                             !.there = IF v = Absent THEN @ \ {f} ELSE @]]
    /\ UNCHANGED <<rows, links, extractor, created, writer, idle, live, faults>>

Fault == faults < MaxFaults /\ faults' = faults + 1

\* a run has changed rows and is still to link the calls
Owing(r) == run[r].changed /\ run[r].pc \notin {"idle", "done"}

\* the server is killed: transactions are rolled back, engines are gone
Crash ==
    /\ Fault /\ \E r \in Runs : run[r].pc # "idle"
    /\ spoiled' = (spoiled \/ \E r \in Runs : Owing(r))
    /\ run' = [r \in Runs |-> Fresh] /\ writer' = None /\ idle' = 0 /\ live' = 0
    /\ UNCHANGED <<disk, rows, linked, candidates, edges, extractor, created, edits>>

(***************************************************************************)
(* Index: opening and walking                                              *)
(***************************************************************************)
Set(r, rec) == run' = [run EXCEPT ![r] = rec]

\* other runs no longer work alone once this one has committed
Committed(r, rec) ==
    run' = [q \in Runs |-> IF q = r THEN rec ELSE [run[q] EXCEPT !.alone = FALSE]]

\* openDB writes the schema version, prepareExtractorVersion clears the
\* hashes when the extractor is another one: both need the write lock
OpIndex(r) ==
    /\ run[r].pc = "idle" /\ writer = None
    /\ created' = TRUE /\ extractor' = "new"
    /\ LET full == extractor = "old"
           rec  == [Fresh EXCEPT !.pc = "walk", !.towalk = Files, !.changed = full,
                                 !.there = {f \in Files : disk[f] # Absent},
                                 !.alone = \A q \in Runs : run[q].pc = "idle"]
       IN /\ rows' = IF full THEN [f \in Files |-> [rows[f] EXCEPT !.hash = NoHash]] ELSE rows
          /\ Committed(r, rec)
    /\ UNCHANGED <<disk, links, writer, idle, live, edits, faults>>

\* isFileChanged: the hash of the content against the stored one
IsFileChanged_Known(f) == rows[f].hash = NoHash
IsFileChanged(f) == rows[f].hash # disk[f]

WalkFile(r, f) ==
    /\ run[r].pc = "walk" /\ f \in run[r].towalk
    /\ LET rest == [run[r] EXCEPT !.towalk = @ \ {f}] IN
       IF disk[f] = Absent THEN Set(r, rest)
       ELSE Set(r, [rest EXCEPT !.seen = @ \cup {f},
                                !.queue = IF IsFileChanged(f) THEN @ \cup {f} ELSE @])
    /\ UNCHANGED <<disk, rows, links, extractor, created, writer, idle, live, edits, faults>>

\* a directory cannot be read: its file is not seen and the walk not whole
WalkError(r, f) ==
    /\ run[r].pc = "walk" /\ f \in run[r].towalk /\ Fault
    /\ Set(r, [run[r] EXCEPT !.towalk = @ \ {f}, !.clean = FALSE, !.whole = FALSE])
    /\ UNCHANGED <<disk, rows, links, extractor, created, writer, idle, live, edits>>

\* Rows are deleted with what refers to them: the candidates of the calls and of
\* the symbols of the files, and the edges of their calls.  Merged symbols stay
\* until the next linking pass, and with them the edges to them.
Cascade_CallsOnly(files) ==
    /\ candidates' = {l \in candidates : l[1] \notin files}
    /\ edges' = {l \in edges : l[1] \notin files}
    /\ UNCHANGED <<linked, spoiled>>
Cascade(files) ==
    /\ candidates' = {l \in candidates : l[1] \notin files /\ l[2] \notin files}
    /\ edges' = {l \in edges : l[1] \notin files}
    /\ UNCHANGED <<linked, spoiled>>

\* purgeStaleFiles: rows of files the walk has not seen; left out after a walk
\* with errors
Stale_Always(r) == IF run[r].pc = "walk" THEN {f \in Files \ run[r].seen : rows[f] # NoRow} ELSE {}
Stale(r) == IF run[r].whole THEN {f \in Files \ run[r].seen : rows[f] # NoRow} ELSE {}

\* removed > 0 counts as a change of the graph
Purged_Uncounted(r, stale) == [run[r] EXCEPT !.pc = "parse"]
Purged(r, stale) == [run[r] EXCEPT !.pc = "parse", !.changed = @ \/ stale # {}]

PurgeStaleFiles(r) ==
    LET stale == Stale(r) IN
    /\ run[r].pc = "walk" /\ run[r].towalk = {}
    /\ \/ /\ stale = {} /\ Set(r, Purged(r, stale))
          /\ UNCHANGED <<rows, links>>
       \/ /\ stale # {} /\ writer # None
          /\ Set(r, [run[r] EXCEPT !.pc = "parse", !.clean = FALSE])
          /\ UNCHANGED <<rows, links>>
       \/ /\ stale # {} /\ writer = None
          /\ rows' = [f \in Files |-> IF f \in stale THEN NoRow ELSE rows[f]]
          /\ Cascade(stale) /\ Committed(r, Purged(r, stale))
    /\ UNCHANGED <<disk, extractor, created, writer, idle, live, edits, faults>>

(***************************************************************************)
(* Index: the workers                                                      *)
(***************************************************************************)
\* an engine of the pool, or a new one when there is none: no limit on those
GetEngine ==
    IF idle > 0 THEN idle' = idle - 1 /\ UNCHANGED live ELSE live' = live + 1 /\ UNCHANGED idle

\* the file is read, then parsed by the engine
ParseBegin_HashLater(r, f) ==
    /\ run[r].pc \in {"parse", "store"} /\ f \in run[r].queue /\ disk[f] # Absent
    /\ \E v \in Versions : /\ rows[f].facts # v
                           /\ Set(r, [run[r] EXCEPT !.queue = @ \ {f},
                                        !.parsing = @ \cup {[file |-> f, hash |-> disk[f], facts |-> v]}])
    /\ GetEngine
    /\ UNCHANGED <<disk, rows, links, extractor, created, writer, edits, faults>>
ParseBegin(r, f) ==
    /\ run[r].pc \in {"parse", "store"} /\ f \in run[r].queue /\ disk[f] # Absent
    /\ Set(r, [run[r] EXCEPT !.queue = @ \ {f},
                 !.parsing = @ \cup {[file |-> f, hash |-> disk[f], facts |-> disk[f]]}])
    /\ GetEngine
    /\ UNCHANGED <<disk, rows, links, extractor, created, writer, edits, faults>>

\* the file is gone when a worker reads it
ReadFails(r, f) ==
    /\ run[r].pc \in {"parse", "store"} /\ f \in run[r].queue /\ disk[f] = Absent
    /\ Set(r, [run[r] EXCEPT !.queue = @ \ {f}, !.clean = FALSE])
    /\ UNCHANGED <<disk, rows, links, extractor, created, writer, idle, live, edits, faults>>

\* putEngine: into the pool when there is room; worn-out engines are closed
PutEngine ==
    \/ idle < PoolSize /\ idle' = idle + 1 /\ UNCHANGED live
    \/ live' = live - 1 /\ UNCHANGED idle

ParseDone(r, j) ==
    /\ j \in run[r].parsing
    /\ Set(r, [run[r] EXCEPT !.parsing = @ \ {j}, !.jobs = @ \cup {j}])
    /\ PutEngine
    /\ UNCHANGED <<disk, rows, links, extractor, created, writer, edits, faults>>

ParseFails(r, j) ==
    /\ j \in run[r].parsing /\ Fault
    /\ Set(r, [run[r] EXCEPT !.parsing = @ \ {j}, !.clean = FALSE])
    /\ PutEngine
    /\ UNCHANGED <<disk, rows, links, extractor, created, writer, edits>>

(***************************************************************************)
(* Index: storing                                                          *)
(***************************************************************************)
WorkersDone(r) == run[r].queue = {} /\ run[r].parsing = {}

\* flushBatch, when the batch is full or the workers are done: its first
\* write takes the lock or is an error for every file of the batch
FlushBatch(r) ==
    /\ run[r].pc = "parse"
    /\ \E batch \in SUBSET run[r].jobs \ {{}} :
          /\ \/ Cardinality(batch) = BatchSize
             \/ WorkersDone(r) /\ batch = run[r].jobs /\ Cardinality(batch) < BatchSize
          /\ LET rest == [run[r] EXCEPT !.jobs = @ \ batch] IN
             IF writer = None
             THEN writer' = r /\ Set(r, [rest EXCEPT !.pc = "store", !.batch = batch])
             ELSE Set(r, [rest EXCEPT !.clean = FALSE]) /\ UNCHANGED writer
    /\ UNCHANGED <<disk, rows, links, extractor, created, idle, live, edits, faults>>

\* one file behind a savepoint
StoreParseResult(r, j) ==
    /\ run[r].pc = "store" /\ j \in run[r].batch
    /\ Set(r, [run[r] EXCEPT !.batch = @ \ {j}, !.tx = @ \cup {j}])
    /\ UNCHANGED <<disk, rows, links, extractor, created, writer, idle, live, edits, faults>>

\* the savepoint is rolled back: the file keeps what it had
StoreFails(r, j) ==
    /\ run[r].pc = "store" /\ j \in run[r].batch /\ Fault
    /\ Set(r, [run[r] EXCEPT !.batch = @ \ {j}, !.clean = FALSE])
    /\ UNCHANGED <<disk, rows, links, extractor, created, writer, idle, live, edits>>

\* the old symbols and calls of the stored files are deleted
Commit(r) ==
    LET tx == run[r].tx
        of(f) == CHOOSE j \in tx : j.file = f IN
    /\ run[r].pc = "store" /\ run[r].batch = {}
    /\ rows' = [f \in Files |-> IF \E j \in tx : j.file = f
                                THEN [hash |-> of(f).hash, facts |-> of(f).facts] ELSE rows[f]]
    /\ Cascade({j.file : j \in tx})
    /\ writer' = None
    /\ Committed(r, [run[r] EXCEPT !.pc = "parse", !.tx = {}, !.changed = @ \/ tx # {}])
    /\ UNCHANGED <<disk, extractor, created, idle, live, edits, faults>>

CommitFails(r) ==
    /\ run[r].pc = "store" /\ run[r].batch = {} /\ run[r].tx # {} /\ Fault
    /\ writer' = None
    /\ Set(r, [run[r] EXCEPT !.pc = "parse", !.tx = {}, !.clean = FALSE])
    /\ UNCHANGED <<disk, rows, links, extractor, created, idle, live, edits>>

(***************************************************************************)
(* Index: linking                                                          *)
(***************************************************************************)
Stored(r) == run[r].pc = "parse" /\ WorkersDone(r) /\ run[r].jobs = {}

\* resolveSymbolKinds and resolveCallCandidates, when the run changed something:
\* symbols are merged and all calls linked anew, as far as they can be
ResolveCallCandidates(r) ==
    /\ Stored(r) /\ run[r].changed /\ writer = None
    /\ linked' = [f \in Files |-> rows[f].facts]
    /\ candidates' = Pairs(linked') /\ edges' = Pairs(linked') /\ spoiled' = FALSE
    /\ Committed(r, [run[r] EXCEPT !.pc = "done"])
    /\ UNCHANGED <<disk, rows, extractor, created, writer, idle, live, edits, faults>>

\* the pass fails, or another run is writing: the run ends, with an error
ResolveFails(r) ==
    /\ Stored(r) /\ run[r].changed
    /\ IF writer = None THEN Fault ELSE UNCHANGED faults
    /\ spoiled' = TRUE
    /\ Set(r, [run[r] EXCEPT !.pc = "done", !.clean = FALSE])
    /\ UNCHANGED <<disk, rows, linked, candidates, edges, extractor, created, writer, idle, live, edits>>

NothingChanged(r) ==
    /\ Stored(r) /\ ~run[r].changed
    /\ Set(r, [run[r] EXCEPT !.pc = "done"])
    /\ UNCHANGED <<disk, rows, links, extractor, created, writer, idle, live, edits, faults>>

Return(r) ==
    /\ run[r].pc = "done" /\ Set(r, Fresh)
    /\ UNCHANGED <<disk, rows, links, extractor, created, writer, idle, live, edits, faults>>

(***************************************************************************)
(* Queries (CodeQueries): validateAndOpenDB creates the database and       *)
(* writes its schema version before any query reads                        *)
(***************************************************************************)
ValidateAndOpenDB ==
    /\ writer = None /\ created' = TRUE
    /\ UNCHANGED <<disk, rows, links, extractor, writer, run, idle, live, edits, faults>>

Next ==
    \/ Crash \/ ValidateAndOpenDB
    \/ \E f \in Files, v \in Versions \cup {Absent} : Edit(f, v)
    \/ \E r \in Runs :
          \/ OpIndex(r) \/ PurgeStaleFiles(r) \/ FlushBatch(r) \/ Commit(r) \/ CommitFails(r)
          \/ ResolveCallCandidates(r) \/ ResolveFails(r) \/ NothingChanged(r) \/ Return(r)
          \/ \E f \in Files : WalkFile(r, f) \/ WalkError(r, f) \/ ParseBegin(r, f) \/ ReadFails(r, f)
          \/ \E j \in Job : ParseDone(r, j) \/ ParseFails(r, j) \/ StoreParseResult(r, j) \/ StoreFails(r, j)

Spec == Init /\ [][Next]_vars

(***************************************************************************)
(* Properties                                                              *)
(***************************************************************************)
\* A stored hash vouches for the stored facts: a file that is skipped because
\* its hash is unchanged has the facts of its content, whenever it was edited
\* between the walk, the reading by a worker and the commit (operations.go:213).
HashVouches == \A f \in Files : rows[f].hash # NoHash => rows[f].facts = rows[f].hash

\* A candidate does not outlive the call nor the symbol it joins: replacing or
\* purging a file deletes it with them, whatever is killed or fails (db.go:480).
\* An edge does outlive the symbol it leads to (project_resolver.go:365), but only
\* as long as the run that changed the symbols is still to link them, or when it
\* was killed or reported that linking failed.
Current(f) == linked[f] = rows[f].facts
NoDanglingLinks ==
    /\ \A l \in candidates : Current(l[1]) /\ Current(l[2])
    /\ \A l \in edges : Current(l[1])
    /\ ~spoiled /\ (\A r \in Runs : ~Owing(r)) => \A l \in edges : Current(l[2])

\* An index run that reports no error, while nothing else changed the tree or
\* the database, leaves the facts of exactly the files that are there, and
\* links made from them if it changed anything.
RunCovers ==
    \A r \in Runs : run[r].pc = "done" /\ run[r].clean /\ run[r].alone =>
        /\ \A f \in Files : rows[f].facts = disk[f]
        /\ run[r].changed => linked = disk /\ candidates = Pairs(disk) /\ edges = Pairs(disk)

\* A run drops no file that was there all the time it ran: an incomplete walk
\* cannot purge valid data (operations.go:168).
NoFalsePurge ==
    [][\A r \in Runs : PurgeStaleFiles(r) =>
          \A f \in run[r].there : rows[f] # NoRow => rows'[f] # NoRow]_vars
=============================================================================
