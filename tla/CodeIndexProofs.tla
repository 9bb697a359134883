-------------------------- MODULE CodeIndexProofs ---------------------------
(***************************************************************************)
(* Proofs about CodeIndex for any tree, any contents, any number of runs   *)
(* and any batch and pool sizes.                                           *)
(***************************************************************************)
EXTENDS CodeIndex, TLAPS

\* What a worker hands on: the hash and the facts are of one reading.
Parsed == {j \in Job : j.hash = j.facts}
RunRec == [pc : Steps, towalk : SUBSET Files, seen : SUBSET Files, queue : SUBSET Files,
           parsing : SUBSET Parsed, jobs : SUBSET Parsed, batch : SUBSET Parsed, tx : SUBSET Parsed,
           clean : BOOLEAN, whole : BOOLEAN, changed : BOOLEAN, alone : BOOLEAN,
           there : SUBSET Files]
Typed ==
    /\ disk \in [Files -> Versions \cup {Absent}]
    /\ rows \in [Files -> Row] /\ linked \in [Files -> Versions \cup {Absent}]
    /\ candidates \subseteq Files \X Files /\ edges \subseteq Files \X Files /\ spoiled \in BOOLEAN
    /\ writer \in Runs \cup {None} /\ run \in [Runs -> RunRec]

\* The workers have nothing before the walk is over, a batch is open only in the
\* run that holds the write lock, no file is walked twice.
StepInv(r) ==
    /\ run[r].pc \in {"idle", "walk"} => run[r].parsing = {} /\ run[r].jobs = {}
    /\ run[r].pc = "store" <=> writer = r
    /\ run[r].pc # "store" => run[r].batch = {} /\ run[r].tx = {}
    /\ run[r].towalk \cap run[r].seen = {}

\* The files that were there all the time are there, and a walk without errors
\* has seen them or will come to them.
ThereInv(r) == run[r].pc # "idle" =>
    /\ \A f \in run[r].there : disk[f] # Absent
    /\ run[r].whole => run[r].there \subseteq run[r].towalk \cup run[r].seen

\* A run that works alone is the only one, and all that is under way in it has
\* the facts of the tree.
UnderWay(r) == run[r].parsing \cup run[r].jobs \cup run[r].batch \cup run[r].tx
AloneInv(r) == run[r].pc # "idle" /\ run[r].alone =>
    /\ \A q \in Runs \ {r} : run[q].pc = "idle"
    /\ \A j \in UnderWay(r) : j.facts = disk[j.file]

\* As long as it has met no error, every file is still to be walked, or to be
\* parsed, or under way, or stored with the facts of the tree; what the walk has
\* not seen is not there.
Settled(f) == rows[f].facts = disk[f]
CoverInv(r) == run[r].pc # "idle" /\ run[r].alone /\ run[r].clean =>
    /\ run[r].whole
    /\ run[r].pc = "walk" => \A f \in Files \ run[r].towalk :
         IF f \in run[r].seen THEN f \in run[r].queue \/ Settled(f) ELSE disk[f] = Absent
    /\ run[r].pc # "walk" => \A f \in Files :
         f \in run[r].queue \/ (\E j \in UnderWay(r) : j.file = f) \/ Settled(f)
    /\ run[r].pc = "done" => \A f \in Files : Settled(f)
    /\ run[r].pc = "done" /\ run[r].changed =>
         linked = disk /\ candidates = Pairs(disk) /\ edges = Pairs(disk)

RunInv(r) == StepInv(r) /\ ThereInv(r) /\ AloneInv(r) /\ CoverInv(r)

IndexInv == Typed /\ HashVouches /\ NoDanglingLinks /\ \A r \in Runs : RunInv(r)

-----------------------------------------------------------------------------
\* A fresh run, and what it means for the invariant.
LEMMA FreshRun ==
    /\ Fresh \in RunRec /\ Fresh.pc = "idle" /\ Fresh.parsing = {} /\ Fresh.jobs = {}
    /\ Fresh.batch = {} /\ Fresh.tx = {} /\ Fresh.towalk = {}
  BY DEF Fresh, RunRec, Steps

\* All pairs of files with facts are pairs of files.
LEMMA PairsOfFiles == \A facts : Pairs(facts) \subseteq Files \X Files
  BY DEF Pairs

\* What a step that leaves the facts, the candidates and the edges alone needs
\* for the links: a run that owes a linking pass still does, or has spoiled them.
LEMMA LinksStay ==
    ASSUME IndexInv, UNCHANGED <<linked, candidates, edges>>, spoiled => spoiled',
           \A f \in Files : rows'[f].facts = rows[f].facts,
           \A r \in Runs : Owing(r) => Owing(r)' \/ spoiled'
    PROVE  NoDanglingLinks'
<1>1. \A f \in Files : Current(f)' <=> Current(f)
  BY DEF Current
<1>2. candidates \subseteq Files \X Files /\ edges \subseteq Files \X Files /\ NoDanglingLinks
  BY DEF IndexInv, Typed
<1> QED BY <1>1, <1>2 DEF NoDanglingLinks

\* When the rows of some files are replaced or deleted and a run is now to link,
\* the cascade leaves no link that it should not leave.
LEMMA CascadeKeeps ==
    ASSUME IndexInv, NEW files, Cascade(files), \A f \in Files \ files : rows'[f] = rows[f],
           NEW r \in Runs, Owing(r)'
    PROVE  NoDanglingLinks'
<1>1. \A f \in Files \ files : Current(f) => Current(f)'
  BY DEF Current, Cascade
<1>2. candidates \subseteq Files \X Files /\ edges \subseteq Files \X Files /\ NoDanglingLinks
  BY DEF IndexInv, Typed
<1>3. \A l \in candidates' : l \in candidates /\ l[1] \notin files /\ l[2] \notin files
  BY DEF Cascade
<1>4. \A l \in edges' : l \in edges /\ l[1] \notin files
  BY DEF Cascade
<1>5. \A l \in candidates' : Current(l[1])' /\ Current(l[2])'
  BY <1>1, <1>2, <1>3 DEF NoDanglingLinks
<1>6. \A l \in edges' : Current(l[1])'
  BY <1>1, <1>2, <1>4 DEF NoDanglingLinks
<1> QED BY <1>5, <1>6 DEF NoDanglingLinks

\* Initially no run is open; an index left by an older extractor is consistent.
LEMMA InitOK == Init => IndexInv
<1> SUFFICES ASSUME Init PROVE IndexInv
  OBVIOUS
<1>1. Typed
  <2>1. candidates \subseteq Files \X Files /\ edges \subseteq Files \X Files /\ spoiled \in BOOLEAN
    BY PairsOfFiles DEF Init
  <2>2. rows \in [Files -> Row] /\ linked \in [Files -> Versions \cup {Absent}]
    BY DEF Init, Row, NoRow, Absent, NoHash
  <2> QED BY FreshRun, <2>1, <2>2 DEF Init, Typed
<1>2. \A f \in Files : Current(f)
  BY DEF Init, Current, NoRow
<1>3. HashVouches /\ NoDanglingLinks
  BY <1>1, <1>2 DEF Init, Typed, HashVouches, NoDanglingLinks, NoRow, NoHash, Absent
<1>4. \A r \in Runs : RunInv(r)
  BY FreshRun, IndexAssumption DEF Init, RunInv, StepInv, ThereInv, AloneInv, CoverInv, None
<1> QED BY <1>1, <1>3, <1>4 DEF IndexInv

\* The two ways in which a step of a run changes what the runs know.
LEMMA SetRun ==
    ASSUME Typed, NEW r \in Runs, NEW k \in RunRec, Set(r, k)
    PROVE  run' \in [Runs -> RunRec] /\ run'[r] = k /\ \A q \in Runs \ {r} : run'[q] = run[q]
  BY DEF Typed, Set
LEMMA CommittedRun ==
    ASSUME Typed, NEW r \in Runs, NEW k \in RunRec, Committed(r, k)
    PROVE  /\ run' \in [Runs -> RunRec] /\ run'[r] = k
           /\ \A q \in Runs \ {r} : run'[q] = [run[q] EXCEPT !.alone = FALSE]
<1>1. \A q \in Runs : [run[q] EXCEPT !.alone = FALSE] \in RunRec
  BY DEF Typed, RunRec
<1> QED BY <1>1 DEF Typed, Committed

\* What a step of run r leaves of another run q: no run works alone beside an
\* open one.
LEMMA OtherRun ==
    ASSUME IndexInv, NEW r \in Runs, NEW q \in Runs \ {r}, disk' = disk, writer' = q <=> writer = q,
           \/ run'[q] = run[q] /\ run[r].pc # "idle"
           \/ run'[q] = [run[q] EXCEPT !.alone = FALSE]
    PROVE  RunInv(q)'
<1>1. /\ run'[q].pc = run[q].pc /\ run'[q].parsing = run[q].parsing /\ run'[q].jobs = run[q].jobs
      /\ run'[q].batch = run[q].batch /\ run'[q].tx = run[q].tx /\ run'[q].there = run[q].there
      /\ run'[q].whole = run[q].whole /\ run'[q].towalk = run[q].towalk /\ run'[q].seen = run[q].seen
  <2>1. run[q] \in RunRec
    BY DEF IndexInv, Typed
  <2> QED BY <2>1 DEF RunRec
<1>2. run[q].pc # "idle" => ~run'[q].alone
  <2>1. run[q] \in RunRec /\ AloneInv(q)
    BY DEF IndexInv, Typed, RunInv
  <2> QED BY <2>1 DEF RunRec, AloneInv
<1>3. RunInv(q)
  BY DEF IndexInv
<1> QED
  BY <1>1, <1>2, <1>3 DEF RunInv, StepInv, ThereInv, AloneInv, CoverInv

\* A directory that cannot be read: the walk is not whole and the run has an error.
LEMMA WalkErrorStep ==
    ASSUME IndexInv, NEW r \in Runs, NEW f \in Files, WalkError(r, f)
    PROVE  IndexInv'
<1> DEFINE k == [run[r] EXCEPT !.towalk = @ \ {f}, !.clean = FALSE, !.whole = FALSE]
<1>1. run[r] \in RunRec /\ RunInv(r)
  BY DEF IndexInv, Typed
<1>2. /\ k \in RunRec /\ k.pc = run[r].pc /\ k.towalk = run[r].towalk \ {f}
      /\ k.seen = run[r].seen /\ k.queue = run[r].queue /\ k.parsing = run[r].parsing
      /\ k.jobs = run[r].jobs /\ k.batch = run[r].batch /\ k.tx = run[r].tx /\ k.clean = FALSE
      /\ k.whole = FALSE /\ k.changed = run[r].changed /\ k.alone = run[r].alone
      /\ k.there = run[r].there
  BY <1>1 DEF RunRec, Steps, WalkError
<1>3. run' \in [Runs -> RunRec] /\ run'[r] = k /\ \A q \in Runs \ {r} : run'[q] = run[q]
  BY <1>2, SetRun DEF IndexInv, WalkError
<1> HIDE DEF k
<1>4. Typed' /\ HashVouches'
  BY <1>3 DEF IndexInv, Typed, HashVouches, WalkError, links
<1>4a. NoDanglingLinks'
  BY <1>1, <1>2, <1>3, LinksStay DEF IndexInv, Owing, WalkError, links
<1>5. RunInv(r)'
  BY IndexAssumption, <1>1, <1>2, <1>3 DEF WalkError, RunInv, StepInv, ThereInv, AloneInv, UnderWay, CoverInv, Settled
<1>6. \A q \in Runs \ {r} : RunInv(q)'
  BY IndexAssumption, <1>3, OtherRun DEF WalkError, None, IndexInv, RunInv, StepInv
<1> QED BY <1>4, <1>4a, <1>5, <1>6 DEF IndexInv

\* A file that is gone when a worker reads it.
LEMMA ReadFailsStep ==
    ASSUME IndexInv, NEW r \in Runs, NEW f \in Files, ReadFails(r, f)
    PROVE  IndexInv'
<1> DEFINE k == [run[r] EXCEPT !.queue = @ \ {f}, !.clean = FALSE]
<1>1. run[r] \in RunRec /\ RunInv(r)
  BY DEF IndexInv, Typed
<1>2. /\ k \in RunRec /\ k.pc = run[r].pc /\ k.towalk = run[r].towalk /\ k.seen = run[r].seen
      /\ k.queue = run[r].queue \ {f} /\ k.parsing = run[r].parsing /\ k.jobs = run[r].jobs
      /\ k.batch = run[r].batch /\ k.tx = run[r].tx /\ k.clean = FALSE /\ k.whole = run[r].whole
      /\ k.changed = run[r].changed /\ k.alone = run[r].alone /\ k.there = run[r].there
  BY <1>1 DEF RunRec, Steps, ReadFails
<1>3. run' \in [Runs -> RunRec] /\ run'[r] = k /\ \A q \in Runs \ {r} : run'[q] = run[q]
  BY <1>2, SetRun DEF IndexInv, ReadFails
<1> HIDE DEF k
<1>4. Typed' /\ HashVouches'
  BY <1>3 DEF IndexInv, Typed, HashVouches, ReadFails, links
<1>4a. NoDanglingLinks'
  BY <1>1, <1>2, <1>3, LinksStay DEF IndexInv, Owing, ReadFails, links
<1>5. RunInv(r)'
  BY IndexAssumption, <1>1, <1>2, <1>3 DEF ReadFails, RunInv, StepInv, ThereInv, AloneInv, UnderWay, CoverInv, Settled
<1>6. \A q \in Runs \ {r} : RunInv(q)'
  BY IndexAssumption, <1>3, OtherRun DEF ReadFails, None, IndexInv, RunInv, StepInv
<1> QED BY <1>4, <1>4a, <1>5, <1>6 DEF IndexInv

\* What is parsed waits to be stored.
LEMMA ParseDoneStep ==
    ASSUME IndexInv, NEW r \in Runs, NEW j \in Job, ParseDone(r, j)
    PROVE  IndexInv'
<1> DEFINE k == [run[r] EXCEPT !.parsing = @ \ {j}, !.jobs = @ \cup {j}]
<1>1. run[r] \in RunRec /\ RunInv(r)
  BY DEF IndexInv, Typed
<1>2. /\ k \in RunRec /\ k.pc = run[r].pc /\ k.towalk = run[r].towalk /\ k.seen = run[r].seen
      /\ k.queue = run[r].queue /\ k.parsing = run[r].parsing \ {j}
      /\ k.jobs = run[r].jobs \cup {j} /\ k.batch = run[r].batch /\ k.tx = run[r].tx
      /\ k.clean = run[r].clean /\ k.whole = run[r].whole /\ k.changed = run[r].changed
      /\ k.alone = run[r].alone /\ k.there = run[r].there
  BY <1>1 DEF RunRec, Steps, ParseDone
<1>3. run' \in [Runs -> RunRec] /\ run'[r] = k /\ \A q \in Runs \ {r} : run'[q] = run[q]
  BY <1>2, SetRun DEF IndexInv, ParseDone
<1> HIDE DEF k
<1>4. Typed' /\ HashVouches'
  BY <1>3 DEF IndexInv, Typed, HashVouches, ParseDone, links
<1>4a. NoDanglingLinks'
  BY <1>1, <1>2, <1>3, LinksStay DEF IndexInv, Owing, ParseDone, links
<1>5. RunInv(r)'
  <2>1. UnderWay(r)' = UnderWay(r)
    BY <1>2, <1>3 DEF UnderWay, ParseDone
  <2>2. StepInv(r)' /\ ThereInv(r)'
    BY <1>1, <1>2, <1>3 DEF ParseDone, RunInv, StepInv, ThereInv
  <2>3. AloneInv(r)'
    BY <1>1, <1>2, <1>3, <2>1 DEF ParseDone, RunInv, AloneInv
  <2>4. CoverInv(r)'
    <3>1. UNCHANGED <<disk, rows, linked, candidates, edges>>
      BY DEF ParseDone, links
    <3>2. CoverInv(r)
      BY <1>1 DEF RunInv
    <3>3. \A g \in Files : Settled(g)' <=> Settled(g)
      BY <3>1 DEF Settled
    <3> QED BY <1>2, <1>3, <2>1, <3>1, <3>2, <3>3 DEF CoverInv
  <2> QED BY <2>2, <2>3, <2>4 DEF RunInv
<1>6. \A q \in Runs \ {r} : RunInv(q)'
  BY IndexAssumption, <1>3, OtherRun DEF ParseDone, None, IndexInv, RunInv, StepInv
<1> QED BY <1>4, <1>4a, <1>5, <1>6 DEF IndexInv

\* A file that cannot be parsed is an error of the run.
LEMMA ParseFailsStep ==
    ASSUME IndexInv, NEW r \in Runs, NEW j \in Job, ParseFails(r, j)
    PROVE  IndexInv'
<1> DEFINE k == [run[r] EXCEPT !.parsing = @ \ {j}, !.clean = FALSE]
<1>1. run[r] \in RunRec /\ RunInv(r)
  BY DEF IndexInv, Typed
<1>2. /\ k \in RunRec /\ k.pc = run[r].pc /\ k.towalk = run[r].towalk /\ k.seen = run[r].seen
      /\ k.queue = run[r].queue /\ k.parsing = run[r].parsing \ {j} /\ k.jobs = run[r].jobs
      /\ k.batch = run[r].batch /\ k.tx = run[r].tx /\ k.clean = FALSE /\ k.whole = run[r].whole
      /\ k.changed = run[r].changed /\ k.alone = run[r].alone /\ k.there = run[r].there
  BY <1>1 DEF RunRec, Steps, ParseFails
<1>3. run' \in [Runs -> RunRec] /\ run'[r] = k /\ \A q \in Runs \ {r} : run'[q] = run[q]
  BY <1>2, SetRun DEF IndexInv, ParseFails
<1> HIDE DEF k
<1>4. Typed' /\ HashVouches'
  BY <1>3 DEF IndexInv, Typed, HashVouches, ParseFails, links
<1>4a. NoDanglingLinks'
  BY <1>1, <1>2, <1>3, LinksStay DEF IndexInv, Owing, ParseFails, links
<1>5. RunInv(r)'
  BY IndexAssumption, <1>1, <1>2, <1>3 DEF ParseFails, RunInv, StepInv, ThereInv, AloneInv, UnderWay, CoverInv, Settled
<1>6. \A q \in Runs \ {r} : RunInv(q)'
  BY IndexAssumption, <1>3, OtherRun DEF ParseFails, None, IndexInv, RunInv, StepInv
<1> QED BY <1>4, <1>4a, <1>5, <1>6 DEF IndexInv

\* A file is stored in the transaction.
LEMMA StoreParseResultStep ==
    ASSUME IndexInv, NEW r \in Runs, NEW j \in Job, StoreParseResult(r, j)
    PROVE  IndexInv'
<1> DEFINE k == [run[r] EXCEPT !.batch = @ \ {j}, !.tx = @ \cup {j}]
<1>1. run[r] \in RunRec /\ RunInv(r)
  BY DEF IndexInv, Typed
<1>2. /\ k \in RunRec /\ k.pc = run[r].pc /\ k.towalk = run[r].towalk /\ k.seen = run[r].seen
      /\ k.queue = run[r].queue /\ k.parsing = run[r].parsing /\ k.jobs = run[r].jobs
      /\ k.batch = run[r].batch \ {j} /\ k.tx = run[r].tx \cup {j} /\ k.clean = run[r].clean
      /\ k.whole = run[r].whole /\ k.changed = run[r].changed /\ k.alone = run[r].alone
      /\ k.there = run[r].there
  BY <1>1 DEF RunRec, Steps, StoreParseResult
<1>3. run' \in [Runs -> RunRec] /\ run'[r] = k /\ \A q \in Runs \ {r} : run'[q] = run[q]
  BY <1>2, SetRun DEF IndexInv, StoreParseResult
<1> HIDE DEF k
<1>4. Typed' /\ HashVouches'
  BY <1>3 DEF IndexInv, Typed, HashVouches, StoreParseResult, links
<1>4a. NoDanglingLinks'
  BY <1>1, <1>2, <1>3, LinksStay DEF IndexInv, Owing, StoreParseResult, links
<1>5. RunInv(r)'
  BY IndexAssumption, <1>1, <1>2, <1>3 DEF StoreParseResult, RunInv, StepInv, ThereInv, AloneInv, UnderWay, CoverInv, Settled
<1>6. \A q \in Runs \ {r} : RunInv(q)'
  BY IndexAssumption, <1>3, OtherRun DEF StoreParseResult, None, IndexInv, RunInv, StepInv
<1> QED BY <1>4, <1>4a, <1>5, <1>6 DEF IndexInv

\* A file that is not stored is an error of the run.
LEMMA StoreFailsStep ==
    ASSUME IndexInv, NEW r \in Runs, NEW j \in Job, StoreFails(r, j)
    PROVE  IndexInv'
<1> DEFINE k == [run[r] EXCEPT !.batch = @ \ {j}, !.clean = FALSE]
<1>1. run[r] \in RunRec /\ RunInv(r)
  BY DEF IndexInv, Typed
<1>2. /\ k \in RunRec /\ k.pc = run[r].pc /\ k.towalk = run[r].towalk /\ k.seen = run[r].seen
      /\ k.queue = run[r].queue /\ k.parsing = run[r].parsing /\ k.jobs = run[r].jobs
      /\ k.batch = run[r].batch \ {j} /\ k.tx = run[r].tx /\ k.clean = FALSE
      /\ k.whole = run[r].whole /\ k.changed = run[r].changed /\ k.alone = run[r].alone
      /\ k.there = run[r].there
  BY <1>1 DEF RunRec, Steps, StoreFails
<1>3. run' \in [Runs -> RunRec] /\ run'[r] = k /\ \A q \in Runs \ {r} : run'[q] = run[q]
  BY <1>2, SetRun DEF IndexInv, StoreFails
<1> HIDE DEF k
<1>4. Typed' /\ HashVouches'
  BY <1>3 DEF IndexInv, Typed, HashVouches, StoreFails, links
<1>4a. NoDanglingLinks'
  BY <1>1, <1>2, <1>3, LinksStay DEF IndexInv, Owing, StoreFails, links
<1>5. RunInv(r)'
  BY IndexAssumption, <1>1, <1>2, <1>3 DEF StoreFails, RunInv, StepInv, ThereInv, AloneInv, UnderWay, CoverInv, Settled
<1>6. \A q \in Runs \ {r} : RunInv(q)'
  BY IndexAssumption, <1>3, OtherRun DEF StoreFails, None, IndexInv, RunInv, StepInv
<1> QED BY <1>4, <1>4a, <1>5, <1>6 DEF IndexInv

\* A transaction that is rolled back is an error of the run.
LEMMA CommitFailsStep ==
    ASSUME IndexInv, NEW r \in Runs, CommitFails(r)
    PROVE  IndexInv'
<1> DEFINE k == [run[r] EXCEPT !.pc = "parse", !.tx = {}, !.clean = FALSE]
<1>1. run[r] \in RunRec /\ RunInv(r)
  BY DEF IndexInv, Typed
<1>2. /\ k \in RunRec /\ k.pc = "parse" /\ k.towalk = run[r].towalk /\ k.seen = run[r].seen
      /\ k.queue = run[r].queue /\ k.parsing = run[r].parsing /\ k.jobs = run[r].jobs
      /\ k.batch = run[r].batch /\ k.tx = {} /\ k.clean = FALSE /\ k.whole = run[r].whole
      /\ k.changed = run[r].changed /\ k.alone = run[r].alone /\ k.there = run[r].there
  BY <1>1 DEF RunRec, Steps, CommitFails
<1>3. run' \in [Runs -> RunRec] /\ run'[r] = k /\ \A q \in Runs \ {r} : run'[q] = run[q]
  BY <1>2, SetRun DEF IndexInv, CommitFails
<1> HIDE DEF k
<1>4. Typed' /\ HashVouches'
  BY <1>3 DEF IndexInv, Typed, HashVouches, CommitFails, None, links
<1>4a. NoDanglingLinks'
  BY <1>1, <1>2, <1>3, LinksStay DEF IndexInv, Owing, CommitFails, None, links
<1>5. RunInv(r)'
  BY IndexAssumption, <1>1, <1>2, <1>3 DEF CommitFails, RunInv, StepInv, ThereInv, AloneInv, UnderWay, CoverInv, Settled, None
<1>6. \A q \in Runs \ {r} : RunInv(q)'
  BY IndexAssumption, <1>3, OtherRun DEF CommitFails, None, IndexInv, RunInv, StepInv
<1> QED BY <1>4, <1>4a, <1>5, <1>6 DEF IndexInv

\* A linking pass that fails is an error of the run.
LEMMA ResolveFailsStep ==
    ASSUME IndexInv, NEW r \in Runs, ResolveFails(r)
    PROVE  IndexInv'
<1> DEFINE k == [run[r] EXCEPT !.pc = "done", !.clean = FALSE]
<1>1. run[r] \in RunRec /\ RunInv(r)
  BY DEF IndexInv, Typed
<1>2. /\ k \in RunRec /\ k.pc = "done" /\ k.towalk = run[r].towalk /\ k.seen = run[r].seen
      /\ k.queue = run[r].queue /\ k.parsing = run[r].parsing /\ k.jobs = run[r].jobs
      /\ k.batch = run[r].batch /\ k.tx = run[r].tx /\ k.clean = FALSE /\ k.whole = run[r].whole
      /\ k.changed = run[r].changed /\ k.alone = run[r].alone /\ k.there = run[r].there
  BY <1>1 DEF RunRec, Steps, ResolveFails
<1>3. run' \in [Runs -> RunRec] /\ run'[r] = k /\ \A q \in Runs \ {r} : run'[q] = run[q]
  BY <1>2, SetRun DEF IndexInv, ResolveFails
<1> HIDE DEF k
<1>4. Typed' /\ HashVouches'
  BY <1>3 DEF IndexInv, Typed, HashVouches, ResolveFails, Stored, WorkersDone, links
<1>4a. NoDanglingLinks'
  BY <1>1, <1>2, <1>3, LinksStay DEF IndexInv, Owing, ResolveFails, Stored, WorkersDone, links
<1>5. RunInv(r)'
  BY IndexAssumption, <1>1, <1>2, <1>3 DEF ResolveFails, RunInv, StepInv, ThereInv, AloneInv, UnderWay, CoverInv, Settled, Stored, WorkersDone
<1>6. \A q \in Runs \ {r} : RunInv(q)'
  BY IndexAssumption, <1>3, OtherRun DEF ResolveFails, Stored, None, IndexInv, RunInv, StepInv
<1> QED BY <1>4, <1>4a, <1>5, <1>6 DEF IndexInv

\* A run that changed nothing is over when all its files are stored.
LEMMA NothingChangedStep ==
    ASSUME IndexInv, NEW r \in Runs, NothingChanged(r)
    PROVE  IndexInv'
<1> DEFINE k == [run[r] EXCEPT !.pc = "done"]
<1>1. run[r] \in RunRec /\ RunInv(r)
  BY DEF IndexInv, Typed
<1>2. /\ k \in RunRec /\ k.pc = "done" /\ k.towalk = run[r].towalk /\ k.seen = run[r].seen
      /\ k.queue = run[r].queue /\ k.parsing = run[r].parsing /\ k.jobs = run[r].jobs
      /\ k.batch = run[r].batch /\ k.tx = run[r].tx /\ k.clean = run[r].clean
      /\ k.whole = run[r].whole /\ k.changed = run[r].changed /\ k.alone = run[r].alone
      /\ k.there = run[r].there
  BY <1>1 DEF RunRec, Steps, NothingChanged
<1>3. run' \in [Runs -> RunRec] /\ run'[r] = k /\ \A q \in Runs \ {r} : run'[q] = run[q]
  BY <1>2, SetRun DEF IndexInv, NothingChanged
<1> HIDE DEF k
<1>4. Typed' /\ HashVouches'
  BY <1>3 DEF IndexInv, Typed, HashVouches, NothingChanged, Stored, WorkersDone, links
<1>4a. NoDanglingLinks'
  BY <1>1, <1>2, <1>3, LinksStay DEF IndexInv, Owing, NothingChanged, Stored, WorkersDone, links
<1>5. RunInv(r)'
  BY IndexAssumption, <1>1, <1>2, <1>3 DEF NothingChanged, RunInv, StepInv, ThereInv, AloneInv, UnderWay, CoverInv, Settled, Stored, WorkersDone
<1>6. \A q \in Runs \ {r} : RunInv(q)'
  BY IndexAssumption, <1>3, OtherRun DEF NothingChanged, Stored, None, IndexInv, RunInv, StepInv
<1> QED BY <1>4, <1>4a, <1>5, <1>6 DEF IndexInv

\* A run that is over is forgotten.
LEMMA ReturnStep ==
    ASSUME IndexInv, NEW r \in Runs, Return(r)
    PROVE  IndexInv'
<1> DEFINE k == Fresh
<1>1. run[r] \in RunRec /\ RunInv(r)
  BY DEF IndexInv, Typed
<1>2. /\ k \in RunRec /\ k.pc = "idle" /\ k.towalk = {} /\ k.seen = {} /\ k.queue = {}
      /\ k.parsing = {} /\ k.jobs = {} /\ k.batch = {} /\ k.tx = {} /\ k.clean = TRUE
      /\ k.whole = TRUE /\ k.changed = FALSE /\ k.alone = TRUE /\ k.there = {}
  BY FreshRun DEF Fresh
<1>3. run' \in [Runs -> RunRec] /\ run'[r] = k /\ \A q \in Runs \ {r} : run'[q] = run[q]
  BY <1>2, SetRun DEF IndexInv, Return
<1> HIDE DEF k
<1>4. Typed' /\ HashVouches'
  BY <1>3 DEF IndexInv, Typed, HashVouches, Return, links
<1>4a. NoDanglingLinks'
  BY <1>1, <1>2, <1>3, LinksStay DEF IndexInv, Owing, Return, links
<1>5. RunInv(r)'
  BY IndexAssumption, <1>1, <1>2, <1>3 DEF Return, RunInv, StepInv, ThereInv, AloneInv, UnderWay, CoverInv, Settled
<1>6. \A q \in Runs \ {r} : RunInv(q)'
  BY IndexAssumption, <1>3, OtherRun DEF Return, None, IndexInv, RunInv, StepInv
<1> QED BY <1>4, <1>4a, <1>5, <1>6 DEF IndexInv

\* A worker reads a file: hash and facts are of what it has read.
LEMMA ParseBeginStep ==
    ASSUME IndexInv, NEW r \in Runs, NEW f \in Files, ParseBegin(r, f)
    PROVE  IndexInv'
<1> DEFINE k == [run[r] EXCEPT !.queue = @ \ {f},
              !.parsing = @ \cup {[file |-> f, hash |-> disk[f], facts |-> disk[f]]}]
<1>1. run[r] \in RunRec /\ RunInv(r)
  BY DEF IndexInv, Typed
<1>2. /\ k \in RunRec /\ k.pc = run[r].pc /\ k.towalk = run[r].towalk /\ k.seen = run[r].seen
      /\ k.queue = run[r].queue \ {f}
      /\ k.parsing = run[r].parsing \cup {[file |-> f, hash |-> disk[f], facts |-> disk[f]]}
      /\ k.jobs = run[r].jobs /\ k.batch = run[r].batch /\ k.tx = run[r].tx
      /\ k.clean = run[r].clean /\ k.whole = run[r].whole /\ k.changed = run[r].changed
      /\ k.alone = run[r].alone /\ k.there = run[r].there
  <2>1. disk[f] \in Versions
    BY DEF ParseBegin, IndexInv, Typed
  <2>2. [file |-> f, hash |-> disk[f], facts |-> disk[f]] \in Parsed
    BY <2>1 DEF Parsed, Job
  <2> QED BY <1>1, <2>2 DEF RunRec
<1>3. run' \in [Runs -> RunRec] /\ run'[r] = k /\ \A q \in Runs \ {r} : run'[q] = run[q]
  BY <1>2, SetRun DEF IndexInv, ParseBegin
<1> HIDE DEF k
<1>4. Typed' /\ HashVouches'
  BY <1>3 DEF IndexInv, Typed, HashVouches, ParseBegin, links
<1>4a. NoDanglingLinks'
  BY <1>1, <1>2, <1>3, LinksStay DEF IndexInv, Owing, ParseBegin, links
<1>5. RunInv(r)'
  <2> DEFINE new == [file |-> f, hash |-> disk[f], facts |-> disk[f]]
  <2>1. new.file = f /\ new.facts = disk[f] /\ k.parsing = run[r].parsing \cup {new}
    BY <1>2
  <2> HIDE DEF new
  <2>2. UnderWay(r)' = UnderWay(r) \cup {new}
    BY <1>2, <1>3, <2>1 DEF UnderWay
  <2>3. StepInv(r)' /\ ThereInv(r)'
    BY <1>1, <1>2, <1>3 DEF ParseBegin, RunInv, StepInv, ThereInv
  <2>4. AloneInv(r)'
    BY <1>1, <1>2, <1>3, <2>1, <2>2 DEF ParseBegin, RunInv, AloneInv
  <2>5. CoverInv(r)'
    BY <1>1, <1>2, <1>3, <2>1, <2>2 DEF ParseBegin, RunInv, CoverInv, Settled
  <2> QED BY <2>3, <2>4, <2>5 DEF RunInv
<1>6. \A q \in Runs \ {r} : RunInv(q)'
  BY IndexAssumption, <1>3, OtherRun DEF ParseBegin, None, IndexInv, RunInv, StepInv
<1> QED BY <1>4, <1>4a, <1>5, <1>6 DEF IndexInv

\* A file that the walk meets is queued unless its hash, and so its facts, are
\* those of its content.
LEMMA WalkFileStep ==
    ASSUME IndexInv, NEW r \in Runs, NEW f \in Files, WalkFile(r, f)
    PROVE  IndexInv'
<1> DEFINE rest == [run[r] EXCEPT !.towalk = @ \ {f}]
           k == IF disk[f] = Absent THEN rest
                ELSE [rest EXCEPT !.seen = @ \cup {f},
                                  !.queue = IF IsFileChanged(f) THEN @ \cup {f} ELSE @]
<1>1. run[r] \in RunRec /\ RunInv(r)
  BY DEF IndexInv, Typed
<1>2. /\ k \in RunRec /\ k.pc = run[r].pc /\ k.towalk = run[r].towalk \ {f}
      /\ k.seen = IF disk[f] = Absent THEN run[r].seen ELSE run[r].seen \cup {f}
      /\ k.queue = IF disk[f] # Absent /\ IsFileChanged(f) THEN run[r].queue \cup {f} ELSE run[r].queue
      /\ k.parsing = run[r].parsing /\ k.jobs = run[r].jobs /\ k.batch = run[r].batch
      /\ k.tx = run[r].tx /\ k.clean = run[r].clean /\ k.whole = run[r].whole
      /\ k.changed = run[r].changed /\ k.alone = run[r].alone /\ k.there = run[r].there
  <2>1. /\ rest \in RunRec /\ rest.pc = run[r].pc /\ rest.towalk = run[r].towalk \ {f}
        /\ rest.seen = run[r].seen /\ rest.queue = run[r].queue
        /\ rest.parsing = run[r].parsing /\ rest.jobs = run[r].jobs /\ rest.batch = run[r].batch
        /\ rest.tx = run[r].tx /\ rest.clean = run[r].clean /\ rest.whole = run[r].whole
        /\ rest.changed = run[r].changed /\ rest.alone = run[r].alone /\ rest.there = run[r].there
    BY <1>1 DEF RunRec
  <2> HIDE DEF rest
  <2> QED BY <2>1 DEF RunRec
<1>3. run' \in [Runs -> RunRec] /\ run'[r] = k /\ \A q \in Runs \ {r} : run'[q] = run[q]
  <2>1. Set(r, k)
    BY DEF WalkFile
  <2> QED BY <1>2, <2>1, SetRun DEF IndexInv
<1> HIDE DEF k
<1>4. Typed' /\ HashVouches'
  BY <1>3 DEF IndexInv, Typed, HashVouches, WalkFile, links
<1>4a. NoDanglingLinks'
  BY <1>1, <1>2, <1>3, LinksStay DEF IndexInv, Owing, WalkFile, links
<1>5. disk[f] # Absent /\ ~IsFileChanged(f) => Settled(f)
  BY DEF IndexInv, HashVouches, IsFileChanged, Settled, Absent, NoHash
<1>6. RunInv(r)'
  <2>1. StepInv(r)' /\ ThereInv(r)' /\ AloneInv(r)'
    BY <1>1, <1>2, <1>3 DEF WalkFile, RunInv, StepInv, ThereInv, AloneInv, UnderWay
  <2>2. CoverInv(r)'
    <3> SUFFICES ASSUME run[r].alone, run[r].clean
                 PROVE  /\ run[r].whole
                        /\ \A g \in Files \ k.towalk : IF g \in k.seen THEN g \in k.queue \/ Settled(g)
                                                       ELSE disk[g] = Absent
      BY <1>2, <1>3 DEF CoverInv, WalkFile, Settled
    <3>1. /\ run[r].whole
          /\ \A g \in Files \ run[r].towalk : IF g \in run[r].seen THEN g \in run[r].queue \/ Settled(g)
                                              ELSE disk[g] = Absent
      BY <1>1 DEF RunInv, CoverInv, WalkFile
    <3>2. ASSUME NEW g \in Files \ k.towalk, g # f
          PROVE  IF g \in k.seen THEN g \in k.queue \/ Settled(g) ELSE disk[g] = Absent
      BY <1>2, <3>1, <3>2
    <3>3. IF f \in k.seen THEN f \in k.queue \/ Settled(f) ELSE disk[f] = Absent
      <4>1. CASE disk[f] = Absent
        BY <1>1, <1>2, <4>1 DEF RunInv, StepInv, WalkFile
      <4>2. CASE disk[f] # Absent
        BY <1>2, <1>5, <4>2
      <4> QED BY <4>1, <4>2
    <3> QED BY <3>1, <3>2, <3>3
  <2> QED BY <2>1, <2>2 DEF RunInv
<1>7. \A q \in Runs \ {r} : RunInv(q)'
  BY <1>3, OtherRun DEF WalkFile
<1> QED BY <1>4, <1>4a, <1>6, <1>7 DEF IndexInv

\* Opening clears the hashes of another extractor and begins with every file
\* still to be walked; no other run works alone from now on.
LEMMA OpIndexStep ==
    ASSUME IndexInv, NEW r \in Runs, OpIndex(r)
    PROVE  IndexInv'
<1> DEFINE full == extractor = "old"
           k == [Fresh EXCEPT !.pc = "walk", !.towalk = Files, !.changed = full,
                              !.there = {f \in Files : disk[f] # Absent},
                              !.alone = \A q \in Runs : run[q].pc = "idle"]
<1>1. /\ k \in RunRec /\ k.pc = "walk" /\ k.towalk = Files /\ k.seen = {} /\ k.parsing = {}
      /\ k.jobs = {} /\ k.batch = {} /\ k.tx = {} /\ k.whole
      /\ k.there = {f \in Files : disk[f] # Absent}
      /\ k.alone => \A q \in Runs : run[q].pc = "idle"
  BY DEF Fresh, RunRec, Steps
<1>2. /\ run' \in [Runs -> RunRec] /\ run'[r] = k
      /\ \A q \in Runs \ {r} : run'[q] = [run[q] EXCEPT !.alone = FALSE]
  BY <1>1, CommittedRun DEF IndexInv, OpIndex
<1> HIDE DEF k
<1>3. rows' \in [Files -> Row] /\ \A f \in Files : /\ rows'[f].facts = rows[f].facts
                                                   /\ rows'[f].hash \in {NoHash, rows[f].hash}
  <2>1. \A f \in Files : rows[f] \in Row
    BY DEF IndexInv, Typed
  <2>2. rows' = IF full THEN [f \in Files |-> [rows[f] EXCEPT !.hash = NoHash]] ELSE rows
    BY DEF OpIndex
  <2>3. \A f \in Files : LET new == [rows[f] EXCEPT !.hash = NoHash]
                         IN  new \in Row /\ new.facts = rows[f].facts /\ new.hash = NoHash
    BY <2>1 DEF Row
  <2>4. CASE full
    BY <2>2, <2>3, <2>4
  <2>5. CASE ~full
    BY <2>2, <2>5 DEF IndexInv, Typed
  <2> QED BY <2>4, <2>5
<1>4. Typed' /\ HashVouches'
  BY <1>2, <1>3 DEF IndexInv, Typed, HashVouches, OpIndex, links
<1>4a. NoDanglingLinks'
  <2>1. \A q \in Runs : Owing(q) => q # r /\ Owing(q)'
    BY <1>2 DEF Owing, OpIndex, IndexInv, Typed, RunRec
  <2> QED BY <1>3, <2>1, LinksStay DEF OpIndex, links
<1>5. RunInv(r)'
  <2>1. \A q \in Runs \ {r} : run'[q].pc = run[q].pc
    BY <1>2 DEF IndexInv, Typed, RunRec
  <2>2. StepInv(r)' /\ ThereInv(r)'
    BY IndexAssumption, <1>1, <1>2 DEF OpIndex, StepInv, ThereInv, None
  <2>3. AloneInv(r)'
    BY <1>1, <1>2, <2>1 DEF AloneInv, UnderWay
  <2>4. CoverInv(r)'
    BY <1>1, <1>2 DEF CoverInv
  <2> QED BY <2>2, <2>3, <2>4 DEF RunInv
<1>6. \A q \in Runs \ {r} : RunInv(q)'
  BY <1>2, OtherRun DEF OpIndex
<1> QED BY <1>4, <1>4a, <1>5, <1>6 DEF IndexInv

\* The purge takes rows and links together, and only of files the walk has not
\* seen; when another transaction keeps it from doing so, the run has an error.
LEMMA PurgeStaleFilesStep ==
    ASSUME IndexInv, NEW r \in Runs, PurgeStaleFiles(r)
    PROVE  IndexInv'
<1> DEFINE stale == Stale(r)
           blocked == stale # {} /\ writer # None
           k == IF blocked THEN [run[r] EXCEPT !.pc = "parse", !.clean = FALSE]
                ELSE [run[r] EXCEPT !.pc = "parse", !.changed = @ \/ stale # {}]
<1>1. run[r] \in RunRec /\ RunInv(r) /\ run[r].pc = "walk" /\ run[r].towalk = {}
  BY DEF IndexInv, Typed, PurgeStaleFiles
<1>2. /\ k \in RunRec /\ k.pc = "parse" /\ k.towalk = run[r].towalk
      /\ k.seen = run[r].seen /\ k.queue = run[r].queue
      /\ k.parsing = run[r].parsing /\ k.jobs = run[r].jobs /\ k.batch = run[r].batch
      /\ k.tx = run[r].tx /\ k.whole = run[r].whole
      /\ k.alone = run[r].alone /\ k.there = run[r].there
      /\ k.clean => run[r].clean /\ ~blocked
      /\ run[r].changed => k.changed
      /\ ~blocked /\ stale # {} => k.changed
  <2>1. ASSUME NEW b \in BOOLEAN
        PROVE  LET m == [run[r] EXCEPT !.pc = "parse", !.changed = b]
               IN  /\ m \in RunRec /\ m.pc = "parse" /\ m.towalk = run[r].towalk
                   /\ m.seen = run[r].seen /\ m.queue = run[r].queue
                   /\ m.parsing = run[r].parsing /\ m.jobs = run[r].jobs /\ m.batch = run[r].batch
                   /\ m.tx = run[r].tx /\ m.whole = run[r].whole /\ m.clean = run[r].clean
                   /\ m.alone = run[r].alone /\ m.there = run[r].there /\ m.changed = b
    BY <1>1 DEF RunRec, Steps
  <2>2. LET m == [run[r] EXCEPT !.pc = "parse", !.clean = FALSE]
        IN  /\ m \in RunRec /\ m.pc = "parse" /\ m.towalk = run[r].towalk
            /\ m.seen = run[r].seen /\ m.queue = run[r].queue
            /\ m.parsing = run[r].parsing /\ m.jobs = run[r].jobs /\ m.batch = run[r].batch
            /\ m.tx = run[r].tx /\ m.whole = run[r].whole /\ m.clean = FALSE
            /\ m.alone = run[r].alone /\ m.there = run[r].there /\ m.changed = run[r].changed
    BY <1>1 DEF RunRec, Steps
  <2>3. (run[r].changed \/ stale # {}) \in BOOLEAN
    OBVIOUS
  <2> QED BY <2>1, <2>2, <2>3
<1>3. /\ run' \in [Runs -> RunRec] /\ run'[r] = k
      /\ \A q \in Runs \ {r} : run'[q] \in {run[q], [run[q] EXCEPT !.alone = FALSE]}
  <2>1. Set(r, k) \/ Committed(r, k)
    BY DEF PurgeStaleFiles, Purged
  <2>2. CASE Set(r, k)
    BY <1>2, <2>2, SetRun DEF IndexInv
  <2>3. CASE Committed(r, k)
    BY <1>2, <2>3, CommittedRun DEF IndexInv
  <2> QED BY <2>1, <2>2, <2>3
<1>4. \/ rows' = rows /\ UNCHANGED links /\ (blocked \/ stale = {})
      \/ /\ ~blocked /\ stale # {} /\ Cascade(stale)
         /\ rows' = [f \in Files |-> IF f \in stale THEN NoRow ELSE rows[f]]
  BY DEF PurgeStaleFiles
<1>5. stale \subseteq Files \ run[r].seen /\ (run[r].whole => \A f \in Files \ run[r].seen : f \in stale \/ rows[f] = NoRow)
  BY DEF Stale
<1> HIDE DEF k, stale
<1>6. Typed' /\ HashVouches'
  <2>1. NoRow \in Row /\ NoRow.hash = NoHash /\ NoRow.facts = Absent
    BY DEF NoRow, Row
  <2>2. rows' \in [Files -> Row] /\ HashVouches'
    BY <1>4, <2>1 DEF IndexInv, Typed, HashVouches
  <2>3. UNCHANGED <<linked, spoiled>> /\ candidates' \subseteq candidates /\ edges' \subseteq edges
    BY <1>4 DEF Cascade, links
  <2> QED BY <1>3, <2>2, <2>3 DEF IndexInv, Typed, PurgeStaleFiles
<1>6a. NoDanglingLinks'
  <2>1. \A q \in Runs : Owing(q) => Owing(q)'
    BY <1>1, <1>2, <1>3 DEF Owing, IndexInv, Typed, RunRec
  <2>2. CASE rows' = rows /\ UNCHANGED links
    BY <2>1, <2>2, LinksStay DEF links
  <2>3. CASE /\ ~blocked /\ stale # {} /\ Cascade(stale)
             /\ rows' = [f \in Files |-> IF f \in stale THEN NoRow ELSE rows[f]]
    <3>1. Owing(r)'
      BY <1>2, <1>3, <2>3 DEF Owing
    <3>2. \A f \in Files \ stale : rows'[f] = rows[f]
      BY <2>3
    <3> QED BY <2>3, <3>1, <3>2, CascadeKeeps
  <2> QED BY <1>4, <2>2, <2>3
<1>7. RunInv(r)'
  <2>1. StepInv(r)' /\ ThereInv(r)'
    BY <1>1, <1>2, <1>3 DEF PurgeStaleFiles, RunInv, StepInv, ThereInv
  <2>2. AloneInv(r)'
    <3>1. \A q \in Runs \ {r} : run'[q].pc = run[q].pc
      BY <1>3 DEF IndexInv, Typed, RunRec
    <3> QED BY <1>1, <1>2, <1>3, <3>1 DEF PurgeStaleFiles, RunInv, AloneInv, UnderWay
  <2>3. CoverInv(r)'
    <3> SUFFICES ASSUME run[r].alone, k.clean
                 PROVE  run[r].whole /\ \A f \in Files : f \in run[r].queue \/ Settled(f)'
      BY <1>2, <1>3 DEF CoverInv
    <3>1. run[r].whole /\ run[r].clean /\ ~blocked
      BY <1>1, <1>2 DEF RunInv, CoverInv
    <3>2. ASSUME NEW f \in Files, f \in run[r].seen PROVE f \in run[r].queue \/ Settled(f)'
      <4>1. f \in run[r].queue \/ Settled(f)
        BY <1>1, <3>1, <3>2 DEF RunInv, CoverInv
      <4>2. rows'[f] = rows[f] /\ disk' = disk
        BY <1>4, <1>5, <3>2 DEF PurgeStaleFiles, IndexInv, Typed
      <4> QED BY <4>1, <4>2 DEF Settled
    <3>3. ASSUME NEW f \in Files, f \notin run[r].seen PROVE Settled(f)'
      <4>1. disk[f] = Absent /\ disk' = disk
        BY <1>1, <3>1, <3>3 DEF RunInv, CoverInv, PurgeStaleFiles
      <4>2. rows'[f] = NoRow
        BY <1>4, <1>5, <3>1, <3>3
      <4> QED BY <4>1, <4>2 DEF Settled, NoRow
    <3> QED BY <3>1, <3>2, <3>3
  <2> QED BY <2>1, <2>2, <2>3 DEF RunInv
<1>8. \A q \in Runs \ {r} : RunInv(q)'
  BY <1>1, <1>3, OtherRun DEF PurgeStaleFiles
<1> QED BY <1>6, <1>6a, <1>7, <1>8 DEF IndexInv

\* A batch takes the write lock, or is an error of the run when another
\* transaction holds it.
LEMMA FlushBatchStep ==
    ASSUME IndexInv, NEW r \in Runs, FlushBatch(r)
    PROVE  IndexInv'
<1>1. run[r] \in RunRec /\ RunInv(r) /\ run[r].pc = "parse"
  BY DEF IndexInv, Typed, FlushBatch
<1>2. PICK batch \in SUBSET run[r].jobs \ {{}} :
         LET rest == [run[r] EXCEPT !.jobs = @ \ batch] IN
         IF writer = None
         THEN writer' = r /\ Set(r, [rest EXCEPT !.pc = "store", !.batch = batch])
         ELSE Set(r, [rest EXCEPT !.clean = FALSE]) /\ UNCHANGED writer
  BY DEF FlushBatch
<1> DEFINE rest == [run[r] EXCEPT !.jobs = @ \ batch]
           k == IF writer = None THEN [rest EXCEPT !.pc = "store", !.batch = batch]
                ELSE [rest EXCEPT !.clean = FALSE]
<1>3. batch \subseteq run[r].jobs /\ batch \subseteq Parsed
  BY <1>1, <1>2 DEF RunRec
<1>4. /\ k \in RunRec /\ k.pc = (IF writer = None THEN "store" ELSE "parse")
      /\ k.towalk = run[r].towalk /\ k.seen = run[r].seen /\ k.queue = run[r].queue
      /\ k.parsing = run[r].parsing /\ k.jobs = run[r].jobs \ batch
      /\ k.batch = (IF writer = None THEN batch ELSE run[r].batch) /\ k.tx = run[r].tx
      /\ k.clean = (writer = None /\ run[r].clean) /\ k.whole = run[r].whole
      /\ k.alone = run[r].alone /\ k.there = run[r].there /\ k.changed = run[r].changed
  <2>1. /\ rest \in RunRec /\ rest.pc = "parse" /\ rest.towalk = run[r].towalk
        /\ rest.seen = run[r].seen /\ rest.queue = run[r].queue
        /\ rest.parsing = run[r].parsing /\ rest.jobs = run[r].jobs \ batch
        /\ rest.batch = run[r].batch /\ rest.tx = run[r].tx /\ rest.clean = run[r].clean
        /\ rest.whole = run[r].whole /\ rest.alone = run[r].alone /\ rest.there = run[r].there
        /\ rest.changed = run[r].changed
    BY <1>1 DEF RunRec
  <2> HIDE DEF rest
  <2>2. CASE writer = None
    BY <1>3, <2>1, <2>2 DEF RunRec, Steps
  <2>3. CASE writer # None
    BY <2>1, <2>3 DEF RunRec
  <2> QED BY <2>2, <2>3
<1>5. Set(r, k) /\ writer' = (IF writer = None THEN r ELSE writer)
  BY <1>2
<1>6. run' \in [Runs -> RunRec] /\ run'[r] = k /\ \A q \in Runs \ {r} : run'[q] = run[q]
  BY <1>4, <1>5, SetRun DEF IndexInv
<1>7. disk' = disk /\ rows' = rows /\ UNCHANGED <<linked, candidates, edges, spoiled>>
  BY DEF FlushBatch, links
<1> HIDE DEF k
<1>8. Typed' /\ HashVouches'
  BY <1>5, <1>6, <1>7 DEF IndexInv, Typed, HashVouches
<1>8a. NoDanglingLinks'
  <2>1. \A q \in Runs : Owing(q) => Owing(q)'
    BY <1>1, <1>4, <1>6 DEF Owing
  <2> QED BY <1>7, <2>1, LinksStay
<1>9. RunInv(r)'
  <2>1. StepInv(r)'
    BY <1>1, <1>4, <1>5, <1>6 DEF RunInv, StepInv
  <2>2. ThereInv(r)'
    BY <1>1, <1>4, <1>6, <1>7 DEF RunInv, ThereInv
  <2>3. UnderWay(r)' \subseteq UnderWay(r) /\ (writer = None => UnderWay(r)' = UnderWay(r))
    BY <1>1, <1>3, <1>4, <1>6 DEF RunInv, StepInv, UnderWay
  <2>4. AloneInv(r)'
    BY <1>1, <1>4, <1>6, <1>7, <2>3 DEF RunInv, AloneInv
  <2>5. CoverInv(r)'
    <3> SUFFICES ASSUME run[r].alone, run[r].clean, writer = None
                 PROVE  /\ run[r].whole
                        /\ \A f \in Files : \/ f \in run[r].queue \/ Settled(f)'
                                            \/ \E j \in UnderWay(r)' : j.file = f
      BY <1>4, <1>6 DEF CoverInv
    <3>1. \A f \in Files : Settled(f)' <=> Settled(f)
      BY <1>7 DEF Settled
    <3> QED BY <1>1, <2>3, <3>1 DEF RunInv, CoverInv
  <2> QED BY <2>1, <2>2, <2>4, <2>5 DEF RunInv
<1>10. \A q \in Runs \ {r} : RunInv(q)'
  <2>1. ASSUME NEW q \in Runs \ {r} PROVE writer' = q <=> writer = q
    BY IndexAssumption, <1>5 DEF None
  <2> QED BY <1>1, <1>6, <1>7, <2>1, OtherRun
<1> QED BY <1>8, <1>8a, <1>9, <1>10 DEF IndexInv

\* A commit replaces the rows of the stored files by what was parsed; candidates
\* and edges of calls go with the old rows, and the run is now to link.
LEMMA CommitStep ==
    ASSUME IndexInv, NEW r \in Runs, Commit(r)
    PROVE  IndexInv'
<1> DEFINE tx == run[r].tx
           of(f) == CHOOSE j \in tx : j.file = f
           in(f) == \E j \in tx : j.file = f
           k == [run[r] EXCEPT !.pc = "parse", !.tx = {}, !.changed = @ \/ tx # {}]
<1>1. run[r] \in RunRec /\ RunInv(r) /\ run[r].pc = "store" /\ run[r].batch = {}
  BY DEF IndexInv, Typed, Commit
<1>2. tx \subseteq Parsed
  BY <1>1 DEF RunRec
<1>3. \A f \in Files : in(f) => of(f) \in tx /\ of(f).file = f
  OBVIOUS
<1>4. /\ k \in RunRec /\ k.pc = "parse" /\ k.towalk = run[r].towalk /\ k.seen = run[r].seen
      /\ k.queue = run[r].queue /\ k.parsing = run[r].parsing /\ k.jobs = run[r].jobs
      /\ k.batch = run[r].batch /\ k.tx = {} /\ k.clean = run[r].clean /\ k.whole = run[r].whole
      /\ k.alone = run[r].alone /\ k.there = run[r].there /\ (run[r].changed \/ tx # {} => k.changed)
  <2>1. (run[r].changed \/ tx # {}) \in BOOLEAN
    OBVIOUS
  <2> QED BY <1>1, <2>1 DEF RunRec, Steps
<1>5. /\ run' \in [Runs -> RunRec] /\ run'[r] = k
      /\ \A q \in Runs \ {r} : run'[q] = [run[q] EXCEPT !.alone = FALSE]
  BY <1>4, CommittedRun DEF IndexInv, Commit
<1>6. /\ rows' = [f \in Files |-> IF in(f) THEN [hash |-> of(f).hash, facts |-> of(f).facts] ELSE rows[f]]
      /\ Cascade({j.file : j \in tx}) /\ disk' = disk /\ writer' = None
  BY DEF Commit
<1>7. ASSUME NEW f \in Files, in(f)
      PROVE  /\ rows'[f] \in Row /\ rows'[f].hash = rows'[f].facts
             /\ run[r].alone => rows'[f].facts = disk[f]
  <2>1. of(f) \in tx /\ of(f) \in Parsed /\ of(f).file = f
    BY <1>2, <1>3, <1>7
  <2> HIDE DEF of
  <2>2. of(f).hash \in Versions /\ of(f).facts \in Versions /\ of(f).hash = of(f).facts
    BY <2>1 DEF Parsed, Job
  <2>3. run[r].alone => of(f).facts = disk[f]
    BY <1>1, <2>1 DEF RunInv, AloneInv, UnderWay
  <2> QED BY <1>6, <1>7, <2>2, <2>3 DEF Row
<1>8. ASSUME NEW f \in Files, ~in(f)
      PROVE  rows'[f] = rows[f]
  BY <1>6, <1>8
<1>8a. \A f \in Files \ {j.file : j \in tx} : ~in(f)
  OBVIOUS
<1> HIDE DEF k, of, in
<1>9. Typed' /\ HashVouches'
  <2>1. UNCHANGED <<linked, spoiled>> /\ candidates' \subseteq candidates /\ edges' \subseteq edges
    BY <1>6 DEF Cascade
  <2>2. Typed'
    BY <1>5, <1>6, <1>7, <1>8, <2>1 DEF IndexInv, Typed
  <2>3. HashVouches'
    BY <1>7, <1>8 DEF IndexInv, HashVouches
  <2> QED BY <2>2, <2>3
<1>9a. NoDanglingLinks'
  <2>1. \A q \in Runs : Owing(q) => Owing(q)'
    BY <1>1, <1>4, <1>5 DEF Owing, IndexInv, Typed, RunRec
  <2>2. CASE tx = {}
    <3>1. \A f \in Files : rows'[f] = rows[f]
      BY <1>8, <1>8a, <2>2
    <3>2. UNCHANGED <<linked, candidates, edges, spoiled>>
      BY <1>6, <2>2 DEF Cascade
    <3> QED BY <2>1, <3>1, <3>2, LinksStay
  <2>3. CASE tx # {}
    <3>1. Owing(r)'
      BY <1>4, <1>5, <2>3 DEF Owing
    <3>2. \A f \in Files \ {j.file : j \in tx} : rows'[f] = rows[f]
      BY <1>8, <1>8a
    <3> QED BY <1>6, <3>1, <3>2, CascadeKeeps
  <2> QED BY <2>2, <2>3
<1>10. RunInv(r)'
  <2>1. StepInv(r)'
    BY IndexAssumption, <1>1, <1>4, <1>5, <1>6 DEF RunInv, StepInv, None
  <2>2. ThereInv(r)'
    BY <1>1, <1>4, <1>5, <1>6 DEF RunInv, ThereInv
  <2>3. UnderWay(r) = UnderWay(r)' \cup tx
    BY <1>1, <1>4, <1>5 DEF UnderWay
  <2>4. AloneInv(r)'
    <3>1. \A q \in Runs \ {r} : run'[q].pc = run[q].pc
      BY <1>5 DEF IndexInv, Typed, RunRec
    <3> QED BY <1>1, <1>4, <1>5, <1>6, <2>3, <3>1 DEF RunInv, AloneInv
  <2>5. CoverInv(r)'
    <3> SUFFICES ASSUME run[r].alone, run[r].clean
                 PROVE  /\ run[r].whole
                        /\ \A f \in Files : \/ f \in run[r].queue \/ Settled(f)'
                                            \/ \E j \in UnderWay(r)' : j.file = f
      BY <1>4, <1>5 DEF CoverInv
    <3>1. /\ run[r].whole
          /\ \A f \in Files : f \in run[r].queue \/ (\E j \in UnderWay(r) : j.file = f) \/ Settled(f)
      BY <1>1 DEF RunInv, CoverInv
    <3>2. \A f \in Files : in(f) => Settled(f)'
      BY <1>6, <1>7 DEF Settled
    <3>3. \A f \in Files : ~in(f) /\ Settled(f) => Settled(f)'
      BY <1>6, <1>8 DEF Settled
    <3>4. \A f \in Files : ~in(f) /\ (\E j \in UnderWay(r) : j.file = f) => \E j \in UnderWay(r)' : j.file = f
      BY <2>3 DEF in
    <3> QED BY <3>1, <3>2, <3>3, <3>4
  <2> QED BY <2>1, <2>2, <2>4, <2>5 DEF RunInv
<1>11. \A q \in Runs \ {r} : RunInv(q)'
  <2>1. writer = r
    BY <1>1 DEF RunInv, StepInv
  <2>2. ASSUME NEW q \in Runs \ {r} PROVE writer' = q <=> writer = q
    BY IndexAssumption, <1>6, <2>1 DEF None
  <2> QED BY <1>5, <1>6, <2>2, OtherRun
<1> QED BY <1>9, <1>9a, <1>10, <1>11 DEF IndexInv

\* The links are made from the rows as they are; a run that works alone, without
\* an error and with nothing under way, makes them from the tree.
LEMMA ResolveCallCandidatesStep ==
    ASSUME IndexInv, NEW r \in Runs, ResolveCallCandidates(r)
    PROVE  IndexInv'
<1> DEFINE k == [run[r] EXCEPT !.pc = "done"]
<1>1. /\ run[r] \in RunRec /\ RunInv(r) /\ run[r].pc = "parse" /\ run[r].queue = {}
      /\ run[r].parsing = {} /\ run[r].jobs = {}
  BY DEF IndexInv, Typed, ResolveCallCandidates, Stored, WorkersDone
<1>2. /\ k \in RunRec /\ k.pc = "done" /\ k.towalk = run[r].towalk /\ k.seen = run[r].seen
      /\ k.queue = run[r].queue /\ k.parsing = run[r].parsing /\ k.jobs = run[r].jobs
      /\ k.batch = run[r].batch /\ k.tx = run[r].tx /\ k.clean = run[r].clean
      /\ k.whole = run[r].whole /\ k.alone = run[r].alone /\ k.there = run[r].there
  BY <1>1 DEF RunRec, Steps
<1>3. /\ run' \in [Runs -> RunRec] /\ run'[r] = k
      /\ \A q \in Runs \ {r} : run'[q] = [run[q] EXCEPT !.alone = FALSE]
  BY <1>2, CommittedRun DEF ResolveCallCandidates, IndexInv
<1>4. /\ disk' = disk /\ rows' = rows /\ writer' = writer /\ spoiled' = FALSE
      /\ linked' = [f \in Files |-> rows[f].facts]
      /\ candidates' = Pairs(linked') /\ edges' = Pairs(linked')
  BY DEF ResolveCallCandidates
<1> HIDE DEF k
<1>4a. candidates' \subseteq Files \X Files /\ edges' \subseteq Files \X Files
  BY <1>4, PairsOfFiles
<1>5. Typed' /\ HashVouches' /\ NoDanglingLinks'
  <2>1. \A f \in Files : rows[f].facts \in Versions \cup {Absent}
    BY DEF IndexInv, Typed, Row
  <2>2. Typed' /\ HashVouches'
    BY <1>3, <1>4, <1>4a, <2>1 DEF IndexInv, Typed, HashVouches
  <2>3. \A f \in Files : Current(f)'
    BY <1>4 DEF Current
  <2>4. NoDanglingLinks'
    BY <1>4a, <2>3 DEF NoDanglingLinks
  <2> QED BY <2>2, <2>4
<1>6. RunInv(r)'
  <2>1. StepInv(r)' /\ ThereInv(r)'
    BY <1>1, <1>2, <1>3, <1>4 DEF RunInv, StepInv, ThereInv
  <2>2. UnderWay(r) = {} /\ UnderWay(r)' = {}
    BY <1>1, <1>2, <1>3 DEF RunInv, StepInv, UnderWay
  <2>3. AloneInv(r)'
    <3>1. \A q \in Runs \ {r} : run'[q].pc = run[q].pc
      BY <1>3 DEF IndexInv, Typed, RunRec
    <3> QED BY <1>1, <1>2, <1>3, <2>2, <3>1 DEF RunInv, AloneInv
  <2>4. CoverInv(r)'
    <3> SUFFICES ASSUME run[r].alone, k.clean
                 PROVE  run[r].whole /\ (\A f \in Files : Settled(f)') /\ linked' = disk'
      BY <1>2, <1>3, <1>4 DEF CoverInv
    <3>1. run[r].whole /\ \A f \in Files : Settled(f)
      BY <1>1, <1>2, <2>2 DEF RunInv, CoverInv
    <3>2. linked' = disk'
      BY <1>2, <1>4, <3>1 DEF Settled, IndexInv, Typed
    <3> QED BY <1>4, <3>1, <3>2 DEF Settled
  <2> QED BY <2>1, <2>3, <2>4 DEF RunInv
<1>7. \A q \in Runs \ {r} : RunInv(q)'
  BY <1>1, <1>3, <1>4, OtherRun
<1> QED BY <1>5, <1>6, <1>7 DEF IndexInv

-----------------------------------------------------------------------------
\* A crash forgets the runs and rolls back what they had not committed.
LEMMA CrashStep == IndexInv /\ Crash => IndexInv'
<1> SUFFICES ASSUME IndexInv, Crash PROVE IndexInv'
  OBVIOUS
<1>1. Typed' /\ HashVouches'
  BY FreshRun DEF IndexInv, Typed, HashVouches, Crash
<1>1a. NoDanglingLinks'
  BY LinksStay DEF Crash
<1>2. \A r \in Runs : RunInv(r)'
  BY FreshRun, IndexAssumption DEF Crash, RunInv, StepInv, ThereInv, AloneInv, CoverInv, None
<1> QED BY <1>1, <1>1a, <1>2 DEF IndexInv

\* After an edit no run works alone, and a removed file was not there all the time.
LEMMA EditStep ==
    ASSUME IndexInv, NEW f \in Files, NEW v \in Versions \cup {Absent}, Edit(f, v)
    PROVE  IndexInv'
<1>1. disk' = [disk EXCEPT ![f] = v] /\ UNCHANGED <<rows, linked, candidates, edges, spoiled, writer>>
  BY DEF Edit, links
<1>2. ASSUME NEW r \in Runs
      PROVE  /\ run'[r] \in RunRec /\ run'[r].pc = run[r].pc /\ run'[r].towalk = run[r].towalk
             /\ run'[r].seen = run[r].seen /\ run'[r].parsing = run[r].parsing
             /\ run'[r].jobs = run[r].jobs /\ run'[r].batch = run[r].batch /\ run'[r].tx = run[r].tx
             /\ run'[r].whole = run[r].whole /\ run'[r].alone = FALSE
             /\ run'[r].changed = run[r].changed
             /\ run'[r].there = IF v = Absent THEN run[r].there \ {f} ELSE run[r].there
  <2>1. run[r] \in RunRec
    BY DEF IndexInv, Typed
  <2>2. run'[r] = [run[r] EXCEPT !.alone = FALSE, !.there = IF v = Absent THEN @ \ {f} ELSE @]
    BY DEF Edit
  <2> QED BY <2>1, <2>2 DEF RunRec
<1>3. Typed'
  <2>1. run' \in [Runs -> RunRec]
    BY <1>2 DEF Edit
  <2> QED BY <1>1, <2>1 DEF IndexInv, Typed
<1>4. HashVouches' /\ NoDanglingLinks'
  <2>1. \A r \in Runs : Owing(r) => Owing(r)'
    BY <1>2 DEF Owing
  <2> QED BY <1>1, <2>1, LinksStay DEF IndexInv, HashVouches
<1>5. ASSUME NEW r \in Runs PROVE RunInv(r)'
  <2>1. RunInv(r)
    BY DEF IndexInv
  <2>2. StepInv(r)'
    BY <1>1, <1>2, <2>1 DEF RunInv, StepInv
  <2>3. ThereInv(r)'
    <3>1. \A g \in run'[r].there : g \in run[r].there /\ g \in Files /\ (g = f => v # Absent)
      BY <1>2 DEF RunRec
    <3>2. \A g \in Files : disk'[g] = IF g = f THEN v ELSE disk[g]
      BY <1>1 DEF IndexInv, Typed
    <3> QED BY <1>2, <2>1, <3>1, <3>2 DEF RunInv, ThereInv
  <2>4. AloneInv(r)' /\ CoverInv(r)'
    BY <1>2 DEF AloneInv, CoverInv
  <2> QED BY <2>2, <2>3, <2>4 DEF RunInv
<1> QED BY <1>3, <1>4, <1>5 DEF IndexInv

\* A step that changes neither the tree, the tables, the lock nor the runs.
LEMMA Unchanged == IndexInv /\ UNCHANGED <<disk, rows, links, writer, run>> => IndexInv'
  BY DEF IndexInv, Typed, HashVouches, NoDanglingLinks, RunInv, StepInv, ThereInv, AloneInv, CoverInv,
         UnderWay, Settled, Current, Owing, links

\* Every step preserves the invariant.
LEMMA NextOK == IndexInv /\ [Next]_vars => IndexInv'
<1> SUFFICES ASSUME IndexInv, [Next]_vars PROVE IndexInv'
  OBVIOUS
<1>1. CASE UNCHANGED vars \/ ValidateAndOpenDB
  BY <1>1, Unchanged DEF vars, ValidateAndOpenDB
<1>2. CASE Crash
  BY <1>2, CrashStep
<1>3. CASE \E f \in Files, v \in Versions \cup {Absent} : Edit(f, v)
  BY <1>3, EditStep
<1>4. ASSUME NEW r \in Runs,
             \/ OpIndex(r) \/ PurgeStaleFiles(r) \/ FlushBatch(r) \/ Commit(r) \/ CommitFails(r)
             \/ ResolveCallCandidates(r) \/ ResolveFails(r) \/ NothingChanged(r) \/ Return(r)
      PROVE  IndexInv'
  BY <1>4, OpIndexStep, PurgeStaleFilesStep, FlushBatchStep, CommitStep, CommitFailsStep,
     ResolveCallCandidatesStep, ResolveFailsStep, NothingChangedStep, ReturnStep
<1>5. ASSUME NEW r \in Runs, NEW f \in Files,
             WalkFile(r, f) \/ WalkError(r, f) \/ ParseBegin(r, f) \/ ReadFails(r, f)
      PROVE  IndexInv'
  BY <1>5, WalkFileStep, WalkErrorStep, ParseBeginStep, ReadFailsStep
<1>6. ASSUME NEW r \in Runs, NEW j \in Job,
             ParseDone(r, j) \/ ParseFails(r, j) \/ StoreParseResult(r, j) \/ StoreFails(r, j)
      PROVE  IndexInv'
  BY <1>6, ParseDoneStep, ParseFailsStep, StoreParseResultStep, StoreFailsStep
<1> QED BY <1>1, <1>2, <1>3, <1>4, <1>5, <1>6 DEF Next

\* The invariant holds in every reachable state of the index.
THEOREM IndexInvariant == Spec => []IndexInv
<1>1. Init => IndexInv
  BY InitOK
<1>2. IndexInv /\ [Next]_vars => IndexInv'
  BY NextOK
<1> QED BY <1>1, <1>2, PTL DEF Spec

\* A stored hash always vouches for the stored facts, so that a file skipped by
\* isFileChanged has the facts of its content.
THEOREM HashesVouch == Spec => []HashVouches
<1>1. IndexInv => HashVouches
  BY DEF IndexInv
<1> QED BY <1>1, IndexInvariant, PTL

\* No candidate outlives the call or the symbol it joins, no edge the call it
\* comes from, and an edge outlives the symbol it leads to only while a run is
\* still to link or after one that was killed or failed before it had linked.
THEOREM LinksDoNotDangle == Spec => []NoDanglingLinks
<1>1. IndexInv => NoDanglingLinks
  BY DEF IndexInv
<1> QED BY <1>1, IndexInvariant, PTL

\* An index call that reports no error and worked alone leaves the facts of
\* exactly the files that are there, and links made from them.
THEOREM RunsCover == Spec => []RunCovers
<1>1. IndexInv => RunCovers
  BY DEF IndexInv, RunInv, CoverInv, RunCovers, Settled
<1> QED BY <1>1, IndexInvariant, PTL

\* A run never purges a file that was there all the time it ran.
THEOREM PurgesAreRight == Spec => NoFalsePurge
<1>1. ASSUME IndexInv, NEW r \in Runs, PurgeStaleFiles(r), NEW f \in run[r].there, rows[f] # NoRow
      PROVE  rows'[f] # NoRow
  <2>1. run[r] \in RunRec /\ ThereInv(r) /\ run[r].pc = "walk" /\ run[r].towalk = {}
    BY <1>1 DEF IndexInv, Typed, RunInv, PurgeStaleFiles
  <2>2. f \in Files
    BY <1>1, <2>1 DEF RunRec
  <2>3. f \notin Stale(r)
    BY <1>1, <2>1 DEF ThereInv, Stale
  <2> QED BY <1>1, <2>2, <2>3 DEF PurgeStaleFiles
<1>2. IndexInv => [\A r \in Runs : PurgeStaleFiles(r) =>
                     \A f \in run[r].there : rows[f] # NoRow => rows'[f] # NoRow]_vars
  BY <1>1
<1> QED BY <1>2, IndexInvariant, PTL DEF NoFalsePurge
=============================================================================
