# A verification project for AgentTool

AgentTool is a Go server that offers some sixty tools (shell, files, SSH,
messages between agent sessions, debugging, memory inspection, code index, ...)
to an agent over the Model Context Protocol.  Tool calls run concurrently, each
in a goroutine, and several tools keep state between calls: pools of shells and
connections, mailboxes, background jobs, indexes and files on disk.  Those parts
are where an interleaving, a timeout or a failure that no test drives can do
harm, and they are what this project models.

Every module is a translation of the Go code; `PROJECT.json` maps each
definition to the lines it stands for.

## 1. Inventory

| Part | State it keeps | Operations | Hard behaviour | What makes it correct | Module |
|---|---|---|---|---|---|
| ipc broker (`tools/ipc/broker.go`) | mailboxes, waiting channels, slots, the port | broker_start, broker_stop, post, fetch, wait, status | hand-over to a waiter outside the lock, timer against a late post, stop against everything, limits | each accepted message goes to one receiver, in order; no lost wake-up; no panic; every call ends | `IpcBroker`, `IpcMailbox` |
| bash pool (`tools/bash`) | map from session id to shell, mutex and last use of each shell | command, disconnect, reaper, eviction | spawn outside the lock, TryLock against running commands, removal by id | no leaked process, no shell closed under a command, every call ends | `ShellPool` |
| ssh pool and jobs (`tools/ssh`) | map from identity to client, list of jobs | execute, start, status, tail, cancel, disconnect, reaper, eviction | keepalive and dial outside the lock, half-open connections, handshakes without a deadline, cancel against completion, pruning | no leaked connection, no closed client handed out, job states final, every call ends that is past its handshake | `SshPool` |
| ssh connection handles (`connection.go`) | at most 64 handles, 30 min | resolve, reuse | LRU and expiry | a handle always means the same connection | - |
| sftp (`tools/sftp`) | table of transfers, partial files | upload, download, status, cancel, rm, rename | cancel against completion, lost connections, check and then create, recursive removal | a finished file is kept, a partial one removed; nothing outside the named tree is touched | `Transfers`, `Archives` |
| ipc point-to-point (`send.go`, `receive.go`, `pool.go`) | checkout pool of connections | send, receive, ping | resend after a failed write, PING between messages | one owner per connection, no message lost silently | - |
| file writing (`common/fileutil.go` and the editing tools) | files, temporary files | edit, multiedit, write, patch, regexreplace, copy, rename, delete, convertenc | crash between steps, two edits of one file, partial batches, charsets not recognised | old or new content, never a mixture; results say what was done | `FileTools` |
| codegraph (`tools/codegraph`) | symbol database, engine pool | index, queries | worker pipeline, batched commits, edits during a run, failing files, kills; linking by evidence | stored hashes vouch for stored facts, no link outlives its symbols but between a change and the next linking pass; no called method is left out | `CodeIndex`, `CallResolver`, `CodeQueries` |
| debug (`tools/debug`) | DAP sessions, pending requests, events | launch, breakpoints, step, evaluate, restart, disconnect | answers after time-outs, events before requests, deferred configuration, close against everything | an answer reaches its own request, one configuration, no stop lost | `DapSession` |
| memtool (`tools/memtool`) | scan sessions, matches, undo, snapshots | search, filter, undo, diff, info, close, pointer scan | reference counts against reaper and eviction, failures half-way, chunk borders | nothing leaks, no session in use reaped, every match found | `ScanPool`, `MemSearch` |
| output capture, raw-output store, paging (`common`) | bounded buffers, stored outputs | write, store, page, expire, truncate | limits, expiry, cuts inside characters | limits hold, nothing lost without a mark | `ToolHost` |
| idle release (`common/idle.go`) | one timestamp | mark, release | - | - | - |
| registry, toolbox (`common/safetool.go`, `tools/toolbox`) | registered tools, enabled groups | invoke, enable, disable, call | panics in handlers, arguments of the wrong type, failing groups | arguments checked before a handler runs; a group changes as a whole or not at all | `ToolHost` |
| process tools (`tools/procexec`, `tools/prockill`) | running processes | start, resume, kill | order in a process tree, time-outs | what was asked is killed, and no more | `ToolHost` |
| analyze (`tools/analyze`) | none | functions, call graph, references, listings, addresses | functions without symbols, shared tails, jump tables, work limits | every address belongs to its function | `Binaries` |
| archives, backup, download (`tools/compress`, `backup`, `download`) | files | pack, unpack, back up, fetch | links, unreadable files, limits, failures half-way | nothing outside, whole or an error | `Archives` |
| reading tools (`tools/read`, `multiread`, `grep`, `glob`, `listdir`, `sloc`; `common/ignore.go`) | none | pages, searches, listings | budgets, cursors, ignore rules | the pages together show everything once | `Readers` |
| other tools | none between calls | queries, formatting, one request each | - | - | not modelled, see 12 |

How they interact: every tool call enters through `SafeAddTool`, which marks
activity (idle release) and recovers panics.  sftp takes its clients from the
ssh pool (`GetClient`, `RemoveClient`, `TouchClient`).  bash and procexec put
long outputs into the raw-output store, which toolbox reads.  All tools that
change files go through `common/fileutil.go`.  Sessions of different agents meet
only in the broker, over TCP.

The list `hazards` of `PROJECT.json` names what can go wrong, line by line, and
the property that watches over it.

## 2. Plan

Done, in this order:

1. `IpcMailbox`, `IpcBroker`, `MCIpcBroker`, `IpcBrokerProofs`
2. `ShellPool`, `MCShellPool`, `ShellPoolProofs`
3. `SshPool`, `MCSshPool`, `SshPoolProofs`
4. `FileTools`, `MCFileTools`, `FileToolsProofs`
5. `DapSession`, `MCDapSession`, `DapSessionProofs`
6. `ScanPool`, `MCScanPool`, `ScanPoolProofs`; `MemSearch`, `MCMemSearch`
7. `CodeIndex`, `MCCodeIndex`, `CodeIndexProofs`; `CallResolver`, `CodeQueries`,
   `MCCodeQueries`
8. `Transfers`, `TransfersProofs`
9. `Binaries`, `Archives`, `Readers`, `ToolHost`, each with its `MC` module of
   inputs and reference definitions; `MCTools` composes 8, 9, `MemSearch`,
   `CallResolver` and `CodeQueries` into one run.

Left: handles of ssh connections and point-to-point messages; `RemoveClient` and
`TouchClient` of sftp as actions of `SshPool`; a line-by-line model of patches
(a hunk that only inserts, `@@ -k,0`, goes before line k and not after it;
`@@ -0,0` is refused; lines that begin with `--` or `++` look like headers).

Every safety property of the concurrent parts is stated by a theorem, and so are
memtool's searches (`SearchesRight`).  What is left to the model checker is
liveness, and the seven other properties of section 10 that compare computations
with reference definitions.

## 3. The broker

`IpcBroker` has one call per element of `Calls`: the client's `brokerCall` and
the goroutine that serves its connection.  Everything done under `b.mu` in one
go is one action; what the code does between two critical sections is an action
of its own.  So doPost is `PostHandOff` (take the channel off the list) and
`PostSend` (send on it, unlocked), or `PostRefused`, or `PostQueued`; doWait is
`WaitTake`, `WaitRefused`, or `WaitRegister` followed by `WaitReceive` or by
`WaitTimer`, `WaitCleanup`, `WaitDrain`; stop is `StopListen` and `StopWake`.
A posting call names its message, so that a loss or a duplicate can be seen.
`h` is where the goroutine is, `c` what the client knows.  `keys` records which
mailboxes exist in the map, since `doFetch` creates keys and `doPost` counts
them.  `ScanLimit` stands for the 4 MB the client reads of a reply.

`IpcMailbox` says what the broker promises: a FIFO queue per mailbox, each
message given to at most one receiver and never taken back.  A message handed
directly to a waiter counts as given at `PostHandOff`.

Run `broker` (3 calls, 2 names, 1 broker that can start and stop, at most 1
mailbox, 2 queued messages, 1 waiter, 2 connections, 1 message per reply) checks
the invariants and, under fairness, the refinement and termination.  Three calls
are what the races need: two posts and a wait, a post and two waits, two posts
and a fetch; and each limit is reached by them.  The counters of names, queue,
waiters and slots all hit their limits in this instance.  The one on mailboxes
binds posts only: a fetch creates the mailbox it names whatever their number, and
`WithinLimits` counts the mailboxes that no fetch has named.

Run `broker_missed` shows the one promise that does not hold: a post may choose
a waiter that times out, drains its channel and leaves before the send.  The
message is acknowledged and lost.

## 4. The shell pool

`ShellPool` models `getOrCreate` (lookup and eviction; spawn without the lock;
double check and insertion), `executeCommand` (which holds the mutex of the
shell from start to end), `remove` (entry off the map under the pool's lock, then
the shell's lock and close), `evictOldestLocked` and the reaper.  The reaper's
check and its TryLock are two steps with the pool's lock held in between
(`reaping`), because commands lock and unlock shells without the pool's lock.
A shell that ended by itself is `exited`: `alive` takes it for running, as the
code does, since nobody has waited for the process.  Time is `idle`, the age of
`lastUsed`, in ticks.

Run `shell` (2 calls, 2 ids, room for 1 shell, idle limit 0, 1 shell that ends
by itself) checks the safety properties together with termination and clean-up
under fairness; for safety, more calls are the business of the theorems of
section 11, which hold for any number.  Two calls with two ids and room for one
shell already race over the slot, and over one id.  Run `shell_stale_remove`
shows that a failed command removes by session id and can take away the healthy
shell of another call.

With all shells busy the pool exceeds `maxSessions`: eviction skips busy shells.
The model has this behaviour; no bound is claimed.

## 5. The ssh pool and its jobs

`SshPool` has the same structure with three differences: `getOrCreate` probes an
existing client with a keepalive outside the lock and compares it with the map
afterwards; eviction and reaper close clients whether they are in use or not; and
background jobs live on clients after the call that started them has ended. The
other end of a connection is `up`, `silent` (half-open: requests get no answer and
no error) or `down`.  A request on a silent peer blocks; nothing but the closing
of the client, or the peer's going down, ends it.  A dial is two steps: `Dial`,
the TCP connection, which `dialTimeout` bounds, and `Handshake`, which stands for
the handshake and, with a jump host, for its handshake and the tunnel: none of
these has a deadline, whatever the comments in `pool.go` say about ten seconds, so
a peer that falls silent there holds its call (`Hangs`).  That `Signal` and
`Close` of a session do not unblock `session.Run` by themselves is how the SSH
library behaves: it sends the request and waits for the peer.

Run `ssh` (2 calls, 2 identities, room for 1 client, idle limit and retention 0,
1 failure) covers a job, its cancellation and a call in competition, and shows
that a call ends although keepalive, new sessions and the wait after a deadline
have no timeout: the reaper closes the idle client in the end.  The exception is
a call that hangs in its handshake: it has no client yet that the reaper could
close.  `EveryCallEnds` names it, and shows that no other call waits for it;
`NothingLeftBehind` holds in spite of it.  Run
`ssh_job_reaped` shows the reverse side: it also closes the client of a running
background job.

## 6. The file tools

`FileTools` runs calls of nine tools concurrently over one file system.  A path
leads to an inode (`dir`, `inode`), so that renaming a temporary file over a path
and writing through a handle that another call has already replaced are what
they are.  The inode a call creates is named after the call.  A text is a
sequence of tokens: for edit, multiedit and regex_replace a token is a fragment
that occurs or does not, for patch a line.  A file has a charset, a byte-order
mark, permissions, and `whole`, which says that its last writer has written
everything.

Each access to the file system is an action.  A changing tool goes through
`Found` (or `NewFile`), `HashCheck` when expected_hash is given, `Read`, then
`ApplyEdit`, `ApplyPatch`, `ApplyRegex` or `Convert` in memory, then
`WriteFileWithEncoding`: `StatPerm`, `CreateTemp`, `FillTemp`, `Rename`.  When
the temporary file cannot be created, or renamed, the code writes in place:
`Truncate` and `WriteInPlace`, between which others see an empty file.  Every
one of these can fail.  copy, rename and delete are `Copy...`, `Move...` and
`Delete...`, with their checks as steps of their own.  `Crash` ends all calls
where they are; calls not begun can still begin, in the next server.

Reading a legacy charset has two outcomes, since chardet or an `.editorconfig`
hint may recognise it or not.  If not, the bytes are carried along as if they
were UTF-8 (`raw`): no token with non-ASCII characters is found in them, they
come out unchanged if written as they came in, and garbled if converted.  A hint
that names the wrong charset is left out.

`dry` stands for dry_run; `guard` for expected_hash of edit and for the absence
of overwrite of copy.  A hunk of the model has at least one line of context or
removal.

Run `files` (2 calls, 2 paths, texts of up to 3 tokens, 18 requests that cover
every tool, failures and previews) checks:

- `WholeFiles`: a path never leads to a half-written file, in spite of
  concurrent calls, errors and kills, unless some call wrote in place;
- `TempsPrivate`: temporary files are nobody else's and are removed on every
  error path; only a kill leaves one behind;
- `HonestResults`: an error means nothing was changed, success means it was;
- `ExactUpdate`: an update of a file that has not changed since it was read
  changes the text as asked and keeps encoding, byte-order mark and permissions.
  What the request means is defined independently for patches: hunks from first
  to last with shifting line numbers, where the code goes from last to first.
  Three cases are outside the promise, and showed themselves when it was to be
  proved: the permissions are read by a Stat of its own, so that they can be
  those of a file that was there for a moment between reading and replacing; a
  text that becomes empty has no charset any more; and hunks that overlap or are
  not in order have no meaning of their own.  A request of edit or regex_replace
  has one edit, one of multiedit at least one (`FileAssumption`, what the
  handlers let through).

Two calls on one path are the smallest instance in which a call can act on what
another has replaced; the second path is for copies and renames.

Run `files_hash` shows that expected_hash is checked before the file is read and
not when it is replaced: of two edits that pass the check, one is lost.

That a call without expected_hash may overwrite a change made since it read the
file is what the tools do, and no property forbids it.  Likewise a rename or copy
that found its destination free may replace a file created since.

## 7. Debug sessions

`DapSession` is one session of the debug tool: the calls that run `Handle`, the
adapter, the event loop and the pool.  A request is numbered and entered in the
table of pending requests, written, and waited for; the adapter answers at any
time, in any order, or never, and sends events of its own accord.  `eventLoop`
hands an answer to the call that waits for its number and turns `initialized`,
`stopped`, `continued`, `terminated` and `exited` into the state of the session,
into the closing of `initializedCh` and into `stoppedCh`, a channel with room for
one.  The operations that let the program run go through `Claim` (the deferred
configuration, checked, sent and checked again), `drain`, the request and the wait
for a stop.  restart, disconnect, terminate, eviction by other launches, the
reaper and a connection that breaks or stalls are actions.  Operations that send
one request and print the answer share an action.

Run `debug` (2 calls, 1 message of the adapter under way, 1 fault, 1 eviction)
checks:

- `AnswersMatch`: what a call takes for its answer is the answer to its request,
  in spite of time-outs and late answers;
- `ConfigOnce`: of two calls that continue or step at the same time, one
  configures the adapter; a failure lets another try, a restart begins anew;
- `NoLostStop`: a stop signalled after a call has sent its request is in the
  channel when the call comes to wait, unless another call has taken it.

Two calls are what these races are between.

## 8. Scan sessions

`ScanPool` has the sessions of memtool: a process reader, a store of matches, a
snapshot, an undo stack.  A call finds a session under the pool's lock, acquires
it, locks it, and works; search, filter (`pushUndo`, new store, `popUndo` on
failure), undo, diff, info and close are actions, and so are eviction and
reaper, which skip sessions that are acquired.  Stores and snapshots are objects
with an identity, so that a leak or a double owner is visible.

Run `scan` (2 calls, 3 sessions, 3 objects, room for 1 session, 1 undo step):

- `NoLeak`: every reader, store and snapshot that is open belongs to a session
  in reach or to a call, on every error path; the exceptions are those of calls
  whose session close took away;
- `InUseSpared`: neither reaper nor eviction takes an acquired session;
- `PoolBound`: the pool exceeds its limit only as far as calls hold sessions.

Two flaws are in the model as they are in the code.  After a filter that failed,
`popUndo` closes the current store, which is the one it restores
(`memtool/session.go:127`).  And close takes a session that others work on
(`session.go:185`); a filter's new store is then lost.

## 9. The index of codegraph

`CodeIndex` has index runs and queries on one database.  A run walks the tree,
compares hashes, purges what is gone if the walk was complete, lets workers with
an engine from the pool read, hash and parse the changed files, stores them in
batches (a transaction, a savepoint for each file) and links the calls.  Files are
edited meanwhile, files, savepoints, commits and passes fail, and the server is
killed. The content of a file is a version; its facts are the version they came
from. Which calls lead to which symbols is `CallResolver`'s; here a linking pass
joins every two files with facts, once by a candidate and once by an edge
(`Pairs`).

Run `codegraph` (2 files, 2 versions, 2 runs, batches of 1, 1 engine, 1 edit, 1
fault):

- `HashVouches`: a stored hash is that of the content the stored facts are from,
  whenever the file was edited; otherwise no later run would look at it again;
- `NoDanglingLinks`: candidates (`call_candidates`) go with the calls and the
  symbols they join; edges (`dispatch_edges`, the inferred rows of `inheritance`
  and the target kept in a call's own row) go with the call they come from, but
  outlive the symbol they lead to, since they refer to the merged symbols, which
  only a linking pass makes anew (`db.go:223`, `project_resolver.go:365`).  They
  do so only while the run that changed the symbols is still to link them, or
  after it was killed or reported that linking failed (`spoiled`);
- `RunCovers`: a run without errors, undisturbed, leaves the facts of exactly
  the files that are there, and links made from them if it changed anything;
- `NoFalsePurge`: no run drops a file that was there all the time.

Two files and batches of one put a commit between them; two runs compete for the
write lock and the engine.  What the model shows beside that: after linking has
failed, or the server was killed before it, candidates stay missing and edges
dangle, since a run that finds nothing changed does not link
(`operations.go:284`); ids cached in `conditionCache` outlive the savepoint that
made them (`db.go:422`); every query writes when it opens the database and fails
while a run writes (`db.go:344`); the pragmas hold for one connection of the pool
(`db.go:249`).

## 10. Transfers and the tools that compute

Run `tools` checks `MCTools`.  An initial state chooses a part and, for a tool
that computes, an input from a small set; the step `Evaluate` makes the answer
due, and the properties compare it with a reference definition that says what
it means, not how it is computed.  The constants in `MCTools.cfg` are the limits
of the code, small enough to be reached: chunks of 2 bytes, batches of 3, a
store that goes to disk after 1 match, 4 candidates, 4 cells of backward scan,
footers of 3 characters, 2 stored outputs.

`Transfers` is the part that runs as a system (2 calls, 2 remote names and 1 local
one, files of 2 blocks, 1 transfer at a time).  Files are written in place, block
by block, and keep for each block who wrote it; uploads, downloads, direct or in
the background, cancel, rm and rename run concurrently over a connection that can
be lost.  Every file of a batch has its own overwrite.  A removal can be refused
over a live connection, and the code ignores that where it cleans up; `refused`
remembers the calls it happened to.  `TransfersSafe`: no more transfers run than
allowed, a finished transfer's file is whole unless another call touched it, a
failed or cancelled one leaves no part of it unless its removal was tried and
refused, or the connection to the server that has it was lost, and a file that was
there stays as it was when no call on it says overwrite.  `TransfersSpec` is this
part alone, without the inputs of the others; the theorems are about it.

`SearchesRight` (`MemSearch`, inputs and property in `MCMemSearch`): the scan in
chunks finds what one look at the whole memory finds; filters over lists and
snapshots keep exactly what satisfies the condition, in memory or on disk, and
only lose matches to bytes that cannot be read; a diff names the words that
changed; pointer chains lead where they say; values and bytes convert both ways.
It is also proved for inputs of any size (section 11).

`ResolutionRight` (`CallResolver`): the types an object can have, through
inheritance of any shape, cycles included, are all considered; every method that
can run at a call is linked, for classes, interfaces, Go's implicit ones (with
the types of their parameters) and blanket implementations, also when the
receiver is in a container or a bounded type parameter, so that none is reported
unused; of two overloads the one whose parameters fit the call's arguments is
chosen.

`QueriesRight` (`CodeQueries`): the call tree shows what calls reach, down to
where the written text of a call is no symbol's name; pages of results are
together the result, when a page has room for its entries and its footer; the
ignore files mean the same here and in the reading tools.

`FunctionsRight` (`Binaries`): in programs as compilers lay them out, with and
without padding, tables and shared tails, every address is placed in its function
and every call between the right two; listings continue where they stopped and end
where the function does; tables and address conversion are inverse to what they
came from.

`TreesRight` (`Archives`): recursive removal, packing, unpacking, backup and
download leave what is outside alone and are complete or report an error, with
files and directories that cannot be read, listed, made or removed.

`ReadersRight` (`Readers`): the pages of read, multiread, grep and listdir,
followed by their cursors, show everything once, up to the caps listed below;
ignore rules decide as the last matching pattern says.

`OutputRight` (`ToolHost`): captured output keeps head and tail and says what it
dropped, at character borders; the store of outputs stays within its limits and
evicts the oldest; a folded view of either stream of a process stands for its
lines, and the whole can be asked for.

`DispatchRight` (`ToolHost`): handlers see checked arguments only, each as it was
given but for integers that a float64 cannot hold; results are bounded, and the
text of a handler's error is passed whole; a group of tools is enabled as a whole
or not at all; a kill reaches the whole tree and nothing else.

These properties have several mutants each, one for every part at least.

Where the code does not do what one might expect, the reference definitions
leave the case out by a condition on the inputs, and it is listed here:

- memtool: of a pattern longer than a chunk by two bytes or more, places can be
  missed, since behind a buffer shorter than that nothing is kept; after a short
  read the overlap kept is not adjacent to the next chunk; a structure on a
  chunk border is reported twice; a batch read drops matches behind a hole; the
  upper bound of a pointer scan can wrap around.
- codegraph: the call tree goes down by the written text of a call, so it stops at
  every call with a receiver (`operations.go:1465`); entries of a page that fill
  its budget leave no room for the footer, and the last cut drops text that
  next_offset skips (`operations.go:618`, `753`); of a symbol with several
  declarations that is only a candidate for a call, all but one are reported
  unused, against the comment at `operations.go:1288`; arguments of generic types
  are not substituted; an inherited method in a nearer file can beat the
  receiver's own override (`project_resolver.go:1658`); embedding in Go is not
  inferred, and beyond 16 candidates targets are dropped, both of which make
  methods look unused; the expansion of blanket implementations depends on the
  order of a map; `/foo` in an ignore file is not anchored, `abc/**` matches the
  directory itself, and a directory's own ignore file decides about the directory
  (`operations.go:1055`); with a tiny max_output_chars paging makes no progress.
- sftp: a cancel that comes after the last block removes the whole file
  (`transfer.go:329`); a failed overwrite has lost the old file; a lost
  connection, or a removal that is refused, leaves a partial file without a word
  (`transfer.go:332`, `operations.go:65`); a file is created although the answer
  to the request is lost, while rm and rename whose answer is lost count as not
  carried out; two transfers to one name can remove
  each other's file; any error of Stat counts as a free name; the removal of a
  partial file goes over the network with a lock that starts of others wait for.
- archives: the walk of a recursive rm lets one item more than its limit through;
  rm -r of a link to a directory deletes what is in the directory it leads to and
  fails at the link (`operations.go:284`, against the comment on links in
  `walkRemoteDir`); a link inside a tree makes rm -r fail after it has deleted
  files; a directory that cannot be listed is missing from an archive that is
  reported written (`compress/handler.go:177`, `336`); a pattern that excludes the
  source's own name, or a source that is a link, gives an empty backup reported
  as done; an unreadable file leaves an empty entry.  Left out: an archive written
  into its own sources, base names that collide, errors of writing and closing an
  archive, and extraction into a directory that is not empty.  A file that appears
  at the output path during a download is replaced without overwrite
  (`download/handler.go:73`, `181`), which the model shows and no property forbids.
- tool host: integers beyond 2^53 reach the handler as another number, or as an
  error when the nearest float64 is no Go integer (`safetool.go:137`); the text of
  a handler's error is not limited (`safetool.go:163`); in a corner case later
  texts of a result are dropped without the marker; a process killed by a time-out
  is reported completed with exit code -1; environment keys are folded on Unix;
  the list of processes is taken twice, to show and to kill.
- analyze: a search for functions whose budget ends in its last walk reports
  itself complete; calls from functions that are not in the table are attributed
  to the one before; the insertion into the table goes through a Go map; int3
  after a call that does not return is taken for the end of a function; the page
  check of ADRP and LDR misses up to 8 pages; references on ARM32 do not skip
  condition 0xF, the call graph does; no hint to continue when the window is
  exactly used up; a listing that is continued by offset, not by address, runs
  past the end of the function (`disasm.go:109`); functions that are only jumped
  to are not found (`exports_anchor.go:143`).
- reading tools: grep in files_with_matches stops at a line of more than 64 KB and
  takes the file for one without matches (`grep/handler.go:437`); a page of
  listdir longer than the cap on all answers loses entries at its end, and the
  cursor (`safetool.go:166`); a file that is too big for multiread is given as the
  file to continue with, for ever (`multiread/handler.go:204`); with a small
  max_output_chars no room is kept for the footer and the last cut drops lines
  that next_offset skips; a line longer than the budget makes no progress; results
  of grep beyond max_output_chars are out of reach in its classic mode; an offset
  beyond the end shows the last line again; `**` after a prefix that does not
  exist searches everything; the cursor of glob counts in a list sorted by
  modification time; sloc finds nothing below a root named like a skipped
  directory and skips files with a line of more than 1 MB.

## 11. Checks and proofs

Bounds.  Limits of the code (1000 mailboxes, 5 shells, 20 clients, 30 minutes)
are constants set to 0, 1 or 2, so that every limit is reached.  `MaxExits` and
`MaxFaults` bound failures of the environment.  Calls are used once; a call that
has ended stays ended, which bounds the run and is why deadlock is not checked:
all calls ended and nothing left to reap is a legitimate end.  In `scan` calls
come again and again, and it is `MaxObjects` that lets a caller stop; in
`codegraph` runs and queries can always begin again, and deadlock is checked.
Symmetry is used in runs without liveness only.

Fairness.  Weak fairness for every goroutine of a call: the Go scheduler runs
what can run, and every blocking point of a call is an action that is enabled
when the wait is over.  Timers fire (`WaitTimer`, `Abort`, `ExecDeadline` are
part of a call's steps), time passes (`Tick`), and the reapers visit every entry
at each tick of their tickers.  Nothing makes a client call, a peer recover, a
shell end or a remote command finish.

Proved with TLAPS, for every number of calls, names, brokers, keys and all
limits:

- `IpcBrokerProofs`: `BrokerInvariant`, from which type correctness, `SendIsSafe`
  and `NoSleepOnMail` follow.  The invariant adds to the types that a handler
  past accept has a broker and a mailbox (`Route`), that a waiter is on at most
  one list, once, and only while it waits (`WaitInv`), that a channel holds
  something or is closed only for a waiter that is off the lists (`ChannelInv`),
  and that the target of a send is off the lists, with an empty open channel and
  no second sender (`SendInv`).  Without these, a channel taken off the list
  might be closed by a stop or taken a second time.

  `MailInvariant` follows the messages: a queue holds each message once, for its
  own mailbox, and none that a call has been given (`QueueInv`); a message is
  given to one call, of its own mailbox (`HolderInv`); what was answered for is
  somewhere (`PlaceInv`).  `Conservation` is this in the words of the model, and
  `WithinLimits` is proved beside it: for the mailboxes the argument is that a
  post adds one only below the limit, and a fetch only one that has been fetched
  then (`KeyMax`, `FetchedStays`).  Every step moves messages in one of five
  ways (`MailMoves`): not at all, into the channel that was taken, by taking a
  channel, into a queue, or out of one.

  `BrokerImplementsMailboxes` is the refinement: under the mapping of the queues
  to `boxes` and of the receiver of a message to the call it was handed or
  assigned to, each of the five is a step of `IpcMailbox` or changes nothing
  there (`RefineStep`).  That a receiver is never taken back rests on
  `HolderInv`.
- `ShellPoolProofs`: `PoolInvariant`, from which type correctness, `NoOrphanShell`
  and `CommandsUndisturbed` follow.  The mutex of a shell is held exactly by the
  call that runs a command on it (`MutexInv`), so what TryLock spares is what is
  in use; and a shell that was not inserted is known to its call only
  (`PrivateInv`), so discarding it disturbs nobody.
- `SshPoolProofs`: `SshInvariant`, from which type correctness and
  `NothingForgotten` (`PoolOwnsClients` and `RunningJobsListed`) follow as
  invariants, and `GivesOpenClients` and `JobStatusFinal` as properties of steps.
  A client exists only once dialed and is in no map before its insertion
  (`FreshInv`), every client keeps its key (`KeyInv`), and a job belongs to a call
  that has ended (`JobInv`).  For `WithinMaxSessions` the set of keys in use is
  finite, grows only by insertion, and there by one key that was not in use, after
  room was made under the same lock (`BoundStep`).
- `FileToolsProofs`: `FileInvariant`, from which `WholeFiles`, `TempsPrivate` and
  `HonestResults` follow.  The inode of a call is led to by at most one path, and
  by none while it is a temporary file or not yet made, so that filling it is seen
  by nobody (`OwnInv`); every file in reach, and every one about to be renamed
  into reach, is complete unless someone wrote in place (`WholeInv`); and a call
  has changed something only at steps after its visible one (`ResultInv`).

  `UpdatesAreExact` is `ExactUpdate`.  `UpdateInv` carries the format of what was
  read through decoding, change and encoding to the temporary file (`FormatInv`,
  `TempInv`); it needs that a file in a legacy charset has no byte-order mark
  (`BomInv`).  `TextInv` carries the text: while a call applies edits or hunks,
  there is a chain of texts, from the one it read to the one it has, each the
  one before with the next edit made (`EditsMade`, `HunksMade`).  That a chain of
  all edits ends in `EditsDone` is induction (`EditsAre`).  For patches the chain
  goes from the last hunk to the first, and `PatchDone` from the first to the last
  with shifted lines.  `PatchAre` is the reason why they agree: with hunks in
  order that do not overlap, the text in front of a hunk is the same in both
  directions but for what the earlier hunks have added (`HeadKept`, `FrontStep`,
  `TailStep`).
- `DapSessionProofs`: `DapInvariant`, from which `AnswersMatch`, `ConfigOnce` and
  `NoLostStop` follow.  Numbers of requests are not used again, so what is under
  way under the number a call waits for is that call's request, with the adapter
  and on the wire (`AnswerInv`).  As long as a call has, or had, the
  configuration in hand, the flag is set, and no other has it (`ConfigInv`); the
  exception is a restart, which the invariant makes explicit.  Only a call whose
  request can lead to a stop is owed one (`StopInv`).
- `ScanPoolProofs`: `ScanInvariant`, from which `NoLeak` and `PoolBound` follow,
  and `InUseSpared` as a property of steps.  A session is in the pool once, and
  has a reader exactly while it is there (`PoolInv`); the references count the
  calls that have it (`RefInv`), which is why the reaper's test of the count
  spares them; the store that a filter is about to replace is on the undo stack
  (`CallInv`), so that replacing it loses nothing; open objects and handles are
  accounted for (`OpenInv`, `HandleInv`).

  The same module has the searches of `MemSearch`, for memories, lists, patterns
  and widths of any size, and chunks and batches of any size:
  `ScansFindAll` follows what a scan has found up to a chunk, with the kept bytes
  being those in front of it (`IsCut`); `StructsAreFound` and `ChainsLeadToTarget`
  look at one chunk and what is read of it (`ChunkRead`);
  `ListsAreFiltered` shows that a store holds the same list on either side of its
  move to disk (`Holds`), that the batches are the list, and that matches read
  together are judged by their own bytes; `SnapshotsAreFiltered` and
  `DiffsAreNamed` cut a memory into chunks and those into pieces, none of which
  cuts a word; `ValuesAreKept` is about the digits of a number in base `Base`.
  `SearchesAreRight` puts them together: `SearchesRight`, the property of the run,
  under what `Given` says of the inputs (memory without holes for a pattern
  search and under a snapshot, patterns of at most one byte more than a chunk)
  and `EvenSizes` of the constants (bytes have an even number of values, words of
  two bytes divide the chunks).  The inputs and constants of the run satisfy both.
- `CodeIndexProofs`: `IndexInvariant`, from which `HashVouches`, `NoDanglingLinks`
  and `RunCovers` follow, and `NoFalsePurge` as a property of steps.  A worker's
  hash and facts are of one reading (`Parsed`), from the worker to the
  transaction.  A batch is open only in the run that holds the write lock
  (`StepInv`); a run that has replaced or purged rows owes a linking pass until it
  ends (`Owing`), so the cascade may leave edges (`CascadeKeeps`); files that were
  there all the time are seen or still to be walked (`ThereInv`).  For
  `RunCovers`, every file of an undisturbed run without errors is still to be
  walked, to be parsed, under way, or settled (`CoverInv`).
- `TransfersProofs`: `TransfersInvariant`, from which, with a bound on the set of
  running transfers, `TransfersSafe` follows.  The difficulty is that calls write
  nodes while names move.  A name that no rename deals with leads to a node made
  under it, which can be reached or written under this name only (`DirInv`,
  `NodeOf`).  So a step changes only what its call deals with (`Local`), and what
  is known of a name that no other call deals with survives the steps of all
  others (lemma `Others`).  For its own names, a transfer has written nothing to
  those it has not come to (`CleanOf`), the first blocks of the one it writes
  (`WriteOf`), and all of those it has sent (`SentOf`).  A call without overwrite
  is about to create only where no old file is (`OldOf`): the check comes before,
  but nothing puts an old file back.  That a part may stay is known from the
  attempt to remove it: `refused` grows only by calls whose removal was refused,
  and no step takes a call out.

The assumptions are the named ones of the modules: the limits are natural
numbers (those that allow at least one, such as `MaxUndo`, positive), the null
values are not members of the sets they stand beside (`IndexAssumption`,
`ScanAssumption`, `NodesAssumption` among others), the calls and sessions of
`ScanPool` are finitely many, new nodes of `Transfers` are not the old ones, and
the requests of `FileTools` are those that pass the checks of the handlers'
inputs.

Only model-checked:

- liveness under fairness (`EveryCallEnds`, `NoShellLeftBehind`,
  `NothingLeftBehind`), which the prover cannot handle;
- `ResolutionRight`, `QueriesRight`, `FunctionsRight`, `TreesRight`,
  `ReadersRight`, `OutputRight` and `DispatchRight`: their modules
  define operators with RECURSIVE (walks over trees, closures of relations,
  scans with a budget), for which the SMT solver is not available.  They are
  checked over the inputs of section 10.

A recursive function does not stand in the way of a proof.  The library's
induction theorems take an operator as a parameter, which the provers cannot
instantiate; induction for a set (`SetInduction`) follows from the theorem on
minimal elements of well-founded relations, and that a recursive function over
an interval exists, and is what its equation says, follows from induction (lemma
`Recursion` of `ScanPoolProofs`; `EditsAre` and `PatchAre`).  `MemSearch` is
written for it: folds are recursive functions, `Chunks` is a set of numbers,
`Power` stands for `^`, about which the provers know nothing.

## 12. Not modelled

- Text: command lines, sentinels, output decoding, messages, the rewriting of
  command chains for PowerShell, the wording and layout of results.
- The extraction of symbols from source text, the decoding of instructions, file
  headers, DWARF, RTTI, strings and resources: grammars and formats that a model
  could only repeat.
- Requests that are refused before any state is touched.
- Tools that send one request or make one pass and print the answer: queries of
  JSON, YAML and TOML, databases, diff, fileinfo, checksum, DNS, TLS and port
  checks, HTTP requests and the policy on addresses, process and system listings,
  key conversion, Windows GUI control; ls, stat, mkdir and chmod of sftp.
- Server start, installation, configuration, help.
- Variants for Windows and macOS where there are several.
- In `FileTools`: directories, links, the fall-back for locked files on Windows,
  and how edit matches indentation and line endings.
- The write of a command to a shell and the network writes of a cancel are taken
  to end.
- Memory limits in bytes outside `ToolHost` and data races on plain fields
  (`lastUsed` of a shell is read by eviction without the shell's lock).

Known risks without a property, beside those in the list of hazards: `doFetch`
creates map keys for any name (`ipc/broker.go:272`); the reply to a fetch can be
lost with its messages and a post can be repeated after a time-out
(`broker.go:275`, `378`); with all shells busy the pool outgrows its limit
(`bash/pool.go:133`); a long command blocks on a shell that does not read
(`bash/exec.go:58`); ssh connections are removed by key (`ssh/handler.go:186`) and
evicted while in use (`ssh/pool.go:282`); the handshake of a dial and the tunnel
through a jump host have no deadline (`ssh/handler.go:362`, `382`, `395`); cancel
holds a job's lock during network writes (`ssh/jobs.go:147`); a point-to-point
message can be sent twice (`ipc/send.go:44`); rename and copy check for a free
name and then act (`rename/handler.go:126`).
