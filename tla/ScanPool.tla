------------------------------ MODULE ScanPool ------------------------------
(***************************************************************************)
(* The scan sessions of memtool (tools/memtool): the pool with its reaper  *)
(* and its eviction, and the operations that work on a session while other *)
(* calls may close it.                                                     *)
(*                                                                         *)
(* A session holds a process reader, a store of matches, a snapshot and an *)
(* undo stack of earlier stores.  A reader is a handle on the process;     *)
(* stores and snapshots are objects with a temporary file.  What they      *)
(* contain is left to MemSearch.  The pool's mutex is held within one      *)
(* step; a session's mutex is held over several.                           *)
(***************************************************************************)
EXTENDS Naturals, Sequences, FiniteSets, FiniteSetsExt

CONSTANTS Calls,       \* concurrent callers, each making one call after another
          Sessions,    \* session ids
          MaxObjects,  \* bound: objects at a time
          MaxSessions, \* scanMaxSessions
          MaxUndo      \* maxUndo

ASSUME ScanAssumption ==
    /\ MaxObjects \in Nat /\ MaxSessions \in Nat \ {0} /\ MaxUndo \in Nat \ {0}
    /\ IsFiniteSet(Calls) /\ IsFiniteSet(Sessions) /\ "none" \notin Calls \cup Sessions

VARIABLES
    pool,    \* the sessions in the pool, least recently used first
    sess,    \* the fields of a session
    refs,    \* the calls that have acquired a session
    mu,      \* the call that holds a session's mutex, or none
    pc, op,  \* where a caller is, and its operation once it matters
    at,      \* the session of the call
    owned,   \* the object the call has made and handed to no session yet
    open,    \* stores and snapshots not closed
    handles, \* process handles not closed
    lost     \* (history) objects of calls whose session was closed under them

callVars == <<pc, op, at, owned>>
vars == <<pool, sess, refs, mu, callVars, open, handles, lost>>

Null    == 0
Objects == 1 .. MaxObjects
Ref     == Objects \cup {Null}
None    == "none"
Entry   == [store : Ref, unknown : BOOLEAN]
Steps   == {"idle", "made", "lock", "work", "scan", "retake", "oneshot"}
Ops     == {"none", "filter", "undo", "info", "diff"}
Empty   == [reader |-> FALSE, store |-> Null, snap |-> Null, unknown |-> FALSE,
            sized |-> FALSE, undo |-> <<>>]

Pooled  == {pool[i] : i \in DOMAIN pool}

\* the objects a session refers to
Held(s) == ({sess[s].store, sess[s].snap}
              \cup {sess[s].undo[i].store : i \in DOMAIN sess[s].undo}) \ {Null}
Users(s) == {c \in Calls : at[c] = s}
Kept     == (UNION {Held(s) : s \in Pooled \cup {s \in Sessions : refs[s] > 0}})
                \cup {owned[c] : c \in Calls}

TypeOK ==
    /\ pool \in Seq(Sessions) /\ refs \in [Sessions -> 0 .. Cardinality(Calls)]
    /\ \A s \in Sessions : /\ sess[s] \in [reader : BOOLEAN, store : Ref, snap : Ref, unknown : BOOLEAN,
                                            sized : BOOLEAN, undo : Seq(Entry)]
                           /\ Len(sess[s].undo) <= MaxUndo
                           /\ refs[s] = Cardinality(Users(s))
                           /\ mu[s] # None => at[mu[s]] = s
    /\ mu \in [Sessions -> Calls \cup {None}]
    /\ pc \in [Calls -> Steps] /\ op \in [Calls -> Ops] /\ at \in [Calls -> Sessions \cup {None}]
    /\ owned \in [Calls -> Ref] /\ open \subseteq Objects /\ lost \subseteq open
    /\ handles \in Nat

Init ==
    /\ pool = <<>> /\ sess = [s \in Sessions |-> Empty] /\ refs = [s \in Sessions |-> 0]
    /\ mu = [s \in Sessions |-> None]
    /\ pc = [c \in Calls |-> "idle"] /\ op = [c \in Calls |-> "none"]
    /\ at = [c \in Calls |-> None] /\ owned = [c \in Calls |-> Null]
    /\ open = {} /\ handles = 0 /\ lost = {}

(***************************************************************************)
(* Helpers                                                                 *)
(***************************************************************************)
Unused == Objects \ (open \cup UNION {Held(s) : s \in Sessions})

\* an object comes into being: numbers are given out again, lowest first
Fresh == {o \in Unused : \A p \in Unused : o <= p}

\* the pool after the removal of one session, or of none
Without(gone) ==
    IF gone = {} THEN pool
    ELSE LET i == CHOOSE i \in DOMAIN pool : pool[i] \in gone
         IN [j \in 1 .. Len(pool) - 1 |-> IF j < i THEN pool[j] ELSE pool[j + 1]]

\* the two plain fields outlive close, for the calls that still use the session
Cleared(s) == IF refs[s] = 0 THEN Empty
              ELSE [Empty EXCEPT !.sized = sess[s].sized, !.unknown = sess[s].unknown]

\* close: every object the session holds; the fields are cleared
Close(s) ==
    /\ open' = open \ Held(s)
    /\ handles' = IF sess[s].reader THEN handles - 1 ELSE handles
    /\ sess' = [sess EXCEPT ![s] = Cleared(s)]

\* the call is over: the mutex is unlocked and the session released
Return(c) ==
    /\ pc' = [pc EXCEPT ![c] = "idle"] /\ op' = [op EXCEPT ![c] = "none"]
    /\ at' = [at EXCEPT ![c] = None]
    /\ refs' = [refs EXCEPT ![at[c]] = @ - 1]
    /\ mu' = [mu EXCEPT ![at[c]] = None]

(***************************************************************************)
(* Operations that make a session: search, and diff of a process           *)
(***************************************************************************)
\* the process is opened and scanned; a failure closes what was made
Scan(c) ==
    /\ pc[c] = "idle"
    /\ \E new \in Fresh : open' = open \cup {new} /\ owned' = [owned EXCEPT ![c] = new]
    /\ handles' = handles + 1
    /\ pc' = [pc EXCEPT ![c] = "made"]
    /\ UNCHANGED <<pool, sess, refs, mu, op, at, lost>>

\* what the call made becomes the session
NewSession(c, kind) ==
    [Empty EXCEPT !.reader = TRUE,
                  !.store = IF kind = "search" THEN owned[c] ELSE Null,
                  !.snap = IF kind = "search" THEN Null ELSE owned[c],
                  !.unknown = (kind = "unknown"),
                  !.sized = (kind # "diff")]

\* evictOldestLocked: the least recently used session that is not in use
Evictable == {i \in DOMAIN pool : refs[pool[i]] = 0}
EvictOldestLocked_AnyInUse ==
    IF Len(pool) >= MaxSessions /\ Cardinality(Evictable) = Len(pool) THEN {pool[1]} ELSE {}
EvictOldestLocked ==
    IF Len(pool) >= MaxSessions /\ Evictable # {} THEN {pool[Min(Evictable)]} ELSE {}

\* pool.add: the id is new; one session is evicted when the pool is full
Add(c, s, kind) ==
    /\ pc[c] = "made" /\ s \notin Pooled /\ refs[s] = 0
    /\ LET victims == EvictOldestLocked IN
       /\ open' = open \ UNION {Held(v) : v \in victims}
       /\ handles' = handles - Cardinality({v \in victims : sess[v].reader})
       /\ sess' = [t \in Sessions |-> IF t = s THEN NewSession(c, kind)
                                      ELSE IF t \in victims THEN Cleared(t) ELSE sess[t]]
       /\ pool' = Append(Without(victims), s)
    /\ owned' = [owned EXCEPT ![c] = Null]
    /\ pc' = [pc EXCEPT ![c] = "idle"]
    /\ UNCHANGED <<refs, mu, op, at, lost>>

OpSearch(c, s)        == Add(c, s, "search")
OpSearchUnknown(c, s) == Add(c, s, "unknown")
OpDiffProcess(c, s)   == Add(c, s, "diff")

\* pool.add finds the id taken, or the scan fails: all that was made is closed
Drop(c) ==
    /\ pc[c] = "made"
    /\ open' = open \ {owned[c]} /\ owned' = [owned EXCEPT ![c] = Null]
    /\ handles' = handles - 1
    /\ pc' = [pc EXCEPT ![c] = "idle"]
    /\ UNCHANGED <<pool, sess, refs, mu, op, at, lost>>

(***************************************************************************)
(* Operations with a reader of their own                                   *)
(***************************************************************************)
OneShot(c) ==
    /\ pc[c] = "idle" /\ handles' = handles + 1
    /\ pc' = [pc EXCEPT ![c] = "oneshot"]
    /\ UNCHANGED <<pool, sess, refs, mu, op, at, owned, open, lost>>

OpRegions(c)      == OneShot(c)
OpRead(c)         == OneShot(c)
OpReadChain(c)    == OneShot(c)
OpWrite(c)        == OneShot(c)
OpDisasm(c)       == OneShot(c)
OpStructSearch(c) == OneShot(c)
OpPointerScan(c)  == OneShot(c)

\* the deferred reader.Close
OneShotDone(c) ==
    /\ pc[c] = "oneshot" /\ handles' = handles - 1
    /\ pc' = [pc EXCEPT ![c] = "idle"]
    /\ UNCHANGED <<pool, sess, refs, mu, op, at, owned, open, lost>>

(***************************************************************************)
(* Operations on a session                                                 *)
(***************************************************************************)
\* pool.get: found, touched and acquired under the pool's mutex
Get(c, s) ==
    /\ pc[c] = "idle" /\ s \in Pooled
    /\ pool' = Append(Without({s}), s)
    /\ refs' = [refs EXCEPT ![s] = @ + 1]
    /\ at' = [at EXCEPT ![c] = s]
    /\ pc' = [pc EXCEPT ![c] = "lock"]
    /\ UNCHANGED <<sess, mu, op, owned, open, handles, lost>>

Lock(c, operation) ==
    /\ pc[c] = "lock" /\ mu[at[c]] = None
    /\ mu' = [mu EXCEPT ![at[c]] = c]
    /\ pc' = [pc EXCEPT ![c] = "work"] /\ op' = [op EXCEPT ![c] = operation]
    /\ UNCHANGED <<pool, sess, refs, at, owned, open, handles, lost>>

\* filter and diff: session reader is closed
ReaderClosed(c) ==
    /\ pc[c] = "work" /\ op[c] \in {"filter", "diff"} /\ ~sess[at[c]].reader
    /\ Return(c)
    /\ UNCHANGED <<pool, sess, owned, open, handles, lost>>

\* pushUndo: beyond maxUndo the oldest store is closed
PushUndo_KeepFile(s) ==
    LET stack == Append(sess[s].undo, [store |-> sess[s].store, unknown |-> sess[s].unknown])
    IN [stack |-> IF Len(stack) > MaxUndo THEN Tail(stack) ELSE stack, closed |-> {}]
PushUndo(s) ==
    LET stack == Append(sess[s].undo, [store |-> sess[s].store, unknown |-> sess[s].unknown])
    IN IF Len(stack) > MaxUndo THEN [stack |-> Tail(stack), closed |-> {stack[1].store}]
                               ELSE [stack |-> stack, closed |-> {}]

\* filter: the current store goes to the undo stack and a new one is begun
OpFilter(c) ==
    LET s == at[c]  push == PushUndo(s) IN
    /\ pc[c] = "work" /\ op[c] = "filter" /\ sess[s].reader
    /\ sess' = [sess EXCEPT ![s].undo = push.stack]
    /\ \E new \in Fresh : /\ open' = (open \ push.closed) \cup {new}
                          /\ owned' = [owned EXCEPT ![c] = new]
    /\ pc' = [pc EXCEPT ![c] = "scan"]
    /\ UNCHANGED <<pool, refs, mu, op, at, handles, lost>>

\* the filter succeeds: its store replaces the one on the undo stack
FilterDone(c) ==
    LET s == at[c] IN
    /\ pc[c] = "scan" /\ sess[s].sized
    /\ sess' = [sess EXCEPT ![s].store = owned[c], ![s].unknown = @ /\ sess[s].snap = Null]
    /\ owned' = [owned EXCEPT ![c] = Null]
    /\ lost' = IF s \in Pooled THEN lost ELSE lost \cup {owned[c]}
    /\ Return(c)
    /\ UNCHANGED <<pool, open, handles>>

\* popUndo: the current store is closed and the last entry restored
PopUndo(s) ==
    LET last == sess[s].undo[Len(sess[s].undo)] IN
    IF sess[s].undo = <<>> THEN [session |-> sess[s], closed |-> {}]
    ELSE [session |-> [sess[s] EXCEPT !.undo = SubSeq(@, 1, Len(@) - 1),
                                      !.store = last.store, !.unknown = last.unknown],
          closed |-> {sess[s].store}]

\* the filter fails: its store is closed and popUndo rolls back
FilterFailed(c) ==
    LET s == at[c]  pop == PopUndo(s) IN
    /\ pc[c] = "scan"
    /\ sess' = [sess EXCEPT ![s] = pop.session]
    /\ open' = (open \ {owned[c]}) \ pop.closed
    /\ owned' = [owned EXCEPT ![c] = Null]
    /\ Return(c)
    /\ UNCHANGED <<pool, handles, lost>>

\* the session's store is cleared while the filter reads it: a panic, which
\* the deferred calls survive and the new store does not know of
FilterTorn(c) ==
    /\ pc[c] = "scan" /\ at[c] \notin Pooled
    /\ owned' = [owned EXCEPT ![c] = Null] /\ lost' = lost \cup {owned[c]}
    /\ Return(c)
    /\ UNCHANGED <<pool, sess, open, handles>>

OpUndo(c) ==
    LET s == at[c]  pop == PopUndo(s) IN
    /\ pc[c] = "work" /\ op[c] = "undo"
    /\ sess' = [sess EXCEPT ![s] = pop.session]
    /\ open' = open \ pop.closed
    /\ Return(c)
    /\ UNCHANGED <<pool, owned, handles, lost>>

\* info: the matches and their current values are printed
OpInfo(c) ==
    /\ pc[c] = "work" /\ op[c] = "info" /\ Return(c)
    /\ UNCHANGED <<pool, sess, owned, open, handles, lost>>

\* diff: an old snapshot is compared, closed and cleared
OpDiff(c) ==
    LET s == at[c] IN
    /\ pc[c] = "work" /\ op[c] = "diff" /\ sess[s].reader
    /\ open' = open \ {sess[s].snap}
    /\ sess' = [sess EXCEPT ![s].snap = Null]
    /\ pc' = [pc EXCEPT ![c] = "retake"]
    /\ UNCHANGED <<pool, refs, mu, op, at, owned, handles, lost>>

\* takeSnapshot: the new snapshot becomes the session's, or fails and is closed
Retake(c) ==
    LET s == at[c] IN
    /\ pc[c] = "retake"
    /\ \/ \E new \in Fresh :  /\ open' = open \cup {new}
                              /\ sess' = [sess EXCEPT ![s].snap = new]
                              /\ lost' = IF s \in Pooled THEN lost ELSE lost \cup {new}
       \/ UNCHANGED <<sess, open, lost>>
    /\ Return(c)
    /\ UNCHANGED <<pool, owned, handles>>

(***************************************************************************)
(* Closing                                                                 *)
(***************************************************************************)
\* close operation: pool.remove does not look at who uses the session
OpClose(c, s) ==
    /\ pc[c] = "idle" /\ s \in Pooled
    /\ Close(s) /\ pool' = Without({s})
    /\ UNCHANGED <<refs, mu, callVars, lost>>

\* the reaper closes an idle session that no call uses
Reap_InUse(s) ==
    /\ s \in Pooled
    /\ Close(s) /\ pool' = Without({s})
    /\ UNCHANGED <<refs, mu, callVars, lost>>
Reap(s) ==
    /\ s \in Pooled /\ refs[s] = 0
    /\ Close(s) /\ pool' = Without({s})
    /\ UNCHANGED <<refs, mu, callVars, lost>>

Next ==
    \/ \E c \in Calls :
          \/ Scan(c) \/ Drop(c)
          \/ OpRegions(c) \/ OpRead(c) \/ OpReadChain(c) \/ OpWrite(c) \/ OpDisasm(c)
          \/ OpStructSearch(c) \/ OpPointerScan(c) \/ OneShotDone(c)
          \/ \E operation \in Ops \ {"none"} : Lock(c, operation)
          \/ ReaderClosed(c) \/ OpFilter(c) \/ FilterDone(c) \/ FilterFailed(c)
          \/ FilterTorn(c) \/ OpUndo(c) \/ OpInfo(c) \/ OpDiff(c) \/ Retake(c)
          \/ \E s \in Sessions :
                \/ OpSearch(c, s) \/ OpSearchUnknown(c, s) \/ OpDiffProcess(c, s)
                \/ Get(c, s) \/ OpClose(c, s)
    \/ \E s \in Sessions : Reap(s)

Spec == Init /\ [][Next]_vars

(***************************************************************************)
(* Properties                                                              *)
(***************************************************************************)
\* Nothing leaks: every reader, store and snapshot that is not closed belongs
\* to a session of the pool, to a session some call still works on, or to a
\* call; the only exceptions are those of calls whose session the close
\* operation took away while they worked (session.go:185, handler.go:319).
NoLeak ==
    /\ open \subseteq Kept \cup lost
    /\ handles = Cardinality({s \in Sessions : sess[s].reader})
                   + Cardinality({c \in Calls : pc[c] \in {"made", "oneshot"}})

\* A session some call has acquired leaves the pool only by the close
\* operation: neither the reaper nor an eviction takes it (audit C2).
InUseSpared ==
    [][\A s \in Pooled : refs[s] > 0 /\ s \notin {pool'[i] : i \in DOMAIN pool'}
          => \E c \in Calls : OpClose(c, s)]_vars

\* The pool never holds more sessions than scanMaxSessions, or than there are
\* concurrent calls: add lets it grow only while all its sessions are in use.
PoolBound == Len(pool) <= Max({MaxSessions, Cardinality(Calls)})
=============================================================================
