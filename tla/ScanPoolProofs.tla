--------------------------- MODULE ScanPoolProofs ---------------------------
(***************************************************************************)
(* Proofs about memtool: about ScanPool for any number of calls, sessions  *)
(* and objects and any limits of the pool and the undo stack, and about    *)
(* MemSearch for memories and lists of any length and chunks of any size.  *)
(***************************************************************************)
EXTENDS ScanPool, MCMemSearch, FiniteSetTheorems, WellFoundedInduction, SequenceTheorems, TLAPS

SessRec == [reader : BOOLEAN, store : Ref, snap : Ref, unknown : BOOLEAN, sized : BOOLEAN, undo : Seq(Entry)]
Typed ==
    /\ pool \in Seq(Sessions) /\ sess \in [Sessions -> SessRec] /\ refs \in [Sessions -> Nat]
    /\ mu \in [Sessions -> Calls \cup {None}] /\ pc \in [Calls -> Steps] /\ op \in [Calls -> Ops]
    /\ at \in [Calls -> Sessions \cup {None}] /\ owned \in [Calls -> Ref] /\ open \subseteq Objects
    /\ handles \in Int

\* A session is in the pool once, and has a reader as long as it is there.
PoolInv ==
    /\ \A i, j \in DOMAIN pool : pool[i] = pool[j] => i = j
    /\ \A s \in Sessions : sess[s].reader <=> s \in Pooled

\* What a call has in hand: a session from get to return, its mutex while it
\* works, an object of its own while it scans; the store that a filter is about
\* to replace is on the undo stack, the snapshot that diff is about to replace
\* is gone.
Working == {"work", "scan", "retake"}
CallInv(c) ==
    /\ pc[c] \in {"idle", "made", "oneshot"} <=> at[c] = None
    /\ pc[c] \in Working => mu[at[c]] = c
    /\ owned[c] # Null => pc[c] \in {"made", "scan"}
    /\ pc[c] = "scan" /\ at[c] \in Pooled =>
          \E i \in DOMAIN sess[at[c]].undo : sess[at[c]].undo[i].store = sess[at[c]].store
    /\ pc[c] = "retake" /\ at[c] \in Pooled => sess[at[c]].snap = Null

\* The references count the calls that have the session.
RefInv == \A s \in Sessions : refs[s] = Cardinality(Users(s))

\* Every open object is held by a session of the pool or by a call, or was of a
\* call whose session was closed.
OpenInv ==
    \A o \in open : o \in lost \/ (\E s \in Pooled : o \in Held(s)) \/ (\E c \in Calls : o = owned[c])

\* Every handle is the reader of a session or of a call.
Readers == {s \in Sessions : sess[s].reader}
Busy    == {c \in Calls : pc[c] \in {"made", "oneshot"}}
HandleInv == handles = Cardinality(Readers) + Cardinality(Busy)

Bounded == Len(pool) <= MaxSessions \/ Len(pool) <= Cardinality(Calls)

ScanInv ==
    Typed /\ PoolInv /\ (\A c \in Calls : CallInv(c)) /\ RefInv /\ OpenInv /\ HandleInv /\ Bounded

-----------------------------------------------------------------------------
\* The pool without one of its sessions.
LEMMA WithoutNone == Without({}) = pool
  BY DEF Without
LEMMA WithoutOne ==
    ASSUME Typed, PoolInv, NEW s \in Pooled
    PROVE  LET p == Without({s}) IN
           /\ p \in Seq(Sessions) /\ Len(p) = Len(pool) - 1
           /\ \A i, j \in DOMAIN p : p[i] = p[j] => i = j
           /\ \A t : (\E i \in DOMAIN p : p[i] = t) <=> t \in Pooled \ {s}
<1> DEFINE k == CHOOSE i \in DOMAIN pool : pool[i] \in {s}
           p == [j \in 1 .. Len(pool) - 1 |-> IF j < k THEN pool[j] ELSE pool[j + 1]]
<1>1. k \in 1 .. Len(pool) /\ pool[k] = s /\ Len(pool) \in Nat /\ DOMAIN pool = 1 .. Len(pool)
  BY DEF Typed, Pooled
<1>2. Without({s}) = p
  BY DEF Without
<1> HIDE DEF k
<1>3. p \in Seq(Sessions) /\ Len(p) = Len(pool) - 1 /\ DOMAIN p = 1 .. Len(pool) - 1
  BY <1>1 DEF Typed
<1>4. \A i \in DOMAIN p : p[i] = IF i < k THEN pool[i] ELSE pool[i + 1]
  BY <1>3
<1> HIDE DEF p
<1>5. \A i, j \in DOMAIN p : p[i] = p[j] => i = j
  BY <1>1, <1>3, <1>4 DEF PoolInv
<1>6. ASSUME NEW i \in DOMAIN p PROVE p[i] \in Pooled \ {s}
  BY <1>1, <1>3, <1>4 DEF PoolInv, Pooled
<1>7. ASSUME NEW t \in Pooled, t # s PROVE \E i \in DOMAIN p : p[i] = t
  <2>1. PICK i \in 1 .. Len(pool) : pool[i] = t
    BY <1>1 DEF Pooled
  <2>2. CASE i < k
    BY <1>1, <1>3, <1>4, <2>1, <2>2
  <2>3. CASE i > k
    <3>1. i - 1 \in DOMAIN p /\ p[i - 1] = pool[i]
      BY <1>1, <1>3, <1>4, <2>3
    <3> QED BY <2>1, <3>1
  <2> QED BY <1>1, <1>7, <2>1, <2>2, <2>3
<1>8. \A t : (\E i \in DOMAIN p : p[i] = t) <=> t \in Pooled \ {s}
  BY <1>6, <1>7
<1> QED BY <1>2, <1>3, <1>5, <1>8

\* A session is put at the end of the pool.
LEMMA AppendOne ==
    ASSUME NEW p \in Seq(Sessions), NEW s \in Sessions, \A i, j \in DOMAIN p : p[i] = p[j] => i = j,
           \A i \in DOMAIN p : p[i] # s, pool' = Append(p, s)
    PROVE  /\ pool' \in Seq(Sessions) /\ Len(pool') = Len(p) + 1
           /\ \A i, j \in DOMAIN pool' : pool'[i] = pool'[j] => i = j
           /\ \A t : t \in Pooled' <=> t = s \/ \E i \in DOMAIN p : p[i] = t
<1>1. /\ pool' \in Seq(Sessions) /\ Len(pool') = Len(p) + 1 /\ Len(p) \in Nat
      /\ DOMAIN p = 1 .. Len(p) /\ DOMAIN pool' = 1 .. Len(p) + 1
      /\ \A i \in 1 .. Len(p) : pool'[i] = p[i]
      /\ pool'[Len(p) + 1] = s
  OBVIOUS
<1>2. \A i \in DOMAIN pool' : i \in DOMAIN p \/ i = Len(p) + 1
  BY <1>1
<1>3. \A i, j \in DOMAIN pool' : pool'[i] = pool'[j] => i = j
  BY <1>1, <1>2
<1>4. \A t : t \in Pooled' <=> t = s \/ \E i \in DOMAIN p : p[i] = t
  <2>1. \A t \in Pooled' : t = s \/ \E i \in DOMAIN p : p[i] = t
    BY <1>1, <1>2 DEF Pooled
  <2>2. \A i \in DOMAIN p : p[i] \in Pooled'
    BY <1>1 DEF Pooled
  <2>3. s \in Pooled'
    BY <1>1 DEF Pooled
  <2> QED BY <2>1, <2>2, <2>3
<1> QED BY <1>1, <1>3, <1>4

\* The session is released.
LEMMA Released ==
    ASSUME ScanInv, NEW c \in Calls, NEW s \in Sessions, at[c] = s, Return(c)
    PROVE  /\ RefInv' /\ refs' \in [Sessions -> Nat]
           /\ mu' \in [Sessions -> Calls \cup {None}] /\ pc' \in [Calls -> Steps] /\ op' \in [Calls -> Ops]
           /\ at' \in [Calls -> Sessions \cup {None}]
           /\ pc'[c] = "idle" /\ at'[c] = None
           /\ \A d \in Calls \ {c} : pc'[d] = pc[d] /\ at'[d] = at[d]
           /\ \A t \in Sessions \ {s} : mu'[t] = mu[t]
           /\ Busy' = Busy
<1>1. \A t \in Sessions : IsFiniteSet(Users(t))
  BY ScanAssumption, FS_Subset DEF Users
<1>2. at' = [at EXCEPT ![c] = None] /\ None \notin Sessions /\ at \in [Calls -> Sessions \cup {None}]
  BY ScanAssumption DEF Return, None, ScanInv, Typed
<1>3. Users(s)' = Users(s) \ {c} /\ c \in Users(s)
  BY <1>2 DEF Users
<1>4. \A t \in Sessions \ {s} : Users(t)' = Users(t)
  BY <1>2 DEF Users
<1>5. refs' = [refs EXCEPT ![s] = @ - 1] /\ refs \in [Sessions -> Nat]
  BY DEF Return, ScanInv, Typed
<1>6. refs[s] = Cardinality(Users(s)) /\ Cardinality(Users(s)) \in Nat \ {0}
  <2>1. Cardinality(Users(s)) \in Nat /\ Cardinality(Users(s)) # 0
    BY <1>1, <1>3, FS_CardinalityType, FS_EmptySet
  <2> QED BY <2>1 DEF ScanInv, RefInv
<1>7. Cardinality(Users(s) \ {c}) = Cardinality(Users(s)) - 1
  BY <1>1, <1>3, FS_RemoveElement
<1>8. ASSUME NEW t \in Sessions PROVE refs'[t] = Cardinality(Users(t)')
  <2>1. CASE t = s
    BY <1>3, <1>5, <1>6, <1>7, <2>1
  <2>2. CASE t # s
    BY <1>4, <1>5, <2>2 DEF ScanInv, RefInv
  <2> QED BY <2>1, <2>2
<1>9. RefInv' /\ refs' \in [Sessions -> Nat]
  BY <1>5, <1>6, <1>8 DEF RefInv
<1>10. /\ mu' \in [Sessions -> Calls \cup {None}] /\ pc' \in [Calls -> Steps] /\ op' \in [Calls -> Ops]
       /\ at' \in [Calls -> Sessions \cup {None}] /\ pc'[c] = "idle" /\ at'[c] = None
       /\ \A d \in Calls \ {c} : pc'[d] = pc[d] /\ at'[d] = at[d]
       /\ \A t \in Sessions \ {s} : mu'[t] = mu[t]
  BY DEF Return, ScanInv, Typed, Steps, Ops
<1>11. Busy' = Busy
  BY <1>2, <1>10 DEF ScanInv, CallInv, Busy
<1> QED BY <1>9, <1>10, <1>11

-----------------------------------------------------------------------------
\* The objects of a session with these fields.
HeldOf(k) == ({k.store, k.snap} \cup {k.undo[i].store : i \in DOMAIN k.undo}) \ {Null}

\* A step of call c on its session s, whose mutex it holds: what it leaves open
\* is still held, and it leaves the call with what it should have.
Covered(c, s, k) ==
    \A o \in open' : \/ o = owned'[c] \/ o \in lost' \/ (s \in Pooled /\ o \in HeldOf(k))
                     \/ o \in open /\ o # owned[c] /\ ~(s \in Pooled /\ o \in Held(s))
Stays(c) ==
    UNCHANGED <<refs, mu, at, op>> /\ pc' \in {[pc EXCEPT ![c] = "scan"], [pc EXCEPT ![c] = "retake"]}
LEMMA OnSession ==
    ASSUME ScanInv, NEW c \in Calls, NEW s \in Sessions, at[c] = s, pc[c] \in Working,
           NEW k \in SessRec, k.reader = sess[s].reader, sess' = [sess EXCEPT ![s] = k],
           pool' = pool, handles' = handles,
           Return(c) \/ Stays(c),
           owned' \in [Calls -> Ref], \A d \in Calls \ {c} : owned'[d] = owned[d],
           CallInv(c)', lost \subseteq lost', open' \subseteq Objects, Covered(c, s, k)
    PROVE  ScanInv'
<1>1. /\ RefInv' /\ refs' \in [Sessions -> Nat] /\ mu' \in [Sessions -> Calls \cup {None}]
      /\ pc' \in [Calls -> Steps] /\ op' \in [Calls -> Ops] /\ at' \in [Calls -> Sessions \cup {None}]
      /\ \A d \in Calls \ {c} : pc'[d] = pc[d] /\ at'[d] = at[d]
      /\ \A t \in Sessions \ {s} : mu'[t] = mu[t]
      /\ Busy' = Busy
  <2>1. CASE Return(c)
    BY <2>1, Released
  <2>2. CASE Stays(c)
    <3>1. RefInv'
      BY <2>2 DEF ScanInv, RefInv, Users, Stays
    <3>2. pc' \in [Calls -> Steps] /\ \A d \in Calls \ {c} : pc'[d] = pc[d]
      BY <2>2 DEF ScanInv, Typed, Steps, Stays
    <3>3. Busy' = Busy
      BY <2>2 DEF ScanInv, Typed, Busy, Working, Stays
    <3> QED BY <2>2, <3>1, <3>2, <3>3 DEF ScanInv, Typed, Stays
  <2> QED BY <2>1, <2>2
<1>2. sess' \in [Sessions -> SessRec] /\ sess'[s] = k /\ \A t \in Sessions \ {s} : sess'[t] = sess[t]
  BY DEF ScanInv, Typed
<1>3. Typed'
  BY <1>1, <1>2 DEF ScanInv, Typed
<1>4. Pooled' = Pooled /\ Pooled \subseteq Sessions
  BY DEF Pooled, ScanInv, Typed
<1>5. PoolInv'
  BY <1>2, <1>4 DEF ScanInv, PoolInv
<1>6. ASSUME NEW d \in Calls \ {c} PROVE CallInv(d)'
  <2>1. CallInv(d) /\ pc'[d] = pc[d] /\ at'[d] = at[d] /\ owned'[d] = owned[d] /\ CallInv(c)
    BY <1>1 DEF ScanInv
  <2>2. CASE at[d] = s
    <3>1. pc[d] \notin Working
      BY <2>1, <2>2 DEF CallInv
    <3> QED BY <2>1, <3>1 DEF CallInv, Working
  <2>3. CASE at[d] \in Sessions \ {s}
    BY <1>1, <1>2, <1>4, <2>1, <2>3 DEF CallInv
  <2>4. CASE at[d] = None
    BY <2>1, <2>4 DEF CallInv, Working
  <2> QED BY <2>2, <2>3, <2>4 DEF ScanInv, Typed
<1>7. OpenInv'
  <2>1. \A t \in Sessions \ {s} : Held(t)' = Held(t)
    BY <1>2 DEF Held
  <2>2. Held(s)' = HeldOf(k)
    BY <1>2 DEF Held, HeldOf
  <2>3. ASSUME NEW o \in open'
        PROVE  o \in lost' \/ (\E t \in Pooled' : o \in Held(t)') \/ (\E d \in Calls : o = owned'[d])
    <3>1. CASE o = owned'[c] \/ o \in lost' \/ (s \in Pooled /\ o \in HeldOf(k))
      BY <1>4, <2>2, <3>1
    <3>2. CASE o \in open /\ o # owned[c] /\ ~(s \in Pooled /\ o \in Held(s))
      <4>1. o \in lost \/ (\E t \in Pooled : o \in Held(t)) \/ (\E d \in Calls : o = owned[d])
        BY <3>2 DEF ScanInv, OpenInv
      <4>2. ASSUME NEW t \in Pooled, o \in Held(t) PROVE o \in Held(t)'
        BY <1>4, <2>1, <3>2, <4>2
      <4>3. ASSUME NEW d \in Calls, o = owned[d] PROVE o = owned'[d]
        BY <3>2, <4>3
      <4> QED BY <1>4, <4>1, <4>2, <4>3
    <3> QED BY <3>1, <3>2 DEF Covered
  <2> QED BY <2>3 DEF OpenInv
<1>8. HandleInv'
  <2>1. Readers' = Readers
    BY <1>2 DEF Readers
  <2> QED BY <1>1, <2>1 DEF ScanInv, HandleInv
<1>9. Bounded'
  BY DEF ScanInv, Bounded
<1> QED BY <1>1, <1>3, <1>5, <1>6, <1>7, <1>8, <1>9 DEF ScanInv
-----------------------------------------------------------------------------
\* After a call returns it has nothing in hand.
LEMMA ReturnedCall ==
    ASSUME ScanInv, NEW c \in Calls, NEW s \in Sessions, at[c] = s, Return(c), owned'[c] = Null
    PROVE  CallInv(c)'
<1>1. pc'[c] = "idle" /\ at'[c] = None
  BY Released
<1> QED BY <1>1 DEF CallInv, Working

\* The session of a call that works.
LEMMA AtSession ==
    ASSUME ScanInv, NEW c \in Calls, pc[c] \in Working
    PROVE  at[c] \in Sessions /\ sess[at[c]] \in SessRec /\ mu[at[c]] = c
  BY DEF ScanInv, Typed, CallInv, Working

\* An object that is made is new.
LEMMA FreshObjects ==
    ASSUME NEW o \in Fresh PROVE o \in Objects /\ o # Null /\ o \notin open /\ \A s \in Sessions : o \notin Held(s)
  BY DEF Fresh, Unused, Objects, Null

LEMMA NothingDoneStep ==
    ASSUME ScanInv, NEW c \in Calls, ReaderClosed(c) \/ OpInfo(c) PROVE ScanInv'
<1>1. pc[c] = "work" /\ Return(c) /\ UNCHANGED <<pool, sess, owned, open, handles, lost>>
  BY DEF ReaderClosed, OpInfo
<1>2. PICK s \in Sessions : at[c] = s /\ sess[s] \in SessRec
  BY <1>1, AtSession DEF Working
<1> DEFINE k == sess[s]
<1>3. sess' = [sess EXCEPT ![s] = k] /\ owned'[c] = Null
  BY <1>1 DEF ScanInv, Typed, CallInv
<1>4. CallInv(c)'
  BY <1>1, <1>2, <1>3, ReturnedCall
<1>5. Held(s) = HeldOf(k)
  BY DEF Held, HeldOf
<1>6. owned' \in [Calls -> Ref] /\ (\A d \in Calls \ {c} : owned'[d] = owned[d]) /\ open' \subseteq Objects
  BY <1>1 DEF ScanInv, Typed
<1>7. Covered(c, s, k)
  BY <1>1, <1>3, <1>5 DEF Covered
<1> QED BY <1>1, <1>2, <1>3, <1>4, <1>6, <1>7, OnSession DEF Working

\* The current store goes to the undo stack; the oldest store of a full stack is closed.
LEMMA OpFilterStep ==
    ASSUME ScanInv, NEW c \in Calls, OpFilter(c) PROVE ScanInv'
<1>1. pc[c] = "work"
  BY DEF OpFilter
<1>2. PICK s \in Sessions : at[c] = s /\ sess[s] \in SessRec
  BY <1>1, AtSession DEF Working
<1> DEFINE entry == [store |-> sess[s].store, unknown |-> sess[s].unknown]
           stack == Append(sess[s].undo, entry)
           push  == PushUndo(s)
           k     == [sess[s] EXCEPT !.undo = push.stack]
<1>3. PICK new \in Fresh :
         /\ sess' = [sess EXCEPT ![s] = k] /\ open' = (open \ push.closed) \cup {new}
         /\ owned' = [owned EXCEPT ![c] = new] /\ pc' = [pc EXCEPT ![c] = "scan"]
         /\ UNCHANGED <<pool, refs, mu, op, at, handles, lost>>
  BY <1>2 DEF OpFilter
<1>4. /\ entry \in Entry /\ sess[s].undo \in Seq(Entry) /\ stack \in Seq(Entry)
      /\ Len(stack) = Len(sess[s].undo) + 1 /\ stack[Len(stack)] = entry /\ Len(sess[s].undo) \in Nat
      /\ \A i \in DOMAIN sess[s].undo : stack[i] = sess[s].undo[i]
  BY <1>2 DEF SessRec, Entry
<1>5. entry.store = sess[s].store
  OBVIOUS
<1> HIDE DEF entry
<1>6. /\ push.stack \in Seq(Entry)
      /\ \E i \in DOMAIN push.stack : push.stack[i].store = sess[s].store
      /\ \A i \in DOMAIN sess[s].undo :
            sess[s].undo[i].store \in push.closed \/ \E j \in DOMAIN push.stack : push.stack[j].store = sess[s].undo[i].store
  <2> HIDE DEF stack
  <2>1. CASE Len(stack) > MaxUndo
    <3>1. push.stack = Tail(stack) /\ push.closed = {stack[1].store}
      BY <2>1 DEF PushUndo, stack, entry
    <3>2. /\ Tail(stack) \in Seq(Entry) /\ Len(Tail(stack)) = Len(stack) - 1
          /\ DOMAIN Tail(stack) = 1 .. Len(stack) - 1
          /\ \A i \in 1 .. Len(stack) - 1 : Tail(stack)[i] = stack[i + 1]
      BY <1>4
    <3>3. Len(stack) - 1 \in DOMAIN Tail(stack) /\ Tail(stack)[Len(stack) - 1] = entry
      BY <1>4, <2>1, <3>2, ScanAssumption
    <3>4. ASSUME NEW i \in DOMAIN sess[s].undo, i # 1
          PROVE  i - 1 \in DOMAIN Tail(stack) /\ Tail(stack)[i - 1] = sess[s].undo[i]
      BY <1>4, <3>2, <3>4
    <3>5. 1 \in DOMAIN sess[s].undo => stack[1] = sess[s].undo[1]
      BY <1>4
    <3>6. \A i \in DOMAIN sess[s].undo :
             sess[s].undo[i].store \in push.closed \/ \E j \in DOMAIN push.stack : push.stack[j].store = sess[s].undo[i].store
      BY <3>1, <3>4, <3>5
    <3> QED BY <1>5, <3>1, <3>2, <3>3, <3>6
  <2>2. CASE ~(Len(stack) > MaxUndo)
    <3>1. push.stack = stack
      BY <2>2 DEF PushUndo, stack, entry
    <3>2. DOMAIN stack = 1 .. Len(stack) /\ DOMAIN sess[s].undo \subseteq DOMAIN stack
      BY <1>4
    <3>3. Len(stack) \in DOMAIN stack /\ stack[Len(stack)].store = sess[s].store
      BY <1>4, <1>5, <3>2
    <3> QED BY <1>4, <3>1, <3>2, <3>3
  <2> QED BY <2>1, <2>2
<1> HIDE DEF push, stack
<1>7. /\ k \in SessRec /\ k.reader = sess[s].reader /\ k.store = sess[s].store /\ k.snap = sess[s].snap
      /\ k.undo = push.stack
  BY <1>2, <1>6 DEF SessRec
<1> HIDE DEF k
<1>8. \A o \in Held(s) : o \in push.closed \/ o \in HeldOf(k)
  BY <1>6, <1>7 DEF Held, HeldOf
<1>9. new \in Objects /\ owned[c] = Null
  BY <1>1, <1>3, FreshObjects DEF ScanInv, CallInv
<1>10. CallInv(c)'
  <2>1. pc'[c] = "scan" /\ at'[c] = s /\ sess'[s] = k /\ mu'[s] = c
    BY <1>1, <1>2, <1>3, AtSession DEF ScanInv, Typed, Working
  <2>2. s # None
    BY ScanAssumption DEF None
  <2> QED BY <1>6, <1>7, <2>1, <2>2 DEF CallInv, Working
<1>11. open' \subseteq Objects /\ owned' \in [Calls -> Ref] /\ owned'[c] = new
  BY <1>3, <1>9 DEF ScanInv, Typed, Ref
<1>12. \A d \in Calls \ {c} : owned'[d] = owned[d]
  BY <1>3 DEF ScanInv, Typed
<1>13. \A o \in open : o # owned[c]
  BY <1>9 DEF ScanInv, Typed, Objects, Null
<1>14. Covered(c, s, k)
  <2>1. new \notin Held(s)
    BY <1>3, FreshObjects
  <2> QED BY <1>3, <1>8, <1>11, <2>1, <1>13 DEF Covered
<1>15. lost \subseteq lost' /\ Stays(c)
  BY <1>3 DEF Stays
<1> QED BY <1>1, <1>2, <1>3, <1>7, <1>10, <1>11, <1>12, <1>14, <1>15, OnSession DEF Working

\* popUndo: what the session no longer holds is closed.
LEMMA Popped ==
    ASSUME NEW s \in Sessions, sess[s] \in SessRec
    PROVE  LET k == PopUndo(s).session IN
           /\ k \in SessRec /\ k.reader = sess[s].reader
           /\ \A o \in Held(s) : o \in PopUndo(s).closed \/ o \in HeldOf(k)
<1> DEFINE undo == sess[s].undo
           last == undo[Len(undo)]
           k == [sess[s] EXCEPT !.undo = SubSeq(@, 1, Len(@) - 1), !.store = last.store, !.unknown = last.unknown]
<1>1. undo \in Seq(Entry) /\ sess[s].store \in Ref /\ sess[s].snap \in Ref
  BY DEF SessRec
<1>2. CASE undo = <<>>
  <2>1. PopUndo(s).session = sess[s]
    BY <1>2 DEF PopUndo
  <2> QED BY <2>1 DEF Held, HeldOf
<1>3. CASE undo # <<>>
  <2>1. PopUndo(s).session = k /\ PopUndo(s).closed = {sess[s].store}
    BY <1>3 DEF PopUndo
  <2>2. Len(undo) \in Nat \ {0} /\ DOMAIN undo = 1 .. Len(undo) /\ last \in Entry
    BY <1>1, <1>3
  <2>3. last.store \in Ref /\ last.unknown \in BOOLEAN
    BY <2>2 DEF Entry
  <2>4. LET u == SubSeq(undo, 1, Len(undo) - 1) IN
        u \in Seq(Entry) /\ DOMAIN u = 1 .. Len(undo) - 1 /\ \A i \in 1 .. Len(undo) - 1 : u[i] = undo[i]
    BY <1>1, <2>2
  <2> HIDE DEF last
  <2>5. /\ k \in SessRec /\ k.reader = sess[s].reader /\ k.store = last.store /\ k.snap = sess[s].snap
        /\ k.undo = SubSeq(undo, 1, Len(undo) - 1)
    BY <2>3, <2>4 DEF SessRec
  <2> HIDE DEF k
  <2>6. \A i \in DOMAIN undo : undo[i].store = Null \/ undo[i].store \in HeldOf(k)
    <3>1. \A i \in 1 .. Len(undo) - 1 : undo[i].store = Null \/ undo[i].store \in HeldOf(k)
      BY <2>4, <2>5 DEF HeldOf
    <3>2. undo[Len(undo)].store = Null \/ undo[Len(undo)].store \in HeldOf(k)
      BY <2>5 DEF HeldOf, last
    <3> QED BY <2>2, <3>1, <3>2
  <2>7. \A o \in Held(s) : o \in {sess[s].store} \/ o \in HeldOf(k)
    BY <2>5, <2>6 DEF Held, HeldOf
  <2> QED BY <2>1, <2>5, <2>7
<1> QED BY <1>2, <1>3

LEMMA OpUndoStep == ASSUME ScanInv, NEW c \in Calls, OpUndo(c) PROVE ScanInv'
<1>1. pc[c] = "work" /\ owned[c] = Null
  BY DEF OpUndo, ScanInv, CallInv
<1>2. PICK s \in Sessions : at[c] = s /\ sess[s] \in SessRec
  BY <1>1, AtSession DEF Working
<1> DEFINE k == PopUndo(s).session
           closed == PopUndo(s).closed
<1>3. /\ sess' = [sess EXCEPT ![s] = k] /\ open' = open \ closed /\ Return(c)
      /\ UNCHANGED <<pool, owned, handles, lost>>
  BY <1>2 DEF OpUndo
<1>4. k \in SessRec /\ k.reader = sess[s].reader /\ \A o \in Held(s) : o \in closed \/ o \in HeldOf(k)
  BY <1>2, Popped
<1> HIDE DEF k, closed
<1>5. CallInv(c)'
  BY <1>1, <1>2, <1>3, ReturnedCall
<1>6. open' \subseteq Objects /\ owned' \in [Calls -> Ref] /\ \A d \in Calls \ {c} : owned'[d] = owned[d]
  BY <1>3 DEF ScanInv, Typed
<1>7. Covered(c, s, k)
  BY <1>3, <1>4 DEF Covered
<1> QED BY <1>1, <1>2, <1>3, <1>4, <1>5, <1>6, <1>7, OnSession DEF Working

\* The filter is over: its store is the session's, or is closed, or nobody's when
\* the session was closed under it.
LEMMA FilterDoneStep == ASSUME ScanInv, NEW c \in Calls, FilterDone(c) PROVE ScanInv'
<1>1. pc[c] = "scan" /\ CallInv(c) /\ owned[c] \in Ref
  BY DEF FilterDone, ScanInv, Typed
<1>2. PICK s \in Sessions : at[c] = s /\ sess[s] \in SessRec
  BY <1>1, AtSession DEF Working
<1> DEFINE k == [sess[s] EXCEPT !.store = owned[c], !.unknown = @ /\ sess[s].snap = Null]
<1>3. /\ sess' = [sess EXCEPT ![s] = k] /\ owned' = [owned EXCEPT ![c] = Null] /\ Return(c)
      /\ lost' = (IF s \in Pooled THEN lost ELSE lost \cup {owned[c]})
      /\ UNCHANGED <<pool, open, handles>>
  BY <1>2 DEF FilterDone
<1>4. /\ k \in SessRec /\ k.reader = sess[s].reader /\ k.store = owned[c] /\ k.snap = sess[s].snap
      /\ k.undo = sess[s].undo
  BY <1>1, <1>2 DEF SessRec
<1> HIDE DEF k
<1>5. owned' \in [Calls -> Ref] /\ owned'[c] = Null /\ \A d \in Calls \ {c} : owned'[d] = owned[d]
  BY <1>3 DEF ScanInv, Typed, Ref
<1>6. CallInv(c)'
  BY <1>1, <1>2, <1>3, <1>5, ReturnedCall
<1>7. open' \subseteq Objects /\ lost \subseteq lost'
  BY <1>3 DEF ScanInv, Typed
<1>8. Covered(c, s, k)
  <2>1. s \in Pooled => \A o \in Held(s) : o \in HeldOf(k)
    BY <1>1, <1>2, <1>4 DEF CallInv, Held, HeldOf
  <2>2. \A o \in open' : o # Null
    BY <1>7 DEF Objects, Null
  <2> QED BY <1>3, <1>4, <2>1, <2>2 DEF Covered, HeldOf
<1> QED BY <1>1, <1>2, <1>3, <1>4, <1>5, <1>6, <1>7, <1>8, OnSession DEF Working

LEMMA FilterFailedStep == ASSUME ScanInv, NEW c \in Calls, FilterFailed(c) PROVE ScanInv'
<1>1. pc[c] = "scan"
  BY DEF FilterFailed
<1>2. PICK s \in Sessions : at[c] = s /\ sess[s] \in SessRec
  BY <1>1, AtSession DEF Working
<1> DEFINE k == PopUndo(s).session
           closed == PopUndo(s).closed
<1>3. /\ sess' = [sess EXCEPT ![s] = k] /\ open' = (open \ {owned[c]}) \ closed
      /\ owned' = [owned EXCEPT ![c] = Null] /\ Return(c) /\ UNCHANGED <<pool, handles, lost>>
  BY <1>2 DEF FilterFailed
<1>4. k \in SessRec /\ k.reader = sess[s].reader /\ \A o \in Held(s) : o \in closed \/ o \in HeldOf(k)
  BY <1>2, Popped
<1> HIDE DEF k, closed
<1>5. owned' \in [Calls -> Ref] /\ owned'[c] = Null /\ \A d \in Calls \ {c} : owned'[d] = owned[d]
  BY <1>3 DEF ScanInv, Typed, Ref
<1>6. CallInv(c)'
  BY <1>1, <1>2, <1>3, <1>5, ReturnedCall
<1>7. open' \subseteq Objects
  BY <1>3 DEF ScanInv, Typed
<1>8. Covered(c, s, k)
  BY <1>3, <1>4 DEF Covered
<1> QED BY <1>1, <1>2, <1>3, <1>4, <1>5, <1>6, <1>7, <1>8, OnSession DEF Working

LEMMA FilterTornStep == ASSUME ScanInv, NEW c \in Calls, FilterTorn(c) PROVE ScanInv'
<1>1. pc[c] = "scan"
  BY DEF FilterTorn
<1>2. PICK s \in Sessions : at[c] = s /\ sess[s] \in SessRec
  BY <1>1, AtSession DEF Working
<1> DEFINE k == sess[s]
<1>3. /\ sess' = [sess EXCEPT ![s] = k] /\ s \notin Pooled /\ lost' = lost \cup {owned[c]}
      /\ owned' = [owned EXCEPT ![c] = Null] /\ Return(c) /\ UNCHANGED <<pool, open, handles>>
  BY <1>2 DEF FilterTorn, ScanInv, Typed
<1>5. owned' \in [Calls -> Ref] /\ owned'[c] = Null /\ \A d \in Calls \ {c} : owned'[d] = owned[d]
  BY <1>3 DEF ScanInv, Typed, Ref
<1>6. CallInv(c)'
  BY <1>1, <1>2, <1>3, <1>5, ReturnedCall
<1>7. open' \subseteq Objects
  BY <1>3 DEF ScanInv, Typed
<1>8. Covered(c, s, k)
  BY <1>3 DEF Covered
<1> QED BY <1>1, <1>2, <1>3, <1>5, <1>6, <1>7, <1>8, OnSession DEF Working

\* The old snapshot is closed, then a new one taken.
LEMMA OpDiffStep == ASSUME ScanInv, NEW c \in Calls, OpDiff(c) PROVE ScanInv'
<1>1. pc[c] = "work" /\ owned[c] = Null
  BY DEF OpDiff, ScanInv, CallInv
<1>2. PICK s \in Sessions : at[c] = s /\ sess[s] \in SessRec
  BY <1>1, AtSession DEF Working
<1> DEFINE k == [sess[s] EXCEPT !.snap = Null]
<1>3. /\ sess' = [sess EXCEPT ![s] = k] /\ open' = open \ {sess[s].snap} /\ pc' = [pc EXCEPT ![c] = "retake"]
      /\ UNCHANGED <<pool, refs, mu, op, at, owned, handles, lost>>
  BY <1>2 DEF OpDiff
<1>4. /\ k \in SessRec /\ k.reader = sess[s].reader /\ k.store = sess[s].store /\ k.snap = Null
      /\ k.undo = sess[s].undo
  BY <1>2 DEF SessRec, Ref
<1> HIDE DEF k
<1>5. open' \subseteq Objects /\ owned' \in [Calls -> Ref] /\ \A d \in Calls \ {c} : owned'[d] = owned[d]
  BY <1>3 DEF ScanInv, Typed
<1>6. CallInv(c)'
  <2>1. pc'[c] = "retake" /\ at'[c] = s /\ sess'[s] = k /\ mu'[s] = c /\ owned'[c] = Null
    BY <1>1, <1>2, <1>3, AtSession DEF ScanInv, Typed, Working
  <2>2. s # None
    BY ScanAssumption DEF None
  <2> QED BY <1>4, <2>1, <2>2 DEF CallInv, Working
<1>7. Covered(c, s, k)
  <2>1. \A o \in Held(s) : o = sess[s].snap \/ o \in HeldOf(k)
    BY <1>4 DEF Held, HeldOf
  <2>2. \A o \in open' : o # Null
    BY <1>5 DEF Objects, Null
  <2> QED BY <1>1, <1>3, <2>1, <2>2 DEF Covered
<1>8. Stays(c)
  BY <1>3 DEF Stays
<1> QED BY <1>1, <1>2, <1>3, <1>4, <1>5, <1>6, <1>7, <1>8, OnSession DEF Working

LEMMA RetakeStep == ASSUME ScanInv, NEW c \in Calls, Retake(c) PROVE ScanInv'
<1>1. pc[c] = "retake" /\ owned[c] = Null /\ CallInv(c) /\ Return(c) /\ UNCHANGED <<pool, owned, handles>>
  BY DEF Retake, ScanInv, CallInv
<1>2. PICK s \in Sessions : at[c] = s /\ sess[s] \in SessRec
  BY <1>1, AtSession DEF Working
<1>3. owned' \in [Calls -> Ref] /\ owned'[c] = Null /\ \A d \in Calls \ {c} : owned'[d] = owned[d]
  BY <1>1 DEF ScanInv, Typed
<1>4. CallInv(c)'
  BY <1>1, <1>2, <1>3, ReturnedCall
<1>5. CASE UNCHANGED <<sess, open, lost>>
  <2> DEFINE k == sess[s]
  <2>1. sess' = [sess EXCEPT ![s] = k] /\ open' \subseteq Objects
    BY <1>5 DEF ScanInv, Typed
  <2>2. HeldOf(k) = Held(s)
    BY DEF Held, HeldOf
  <2>3. Covered(c, s, k)
    BY <1>1, <1>5, <2>2 DEF Covered
  <2> QED BY <1>1, <1>2, <1>3, <1>4, <1>5, <2>1, <2>3, OnSession DEF Working
<1>6. ASSUME NEW new \in Fresh, open' = open \cup {new}, sess' = [sess EXCEPT ![s].snap = new],
             lost' = IF s \in Pooled THEN lost ELSE lost \cup {new}
      PROVE  ScanInv'
  <2> DEFINE k == [sess[s] EXCEPT !.snap = new]
  <2>1. sess' = [sess EXCEPT ![s] = k] /\ new \in Objects /\ new # Null
    BY <1>6, FreshObjects
  <2>2. /\ k \in SessRec /\ k.reader = sess[s].reader /\ k.store = sess[s].store /\ k.snap = new
        /\ k.undo = sess[s].undo
    BY <1>2, <2>1 DEF SessRec, Ref
  <2> HIDE DEF k
  <2>3. open' \subseteq Objects /\ lost \subseteq lost'
    BY <1>6, <2>1 DEF ScanInv, Typed
  <2>4. Covered(c, s, k)
    <3>1. s \in Pooled => \A o \in Held(s) : o \in HeldOf(k)
      BY <1>1, <1>2, <2>2 DEF CallInv, Held, HeldOf
    <3>2. new \in HeldOf(k)
      BY <2>1, <2>2 DEF HeldOf
    <3>3. \A o \in open : o # owned[c]
      BY <1>1 DEF ScanInv, Typed, Objects, Null
    <3> QED BY <1>6, <3>1, <3>2, <3>3 DEF Covered
  <2> QED BY <1>1, <1>2, <1>3, <1>4, <2>1, <2>2, <2>3, <2>4, OnSession DEF Working
<1> QED BY <1>2, <1>5, <1>6 DEF Retake

-----------------------------------------------------------------------------
LEMMA LockStep ==
    ASSUME ScanInv, NEW c \in Calls, NEW operation \in Ops, Lock(c, operation) PROVE ScanInv'
<1>0. pc[c] = "lock" /\ CallInv(c) /\ at[c] \in Sessions \cup {None}
  BY DEF Lock, ScanInv, Typed
<1>1. PICK s \in Sessions : at[c] = s
  BY <1>0 DEF CallInv
<1>2. /\ pc[c] = "lock" /\ mu[s] = None /\ mu' = [mu EXCEPT ![s] = c] /\ pc' = [pc EXCEPT ![c] = "work"]
      /\ op' = [op EXCEPT ![c] = operation] /\ UNCHANGED <<pool, sess, refs, at, owned, open, handles, lost>>
  BY <1>1 DEF Lock
<1>3. Typed'
  BY <1>2 DEF ScanInv, Typed, Steps
<1>4. Pooled' = Pooled /\ Readers' = Readers /\ (\A t \in Sessions : Held(t)' = Held(t) /\ Users(t)' = Users(t))
  BY <1>2 DEF Pooled, Readers, Held, Users
<1>5. Busy' = Busy
  BY <1>2 DEF ScanInv, Typed, Busy
<1>6. ASSUME NEW d \in Calls PROVE CallInv(d)'
  <2>1. None \notin Calls /\ s # None
    BY ScanAssumption DEF None
  <2>2. CASE d = c
    BY <1>1, <1>2, <2>1, <2>2 DEF ScanInv, Typed, CallInv, Working
  <2>3. CASE d # c
    <3>1. CallInv(d) /\ pc'[d] = pc[d] /\ at'[d] = at[d] /\ owned'[d] = owned[d]
      BY <1>2, <2>3 DEF ScanInv, Typed
    <3>2. CASE at[d] = s
      <4>1. pc[d] \notin Working
        BY <1>2, <2>1, <3>1, <3>2 DEF CallInv
      <4> QED BY <3>1, <4>1 DEF CallInv, Working
    <3>3. CASE at[d] # s
      <4>1. at[d] \in Sessions => mu'[at[d]] = mu[at[d]]
        BY <1>2, <3>3 DEF ScanInv, Typed
      <4>2. at[d] \in Sessions \/ at[d] = None
        BY DEF ScanInv, Typed
      <4> QED BY <1>2, <1>4, <3>1, <4>1, <4>2 DEF CallInv, Working
    <3> QED BY <3>2, <3>3
  <2> QED BY <2>2, <2>3
<1>7. RefInv'
  BY <1>2, <1>4 DEF ScanInv, RefInv
<1>8. OpenInv'
  <2>1. Pooled \subseteq Sessions
    BY DEF ScanInv, Typed, Pooled
  <2> QED BY <1>2, <1>4, <2>1 DEF ScanInv, OpenInv
<1>9. PoolInv' /\ HandleInv' /\ Bounded'
  BY <1>2, <1>4, <1>5 DEF ScanInv, PoolInv, HandleInv, Bounded
<1> QED BY <1>3, <1>6, <1>7, <1>8, <1>9 DEF ScanInv

\* A step of a call that has no session.
Apart == {"idle", "made", "oneshot"}
LEMMA NoSession ==
    ASSUME ScanInv, NEW c \in Calls, NEW x \in Apart, pc[c] \in Apart, pc' = [pc EXCEPT ![c] = x],
           UNCHANGED <<pool, sess, refs, mu, op, at, lost>>,
           owned' \in [Calls -> Ref], \A d \in Calls \ {c} : owned'[d] = owned[d],
           owned'[c] # Null => x = "made", open' \subseteq Objects,
           \A o \in open' : o = owned'[c] \/ (o \in open /\ o # owned[c]),
           \/ pc[c] = "idle" /\ x # "idle" /\ handles' = handles + 1
           \/ pc[c] # "idle" /\ x = "idle" /\ handles' = handles - 1
    PROVE  ScanInv'
<1>1. Typed'
  <2>1. handles \in Int /\ pc \in [Calls -> Steps] /\ x \in Steps
    BY DEF ScanInv, Typed, Steps, Apart
  <2>2. handles' \in Int /\ pc' \in [Calls -> Steps]
    BY <2>1
  <2> QED BY <2>2 DEF ScanInv, Typed
<1>2. Pooled' = Pooled /\ Readers' = Readers /\ (\A t \in Sessions : Held(t)' = Held(t) /\ Users(t)' = Users(t))
  BY DEF Pooled, Readers, Held, Users
<1>3. ASSUME NEW d \in Calls PROVE CallInv(d)'
  BY <1>2 DEF ScanInv, Typed, CallInv, Working, Apart
<1>4. RefInv'
  BY <1>2 DEF ScanInv, RefInv
<1>5. OpenInv'
  <2>1. Pooled \subseteq Sessions
    BY DEF ScanInv, Typed, Pooled
  <2>2. ASSUME NEW o \in open'
        PROVE  o \in lost' \/ (\E t \in Pooled' : o \in Held(t)') \/ (\E d \in Calls : o = owned'[d])
    <3>1. CASE o \in open /\ o # owned[c]
      BY <1>2, <2>1, <3>1 DEF ScanInv, OpenInv
    <3> QED BY <3>1
  <2> QED BY <2>2 DEF OpenInv
<1>6. HandleInv'
  <2>1. IsFiniteSet(Busy) /\ IsFiniteSet(Readers)
    BY ScanAssumption, FS_Subset DEF Busy, Readers
  <2>2. Cardinality(Busy) \in Nat /\ Cardinality(Readers) \in Nat
    BY <2>1, FS_CardinalityType
  <2>3. CASE pc[c] = "idle" /\ x # "idle" /\ handles' = handles + 1
    <3>1. Busy' = Busy \cup {c} /\ c \notin Busy
      BY <2>3 DEF ScanInv, Typed, Busy, Apart
    <3>2. Cardinality(Busy') = Cardinality(Busy) + 1
      BY <2>1, <3>1, FS_AddElement
    <3> QED BY <1>2, <2>2, <2>3, <3>2 DEF ScanInv, HandleInv
  <2>4. CASE pc[c] # "idle" /\ x = "idle" /\ handles' = handles - 1
    <3>1. Busy' = Busy \ {c} /\ c \in Busy
      BY <2>4 DEF ScanInv, Typed, Busy, Apart
    <3>2. Cardinality(Busy') = Cardinality(Busy) - 1
      BY <2>1, <3>1, FS_RemoveElement
    <3> QED BY <1>2, <2>2, <2>4, <3>2 DEF ScanInv, HandleInv
  <2> QED BY <2>3, <2>4
<1>7. PoolInv' /\ Bounded'
  BY <1>2 DEF ScanInv, PoolInv, Bounded
<1> QED BY <1>1, <1>3, <1>4, <1>5, <1>6, <1>7 DEF ScanInv

LEMMA ScanStep == ASSUME ScanInv, NEW c \in Calls, Scan(c) PROVE ScanInv'
<1>1. PICK new \in Fresh : open' = open \cup {new} /\ owned' = [owned EXCEPT ![c] = new]
  BY DEF Scan
<1>2. pc[c] = "idle" /\ pc' = [pc EXCEPT ![c] = "made"] /\ handles' = handles + 1 /\ new \in Objects
  BY <1>1, FreshObjects DEF Scan
<1>3. owned' \in [Calls -> Ref] /\ open' \subseteq Objects /\ (\A d \in Calls \ {c} : owned'[d] = owned[d])
  BY <1>1, <1>2 DEF ScanInv, Typed, Ref
<1>4. \A o \in open' : o = owned'[c] \/ (o \in open /\ o # owned[c])
  <2>1. owned[c] = Null /\ open \subseteq Objects /\ owned'[c] = new
    BY <1>1, <1>2 DEF ScanInv, Typed, CallInv
  <2> QED BY <1>1, <2>1 DEF Objects, Null
<1>5. UNCHANGED <<pool, sess, refs, mu, op, at, lost>>
  BY DEF Scan
<1> QED BY <1>2, <1>3, <1>4, <1>5, NoSession DEF Apart

LEMMA DropStep == ASSUME ScanInv, NEW c \in Calls, Drop(c) PROVE ScanInv'
<1>1. /\ pc[c] = "made" /\ open' = open \ {owned[c]} /\ owned' = [owned EXCEPT ![c] = Null]
      /\ handles' = handles - 1 /\ pc' = [pc EXCEPT ![c] = "idle"]
      /\ UNCHANGED <<pool, sess, refs, mu, op, at, lost>>
  BY DEF Drop
<1>2. /\ owned' \in [Calls -> Ref] /\ open' \subseteq Objects /\ (\A d \in Calls \ {c} : owned'[d] = owned[d])
      /\ owned'[c] = Null
  BY <1>1 DEF ScanInv, Typed, Ref
<1>3. \A o \in open' : o = owned'[c] \/ (o \in open /\ o # owned[c])
  BY <1>1
<1> QED BY <1>1, <1>2, <1>3, NoSession DEF Apart

LEMMA OneShotStep == ASSUME ScanInv, NEW c \in Calls, OneShot(c) \/ OneShotDone(c) PROVE ScanInv'
<1>1. owned' = owned /\ open' = open /\ UNCHANGED <<pool, sess, refs, mu, op, at, lost>> /\ pc[c] \in {"idle", "oneshot"}
  BY DEF OneShot, OneShotDone
<1>2. owned' \in [Calls -> Ref] /\ open' \subseteq Objects /\ owned[c] = Null
  BY <1>1 DEF ScanInv, Typed, CallInv
<1>3. \A o \in open' : o = owned'[c] \/ (o \in open /\ o # owned[c])
  BY <1>1, <1>2 DEF Objects, Null
<1>4. CASE OneShot(c)
  <2>1. pc[c] = "idle" /\ pc' = [pc EXCEPT ![c] = "oneshot"] /\ handles' = handles + 1
    BY <1>4 DEF OneShot
  <2> QED BY <1>1, <1>2, <1>3, <2>1, NoSession DEF Apart
<1>5. CASE OneShotDone(c)
  <2>1. pc[c] = "oneshot" /\ pc' = [pc EXCEPT ![c] = "idle"] /\ handles' = handles - 1
    BY <1>5 DEF OneShotDone
  <2> QED BY <1>1, <1>2, <1>3, <2>1, NoSession DEF Apart
<1> QED BY <1>4, <1>5

-----------------------------------------------------------------------------
\* get moves the session to the end of the pool and counts the call.
LEMMA GetStep ==
    ASSUME ScanInv, NEW c \in Calls, NEW s \in Sessions, Get(c, s) PROVE ScanInv'
<1>1. /\ pc[c] = "idle" /\ s \in Pooled /\ pool' = Append(Without({s}), s)
      /\ refs' = [refs EXCEPT ![s] = @ + 1] /\ at' = [at EXCEPT ![c] = s] /\ pc' = [pc EXCEPT ![c] = "lock"]
      /\ UNCHANGED <<sess, mu, op, owned, open, handles, lost>> /\ Typed /\ PoolInv
  BY DEF Get, ScanInv
<1>2. /\ pool' \in Seq(Sessions) /\ Len(pool') = Len(pool)
      /\ \A i, j \in DOMAIN pool' : pool'[i] = pool'[j] => i = j
      /\ \A t : t \in Pooled' <=> t \in Pooled
  <2> DEFINE p == Without({s})
  <2>1. /\ p \in Seq(Sessions) /\ Len(p) = Len(pool) - 1
        /\ \A i, j \in DOMAIN p : p[i] = p[j] => i = j
        /\ \A t : (\E i \in DOMAIN p : p[i] = t) <=> t \in Pooled \ {s}
    BY <1>1, WithoutOne
  <2> HIDE DEF p
  <2>2. \A i \in DOMAIN p : p[i] # s
    BY <2>1
  <2>3. pool' = Append(p, s) /\ Len(pool) \in Nat
    BY <1>1 DEF p, Typed
  <2>4. /\ pool' \in Seq(Sessions) /\ Len(pool') = Len(p) + 1
        /\ \A i, j \in DOMAIN pool' : pool'[i] = pool'[j] => i = j
        /\ \A t : t \in Pooled' <=> t = s \/ \E i \in DOMAIN p : p[i] = t
    BY <2>1, <2>2, <2>3, AppendOne
  <2>5. Len(pool') = Len(pool)
    BY <2>1, <2>3, <2>4
  <2>6. \A t : t \in Pooled' <=> t \in Pooled
    BY <1>1, <2>1, <2>4
  <2> QED BY <2>4, <2>5, <2>6
<1>3. Typed'
  BY <1>1, <1>2 DEF Typed, Steps
<1>4. Pooled' = Pooled /\ Readers' = Readers /\ (\A t \in Sessions : Held(t)' = Held(t)) /\ Pooled \subseteq Sessions
  <2>1. Pooled' = Pooled
    BY <1>2
  <2>2. Pooled \subseteq Sessions
    BY <1>1 DEF Pooled, Typed
  <2> QED BY <1>1, <2>1, <2>2 DEF Readers, Held
<1>5. Busy' = Busy
  BY <1>1 DEF Typed, Busy
<1>6. s # None /\ at[c] = None
  BY <1>1, ScanAssumption DEF ScanInv, CallInv, None
<1>7. ASSUME NEW d \in Calls PROVE CallInv(d)'
  <2>1. CASE d = c
    BY <1>1, <1>6, <2>1 DEF ScanInv, Typed, CallInv, Working
  <2>2. CASE d # c
    <3>1. CallInv(d) /\ pc'[d] = pc[d] /\ at'[d] = at[d] /\ owned'[d] = owned[d]
      BY <1>1, <2>2 DEF ScanInv, Typed
    <3> QED BY <1>1, <1>4, <3>1 DEF CallInv
  <2> QED BY <2>1, <2>2
<1>8. RefInv'
  <2>1. Users(s)' = Users(s) \cup {c} /\ c \notin Users(s)
    BY <1>1, <1>6 DEF Typed, Users
  <2>2. \A t \in Sessions \ {s} : Users(t)' = Users(t)
    BY <1>1, <1>6, ScanAssumption DEF Typed, Users, None
  <2>3. IsFiniteSet(Users(s))
    BY ScanAssumption, FS_Subset DEF Users
  <2>4. Cardinality(Users(s) \cup {c}) = Cardinality(Users(s)) + 1
    BY <2>1, <2>3, FS_AddElement
  <2>5. ASSUME NEW t \in Sessions PROVE refs'[t] = Cardinality(Users(t)')
    <3>1. CASE t = s
      BY <1>1, <2>1, <2>4, <3>1 DEF ScanInv, RefInv, Typed
    <3>2. CASE t # s
      BY <1>1, <2>2, <3>2 DEF ScanInv, RefInv, Typed
    <3> QED BY <3>1, <3>2
  <2> QED BY <2>5 DEF RefInv
<1>9. OpenInv'
  BY <1>1, <1>4 DEF ScanInv, OpenInv
<1>10. PoolInv' /\ HandleInv' /\ Bounded'
  BY <1>1, <1>2, <1>4, <1>5 DEF ScanInv, PoolInv, HandleInv, Bounded
<1> QED BY <1>3, <1>7, <1>8, <1>9, <1>10 DEF ScanInv

\* A session with its fields cleared.
LEMMA ClearedFields ==
    ASSUME ScanInv, NEW s \in Sessions PROVE Cleared(s) \in SessRec /\ ~Cleared(s).reader
<1>1. sess[s].sized \in BOOLEAN /\ sess[s].unknown \in BOOLEAN /\ <<>> \in Seq(Entry) /\ Null \in Ref
  BY DEF ScanInv, Typed, SessRec, Ref
<1>2. Empty \in SessRec /\ Empty.reader = FALSE
  BY <1>1 DEF Empty, SessRec
<1>3. CASE refs[s] = 0
  BY <1>2, <1>3 DEF Cleared
<1>4. CASE refs[s] # 0
  <2> DEFINE k == [Empty EXCEPT !.sized = sess[s].sized, !.unknown = sess[s].unknown]
  <2>1. Cleared(s) = k
    BY <1>4 DEF Cleared
  <2>2. k \in SessRec /\ k.reader = Empty.reader
    BY <1>1, <1>2 DEF SessRec
  <2> QED BY <1>2, <2>1, <2>2
<1> QED BY <1>3, <1>4

\* A session leaves the pool and is closed.
LEMMA CloseStep ==
    ASSUME ScanInv, NEW s \in Sessions, s \in Pooled, Close(s), pool' = Without({s}),
           UNCHANGED <<refs, mu, callVars, lost>>
    PROVE  ScanInv'
<1>1. /\ open' = open \ Held(s) /\ sess' = [sess EXCEPT ![s] = Cleared(s)] /\ handles' = handles - 1
      /\ UNCHANGED <<refs, mu, pc, op, at, owned, lost>> /\ Typed /\ PoolInv
  BY DEF Close, ScanInv, PoolInv, callVars
<1>2. /\ pool' \in Seq(Sessions) /\ Len(pool') = Len(pool) - 1
      /\ \A i, j \in DOMAIN pool' : pool'[i] = pool'[j] => i = j
      /\ \A t : (\E i \in DOMAIN pool' : pool'[i] = t) <=> t \in Pooled \ {s}
  <2>1. PICK p : p = Without({s}) /\ pool' = p
    OBVIOUS
  <2>2. /\ p \in Seq(Sessions) /\ Len(p) = Len(pool) - 1
        /\ \A i, j \in DOMAIN p : p[i] = p[j] => i = j
        /\ \A t : (\E i \in DOMAIN p : p[i] = t) <=> t \in Pooled \ {s}
    BY <1>1, <2>1, WithoutOne
  <2> QED BY ONLY <2>1, <2>2
<1>3. \A t : t \in Pooled' <=> t \in Pooled /\ t # s
  <2>1. \A t : t \in Pooled' <=> \E i \in DOMAIN pool' : pool'[i] = t
    BY DEF Pooled
  <2> QED BY <1>2, <2>1
<1>4. Cleared(s) \in SessRec /\ ~Cleared(s).reader
  BY ClearedFields
<1>5. /\ sess' \in [Sessions -> SessRec] /\ sess'[s] = Cleared(s)
      /\ \A t \in Sessions \ {s} : sess'[t] = sess[t] /\ Held(t)' = Held(t)
  BY <1>1, <1>4 DEF Typed, Held
<1>6. Typed'
  BY <1>1, <1>2, <1>5 DEF Typed
<1>7. PoolInv'
  BY <1>1, <1>2, <1>3, <1>4, <1>5 DEF PoolInv
<1>8. ASSUME NEW d \in Calls PROVE CallInv(d)'
  <2>1. CallInv(d) /\ pc'[d] = pc[d] /\ at'[d] = at[d] /\ owned'[d] = owned[d]
    BY <1>1 DEF ScanInv
  <2>2. CASE at[d] = s
    BY <1>1, <1>3, <2>1, <2>2 DEF CallInv
  <2>3. CASE at[d] # s
    <3>1. at[d] \in Pooled => at[d] \in Sessions \ {s}
      BY <2>3 DEF ScanInv, Typed, Pooled
    <3> QED BY <1>1, <1>3, <1>5, <2>1, <3>1 DEF CallInv
  <2> QED BY <2>2, <2>3
<1>9. RefInv'
  BY <1>1 DEF ScanInv, RefInv, Users
<1>10. OpenInv'
  <2>1. ASSUME NEW o \in open'
        PROVE  o \in lost' \/ (\E t \in Pooled' : o \in Held(t)') \/ (\E d \in Calls : o = owned'[d])
    <3>1. o \in open /\ o \notin Held(s)
      BY <1>1
    <3>2. ASSUME NEW t \in Pooled, o \in Held(t) PROVE t \in Pooled' /\ o \in Held(t)'
      <4>1. t \in Sessions \ {s}
        BY <3>1, <3>2, <1>1 DEF Typed, Pooled
      <4> QED BY <1>3, <1>5, <3>2, <4>1
    <3> QED BY <1>1, <3>1, <3>2 DEF ScanInv, OpenInv
  <2> QED BY <2>1 DEF OpenInv
<1>11. HandleInv'
  <2>1. Readers' = Readers \ {s} /\ s \in Readers
    BY <1>1, <1>4, <1>5 DEF Readers, PoolInv
  <2>2. IsFiniteSet(Readers) /\ IsFiniteSet(Busy) /\ Busy' = Busy
    BY <1>1, ScanAssumption, FS_Subset DEF Readers, Busy
  <2>3. Cardinality(Readers') = Cardinality(Readers) - 1
    BY <2>1, <2>2, FS_RemoveElement
  <2>4. Cardinality(Readers) \in Nat /\ Cardinality(Busy) \in Nat
    BY <2>2, FS_CardinalityType
  <2> QED BY <1>1, <2>2, <2>3, <2>4 DEF ScanInv, HandleInv
<1>12. Bounded'
  <2>1. Len(pool) \in Nat /\ MaxSessions \in Nat /\ Cardinality(Calls) \in Nat
    BY <1>1, ScanAssumption, FS_CardinalityType DEF Typed
  <2> QED BY <1>2, <2>1 DEF ScanInv, Bounded
<1> QED BY <1>6, <1>7, <1>8, <1>9, <1>10, <1>11, <1>12 DEF ScanInv

-----------------------------------------------------------------------------
\* The session that is evicted: none, or one of the pool that no call uses.  None
\* means that the pool has room or that every session is in use.
LEMMA Victims ==
    ASSUME ScanInv
    PROVE  \/ /\ EvictOldestLocked = {}
              /\ Len(pool) < MaxSessions \/ \A i \in DOMAIN pool : refs[pool[i]] # 0
           \/ \E v \in Pooled : EvictOldestLocked = {v} /\ refs[v] = 0
<1>1. Len(pool) \in Nat /\ DOMAIN pool = 1 .. Len(pool) /\ MaxSessions \in Nat
  BY ScanAssumption DEF ScanInv, Typed
<1>2. CASE ~(Len(pool) >= MaxSessions /\ Evictable # {})
  <2>1. EvictOldestLocked = {}
    BY <1>2 DEF EvictOldestLocked
  <2> QED BY <1>1, <1>2, <2>1 DEF Evictable
<1>3. CASE Len(pool) >= MaxSessions /\ Evictable # {}
  <2>1. Evictable \subseteq Nat
    BY <1>1 DEF Evictable
  <2>2. PICK m \in Evictable : \A k \in Evictable : <<k, m>> \notin OpToRel(<, Nat)
    BY <1>3, <2>1, WFMin, NatLessThanWellFounded, Zenon
  <2>3. \A k \in Evictable : ~(k < m)
    BY <2>1, <2>2, Zenon DEF OpToRel
  <2>4. \A k \in Evictable : m <= k
    BY <2>1, <2>3
  <2>5. Min(Evictable) \in Evictable
    BY <2>4 DEF Min
  <2>6. EvictOldestLocked = {pool[Min(Evictable)]}
    BY <1>3 DEF EvictOldestLocked
  <2>7. pool[Min(Evictable)] \in Pooled /\ refs[pool[Min(Evictable)]] = 0
    BY <2>5 DEF Evictable, Pooled
  <2> QED BY <2>6, <2>7
<1> QED BY <1>2, <1>3

\* When every session of the pool is in use, there are at least as many calls
\* besides one that has no session.
LEMMA AllInUse ==
    ASSUME ScanInv, \A i \in DOMAIN pool : refs[pool[i]] # 0, NEW c \in Calls, at[c] = None
    PROVE  Len(pool) + 1 <= Cardinality(Calls)
<1>1. Len(pool) \in Nat /\ DOMAIN pool = 1 .. Len(pool) /\ \A i \in DOMAIN pool : pool[i] \in Sessions
  BY DEF ScanInv, Typed
<1>2. ASSUME NEW i \in DOMAIN pool PROVE \E d \in Calls \ {c} : at[d] = pool[i]
  <2>1. Cardinality(Users(pool[i])) # 0 /\ pool[i] # None
    BY <1>1, ScanAssumption DEF ScanInv, RefInv, None
  <2>2. IsFiniteSet(Users(pool[i]))
    BY ScanAssumption, FS_Subset DEF Users
  <2>3. Users(pool[i]) # {}
    BY <2>1, FS_EmptySet
  <2> QED BY <2>1, <2>3 DEF Users
<1> DEFINE f == [i \in 1 .. Len(pool) |-> CHOOSE d \in Calls \ {c} : at[d] = pool[i]]
<1>3. f \in [1 .. Len(pool) -> Calls \ {c}] /\ \A i \in 1 .. Len(pool) : at[f[i]] = pool[i]
  BY <1>1, <1>2
<1> HIDE DEF f
<1>4. \A i, j \in 1 .. Len(pool) : f[i] = f[j] => i = j
  BY <1>1, <1>3 DEF ScanInv, PoolInv
<1>5. IsFiniteSet(1 .. Len(pool)) /\ Cardinality(1 .. Len(pool)) = Len(pool)
  <2>1. 1 \in Int /\ Len(pool) \in Int
    BY <1>1
  <2>2. /\ IsFiniteSet(1 .. Len(pool))
        /\ Cardinality(1 .. Len(pool)) = IF 1 > Len(pool) THEN 0 ELSE Len(pool) - 1 + 1
    BY <2>1, FS_Interval, Zenon
  <2> QED BY <1>1, <2>2
<1>6. /\ IsFiniteSet(Calls \ {c}) /\ Cardinality(Calls \ {c}) = Cardinality(Calls) - 1
      /\ Cardinality(Calls) \in Nat
  BY ScanAssumption, FS_RemoveElement, FS_CardinalityType
<1>7. ~(Cardinality(Calls \ {c}) < Cardinality(1 .. Len(pool)))
  BY <1>3, <1>4, <1>5, <1>6, FS_PigeonHole
<1> QED BY <1>1, <1>5, <1>6, <1>7

\* What a search has made is the new session.
LEMMA NewFields ==
    ASSUME ScanInv, NEW c \in Calls, NEW kind
    PROVE  LET k == NewSession(c, kind) IN
           k \in SessRec /\ k.reader /\ (owned[c] # Null => owned[c] \in HeldOf(k))
<1> DEFINE u == (kind = "unknown")
           z == (kind # "diff")
           store == IF kind = "search" THEN owned[c] ELSE Null
           snap == IF kind = "search" THEN Null ELSE owned[c]
           k == [Empty EXCEPT !.reader = TRUE, !.store = store, !.snap = snap, !.unknown = u, !.sized = z]
<1>1. owned[c] \in Ref /\ Null \in Ref /\ <<>> \in Seq(Entry)
  BY DEF ScanInv, Typed, Ref
<1>2. NewSession(c, kind) = k
  BY DEF NewSession
<1>3. u \in BOOLEAN /\ z \in BOOLEAN
  OBVIOUS
<1>4. store \in Ref /\ snap \in Ref /\ (owned[c] = store \/ owned[c] = snap)
  BY <1>1
<1>5. Empty \in SessRec
  BY <1>1 DEF Empty, SessRec
<1> HIDE DEF u, z, store, snap
<1>6. k \in SessRec /\ k.reader = TRUE /\ k.store = store /\ k.snap = snap
  BY <1>3, <1>4, <1>5 DEF SessRec
<1> HIDE DEF k
<1>7. owned[c] # Null => owned[c] \in HeldOf(k)
  BY <1>4, <1>6 DEF HeldOf
<1> QED BY <1>2, <1>6, <1>7

\* A new session enters the pool and the evicted one, if any, is closed.
LEMMA AddStep ==
    ASSUME ScanInv, NEW c \in Calls, NEW s \in Sessions, NEW kind, Add(c, s, kind) PROVE ScanInv'
<1> DEFINE V == EvictOldestLocked
           k == NewSession(c, kind)
           p == Without(V)
<1>1. /\ pc[c] = "made" /\ s \notin Pooled /\ refs[s] = 0
      /\ open' = open \ UNION {Held(v) : v \in V}
      /\ handles' = handles - Cardinality({v \in V : sess[v].reader})
      /\ sess' = [t \in Sessions |-> IF t = s THEN k ELSE IF t \in V THEN Cleared(t) ELSE sess[t]]
      /\ pool' = Append(p, s)
      /\ owned' = [owned EXCEPT ![c] = Null] /\ pc' = [pc EXCEPT ![c] = "idle"]
      /\ UNCHANGED <<refs, mu, op, at, lost>>
  BY DEF Add
<1>2. Typed /\ PoolInv /\ at[c] = None /\ Pooled \subseteq Sessions
  BY <1>1 DEF ScanInv, CallInv, Typed, Pooled
<1>3. k \in SessRec /\ k.reader /\ (owned[c] # Null => owned[c] \in HeldOf(k))
  BY NewFields
<1>4. \/ V = {} /\ (Len(pool) < MaxSessions \/ \A i \in DOMAIN pool : refs[pool[i]] # 0)
      \/ \E v \in Pooled : V = {v} /\ refs[v] = 0
  BY Victims
<1> HIDE DEF V, k
<1>5. V \subseteq Pooled /\ \A v \in V : refs[v] = 0
  BY <1>4
<1> DEFINE Rest ==
             /\ p \in Seq(Sessions) /\ Len(p) \in {Len(pool), Len(pool) - 1} /\ (V # {} => Len(p) = Len(pool) - 1)
             /\ \A i, j \in DOMAIN p : p[i] = p[j] => i = j
             /\ \A t : (\E i \in DOMAIN p : p[i] = t) <=> t \in Pooled \ V
<1>6. Rest
  <2>1. CASE V = {}
    <3>1. p = pool
      BY <2>1, WithoutNone
    <3>2. \A t : (\E i \in DOMAIN pool : pool[i] = t) <=> t \in Pooled
      BY DEF Pooled
    <3> QED BY <1>2, <2>1, <3>1, <3>2 DEF Typed, PoolInv
  <2>2. ASSUME NEW v \in Pooled, V = {v} PROVE Rest
    <3> HIDE DEF p
    <3>1. p = Without({v})
      BY <2>2 DEF p
    <3> QED BY <1>2, <2>2, <3>1, WithoutOne
  <2> QED BY <1>4, <2>1, <2>2
<1> HIDE DEF p
<1>7. /\ pool' \in Seq(Sessions) /\ Len(pool') = Len(p) + 1
      /\ \A i, j \in DOMAIN pool' : pool'[i] = pool'[j] => i = j
      /\ \A t : t \in Pooled' <=> t = s \/ t \in Pooled \ V
  <2>1. \A i \in DOMAIN p : p[i] # s
    BY <1>1, <1>6
  <2>2. /\ pool' \in Seq(Sessions) /\ Len(pool') = Len(p) + 1
        /\ \A i, j \in DOMAIN pool' : pool'[i] = pool'[j] => i = j
        /\ \A t : t \in Pooled' <=> t = s \/ \E i \in DOMAIN p : p[i] = t
    BY <1>1, <1>6, <2>1, AppendOne
  <2> QED BY <1>6, <2>2
<1>8. /\ sess' \in [Sessions -> SessRec] /\ sess'[s] = k
      /\ \A v \in V : sess'[v] = Cleared(v) /\ ~sess'[v].reader
      /\ \A t \in Sessions : t # s /\ t \notin V => sess'[t] = sess[t] /\ Held(t)' = Held(t)
  <2>1. \A v \in V : v \in Sessions /\ v # s /\ Cleared(v) \in SessRec /\ ~Cleared(v).reader
    BY <1>1, <1>2, <1>5, ClearedFields
  <2>2. sess' \in [Sessions -> SessRec]
    BY <1>1, <1>2, <1>3, <2>1 DEF Typed
  <2> QED BY <1>1, <2>1, <2>2 DEF Held
<1>9. Held(s)' = HeldOf(k)
  BY <1>8 DEF Held, HeldOf
<1>10. Typed'
  BY <1>1, <1>2, <1>7, <1>8 DEF Typed, Steps, Ref
<1>11. PoolInv'
  <2>1. ASSUME NEW t \in Sessions PROVE sess'[t].reader <=> t \in Pooled'
    BY <1>1, <1>2, <1>3, <1>5, <1>7, <1>8 DEF PoolInv
  <2> QED BY <1>7, <2>1 DEF PoolInv
<1>12. ASSUME NEW t \in Sessions, refs[t] = 0, NEW d \in Calls PROVE at[d] # t
  <2>1. IsFiniteSet(Users(t)) /\ Cardinality(Users(t)) = 0
    BY <1>12, ScanAssumption, FS_Subset DEF Users, ScanInv, RefInv
  <2>2. Users(t) = {}
    BY <2>1, FS_EmptySet
  <2> QED BY <2>2 DEF Users
<1>13. ASSUME NEW d \in Calls PROVE CallInv(d)'
  <2>1. CASE d = c
    BY <1>1, <1>2, <2>1 DEF Typed, CallInv, Working
  <2>2. CASE d # c
    <3>1. CallInv(d) /\ pc'[d] = pc[d] /\ at'[d] = at[d] /\ owned'[d] = owned[d] /\ mu' = mu
      BY <1>1, <1>2, <2>2 DEF ScanInv, Typed
    <3>2. at[d] # s /\ at[d] \notin V
      BY <1>1, <1>2, <1>5, <1>12
    <3>3. at[d] \in Pooled' => at[d] \in Pooled /\ sess'[at[d]] = sess[at[d]]
      BY <1>2, <1>7, <1>8, <3>2
    <3> QED BY <3>1, <3>3 DEF CallInv
  <2> QED BY <2>1, <2>2
<1>14. RefInv'
  BY <1>1 DEF ScanInv, RefInv, Users
<1>15. OpenInv'
  <2>1. ASSUME NEW o \in open'
        PROVE  o \in lost' \/ (\E t \in Pooled' : o \in Held(t)') \/ (\E d \in Calls : o = owned'[d])
    <3>1. o \in open /\ (\A v \in V : o \notin Held(v)) /\ o # Null
      BY <1>1, <1>2 DEF Typed, Objects, Null
    <3>2. ASSUME NEW t \in Pooled, o \in Held(t) PROVE t \in Pooled' /\ o \in Held(t)'
      BY <1>1, <1>2, <1>7, <1>8, <3>1, <3>2
    <3>3. ASSUME NEW d \in Calls, o = owned[d] PROVE o = owned'[d] \/ (s \in Pooled' /\ o \in Held(s)')
      BY <1>1, <1>2, <1>3, <1>7, <1>9, <3>1, <3>3 DEF Typed
    <3> QED BY <1>1, <3>1, <3>2, <3>3 DEF ScanInv, OpenInv
  <2> QED BY <2>1 DEF OpenInv
<1>16. HandleInv'
  <2>1. {v \in V : sess[v].reader} = V
    BY <1>2, <1>5 DEF PoolInv
  <2>2. Readers' = (Readers \ V) \cup {s} /\ s \notin Readers \ V /\ V \subseteq Readers
    BY <1>1, <1>2, <1>3, <1>5, <1>8 DEF Readers, PoolInv
  <2>3. IsFiniteSet(Readers) /\ IsFiniteSet(Busy)
    BY ScanAssumption, FS_Subset DEF Readers, Busy
  <2> DEFINE Fewer == /\ IsFiniteSet(Readers \ V) /\ Cardinality(V) \in Int
                      /\ Cardinality(Readers \ V) = Cardinality(Readers) - Cardinality(V)
  <2>4. Fewer
    <3>1. CASE V = {}
      <4>1. Readers \ V = Readers /\ Cardinality(V) = 0
        BY <3>1, FS_EmptySet
      <4>2. Cardinality(Readers) \in Nat
        BY <2>3, FS_CardinalityType
      <4> QED BY <2>3, <4>1, <4>2
    <3>2. ASSUME NEW v, V = {v} PROVE Fewer
      <4>1. Cardinality(V) = 1 /\ v \in Readers
        BY <2>2, <3>2, FS_Singleton
      <4>2. IsFiniteSet(Readers \ {v}) /\ Cardinality(Readers \ {v}) = Cardinality(Readers) - 1
        BY <2>3, <4>1, FS_RemoveElement
      <4> QED BY <3>2, <4>1, <4>2
    <3> QED BY <1>4, <3>1, <3>2
  <2>5. Cardinality(Readers') = Cardinality(Readers) - Cardinality(V) + 1
    BY <2>2, <2>4, FS_AddElement
  <2>6. Busy' = Busy \ {c} /\ c \in Busy
    BY <1>1, <1>2 DEF Typed, Busy
  <2>7. Cardinality(Busy') = Cardinality(Busy) - 1
    BY <2>3, <2>6, FS_RemoveElement
  <2>8. Cardinality(Readers) \in Nat /\ Cardinality(Busy) \in Nat
    BY <2>3, FS_CardinalityType
  <2>9. handles' = handles - Cardinality(V)
    BY <1>1, <2>1, Zenon
  <2>10. handles = Cardinality(Readers) + Cardinality(Busy)
    BY DEF ScanInv, HandleInv
  <2>11. handles' = Cardinality(Readers') + Cardinality(Busy')
    BY <2>4, <2>5, <2>7, <2>8, <2>9, <2>10
  <2> QED BY <2>11 DEF HandleInv
<1>17. Bounded'
  <2>1. Len(pool) \in Nat /\ MaxSessions \in Nat /\ Cardinality(Calls) \in Nat /\ Bounded
    BY <1>2, ScanAssumption, FS_CardinalityType DEF Typed, ScanInv
  <2>2. CASE V # {}
    BY <1>6, <1>7, <2>1, <2>2 DEF Bounded
  <2>3. CASE Len(pool) < MaxSessions
    BY <1>6, <1>7, <2>1, <2>3 DEF Bounded
  <2>4. CASE \A i \in DOMAIN pool : refs[pool[i]] # 0
    <3>1. Len(pool) + 1 <= Cardinality(Calls)
      BY <1>2, <2>4, AllInUse
    <3> QED BY <1>6, <1>7, <2>1, <3>1 DEF Bounded
  <2> QED BY <1>4, <2>2, <2>3, <2>4
<1> QED BY <1>10, <1>11, <1>13, <1>14, <1>15, <1>16, <1>17 DEF ScanInv

-----------------------------------------------------------------------------
LEMMA InitOK == Init => ScanInv
<1> SUFFICES ASSUME Init PROVE ScanInv
  OBVIOUS
<1> USE DEF Init
<1>1. Empty \in SessRec /\ Empty.reader = FALSE
  <2>1. <<>> \in Seq(Entry) /\ Null \in Ref
    BY DEF Ref
  <2> QED BY <2>1 DEF Empty, SessRec
<1>2. Typed
  <2>1. pool \in Seq(Sessions) /\ sess \in [Sessions -> SessRec] /\ refs \in [Sessions -> Nat]
    BY <1>1
  <2> QED BY <2>1 DEF Typed, Steps, Ops, Ref
<1>3. Pooled = {} /\ Readers = {} /\ Busy = {}
  BY <1>1 DEF Pooled, Readers, Busy
<1>4. \A s \in Sessions : Users(s) = {}
  BY ScanAssumption DEF Users, None
<1>5. RefInv /\ HandleInv
  <2>1. Cardinality({}) = 0 /\ refs = [s \in Sessions |-> 0] /\ handles = 0
    BY FS_EmptySet
  <2>2. \A s \in Sessions : Cardinality(Users(s)) = 0
    BY <1>4, <2>1, Zenon
  <2>3. Cardinality(Readers) = 0 /\ Cardinality(Busy) = 0
    BY <1>3, <2>1, Zenon
  <2> QED BY <2>1, <2>2, <2>3 DEF RefInv, HandleInv
<1>6. PoolInv
  BY <1>1, <1>3 DEF PoolInv
<1>7. \A c \in Calls : CallInv(c)
  BY DEF CallInv, Working
<1>8. OpenInv /\ Bounded
  BY ScanAssumption DEF OpenInv, Bounded
<1> QED BY <1>2, <1>5, <1>6, <1>7, <1>8 DEF ScanInv

LEMMA NextOK == ScanInv /\ [Next]_vars => ScanInv'
<1> SUFFICES ASSUME ScanInv, [Next]_vars PROVE ScanInv'
  OBVIOUS
<1>1. ASSUME NEW c \in Calls, Scan(c) PROVE ScanInv'
  BY <1>1, ScanStep
<1>2. ASSUME NEW c \in Calls, Drop(c) PROVE ScanInv'
  BY <1>2, DropStep
<1>3. ASSUME NEW c \in Calls,
             \/ OpRegions(c) \/ OpRead(c) \/ OpReadChain(c) \/ OpWrite(c) \/ OpDisasm(c)
             \/ OpStructSearch(c) \/ OpPointerScan(c) \/ OneShotDone(c)
      PROVE  ScanInv'
  BY <1>3, OneShotStep DEF OpRegions, OpRead, OpReadChain, OpWrite, OpDisasm, OpStructSearch, OpPointerScan
<1>4. ASSUME NEW c \in Calls, NEW operation \in Ops \ {"none"}, Lock(c, operation) PROVE ScanInv'
  BY <1>4, LockStep
<1>5. ASSUME NEW c \in Calls,
             \/ ReaderClosed(c) \/ OpFilter(c) \/ FilterDone(c) \/ FilterFailed(c)
             \/ FilterTorn(c) \/ OpUndo(c) \/ OpInfo(c) \/ OpDiff(c) \/ Retake(c)
      PROVE  ScanInv'
  BY <1>5, NothingDoneStep, OpFilterStep, FilterDoneStep, FilterFailedStep, FilterTornStep, OpUndoStep,
     OpDiffStep, RetakeStep
<1>6. ASSUME NEW c \in Calls, NEW s \in Sessions, OpSearch(c, s) \/ OpSearchUnknown(c, s) \/ OpDiffProcess(c, s)
      PROVE  ScanInv'
  BY <1>6, AddStep DEF OpSearch, OpSearchUnknown, OpDiffProcess
<1>7. ASSUME NEW c \in Calls, NEW s \in Sessions, Get(c, s) PROVE ScanInv'
  BY <1>7, GetStep
<1>8. ASSUME NEW c \in Calls, NEW s \in Sessions, OpClose(c, s) PROVE ScanInv'
  BY <1>8, CloseStep DEF OpClose
<1>9. ASSUME NEW s \in Sessions, Reap(s) PROVE ScanInv'
  BY <1>9, CloseStep DEF Reap
<1>10. CASE UNCHANGED vars
  <2>1. UNCHANGED <<pool, sess, refs, mu, pc, op, at, owned, open, handles, lost>>
    BY <1>10 DEF vars, callVars
  <2>2. Typed' /\ PoolInv' /\ RefInv' /\ HandleInv' /\ Bounded'
    BY <2>1 DEF ScanInv, Typed, PoolInv, RefInv, HandleInv, Bounded, Pooled, Users, Readers, Busy
  <2>3. OpenInv' /\ \A c \in Calls : CallInv(c)'
    BY <2>1 DEF ScanInv, OpenInv, CallInv, Pooled, Held
  <2> QED BY <2>2, <2>3 DEF ScanInv
<1> QED BY <1>1, <1>2, <1>3, <1>4, <1>5, <1>6, <1>7, <1>8, <1>9, <1>10 DEF Next

\* The inductive invariant holds in every behaviour of the scan pool.
THEOREM ScanInvariant == Spec => []ScanInv
  BY InitOK, NextOK, PTL DEF Spec

\* Nothing leaks: whatever search, filter, diff, close, eviction and reaper do and
\* in whatever order, every reader, store and snapshot that is not closed belongs
\* to a session or to a call, except those of calls whose session was closed
\* under them (session.go:185, handler.go:319).
THEOREM NothingLeaks == Spec => []NoLeak
<1>1. ScanInv => NoLeak
  <2> SUFFICES ASSUME ScanInv PROVE NoLeak
    OBVIOUS
  <2>1. ASSUME NEW o \in open PROVE o \in Kept \cup lost
    <3>1. o \in lost \/ (\E s \in Pooled : o \in Held(s)) \/ (\E c \in Calls : o = owned[c])
      BY DEF ScanInv, OpenInv
    <3>2. ASSUME NEW s \in Pooled, o \in Held(s) PROVE o \in Kept
      BY <3>2 DEF Kept
    <3>3. ASSUME NEW c \in Calls, o = owned[c] PROVE o \in Kept
      BY <3>3 DEF Kept
    <3> QED BY <3>1, <3>2, <3>3
  <2>2. handles = Cardinality(Readers) + Cardinality(Busy)
    BY DEF ScanInv, HandleInv
  <2> QED BY <2>1, <2>2 DEF NoLeak, Readers, Busy
<1> QED BY <1>1, ScanInvariant, PTL

\* The pool never holds more sessions than scanMaxSessions, or than there are
\* concurrent calls: add lets it grow only while every session is in use.
THEOREM PoolIsBounded == Spec => []PoolBound
<1>1. ScanInv => PoolBound
  <2> SUFFICES ASSUME ScanInv PROVE PoolBound
    OBVIOUS
  <2> DEFINE S == {MaxSessions, Cardinality(Calls)}
  <2>1. MaxSessions \in Nat /\ Cardinality(Calls) \in Nat /\ Len(pool) \in Nat
    BY ScanAssumption, FS_CardinalityType DEF ScanInv, Typed
  <2>2. \E x \in S : \A y \in S : x >= y
    BY <2>1
  <2>3. Max(S) \in S /\ \A y \in S : Max(S) >= y
    BY <2>2 DEF Max
  <2> QED BY <2>1, <2>3 DEF ScanInv, Bounded, PoolBound
<1> QED BY <1>1, ScanInvariant, PTL

\* A session some call has acquired leaves the pool only by the close operation:
\* neither the reaper nor an eviction takes it.
THEOREM SessionsInUseAreSpared == Spec => InUseSpared
<1> DEFINE Gone(s) == s \notin {pool'[i] : i \in DOMAIN pool'}
           Spared == \A s \in Pooled : refs[s] > 0 /\ Gone(s) => \E c \in Calls : OpClose(c, s)
<1>1. ScanInv /\ [Next]_vars => [Spared]_vars
  <2> SUFFICES ASSUME ScanInv, Next, NEW s \in Pooled, refs[s] > 0, Gone(s) PROVE \E c \in Calls : OpClose(c, s)
    OBVIOUS
  <2>1. Typed /\ PoolInv /\ s \in Sessions /\ s \notin Pooled'
    BY DEF ScanInv, Typed, Pooled
  <2>2. pool' # pool
    BY <2>1 DEF Pooled
  <2>3. ASSUME NEW c \in Calls, NEW t \in Sessions, Get(c, t) PROVE FALSE
    <3> DEFINE p == Without({t})
    <3>1. t \in Pooled /\ pool' = Append(p, t)
      BY <2>3 DEF Get
    <3>2. /\ p \in Seq(Sessions) /\ (\A i, j \in DOMAIN p : p[i] = p[j] => i = j)
          /\ \A x : (\E i \in DOMAIN p : p[i] = x) <=> x \in Pooled \ {t}
      BY <2>1, <3>1, WithoutOne
    <3> HIDE DEF p
    <3>3. \A x : x \in Pooled' <=> x = t \/ \E i \in DOMAIN p : p[i] = x
      BY <3>1, <3>2, AppendOne
    <3> QED BY <2>1, <3>2, <3>3
  <2>4. ASSUME NEW t \in Sessions, t \in Pooled, pool' = Without({t}) PROVE s = t
    <3>1. \A x : (\E i \in DOMAIN pool' : pool'[i] = x) <=> x \in Pooled \ {t}
      BY <2>1, <2>4, WithoutOne
    <3>2. ~\E i \in DOMAIN pool' : pool'[i] = s
      OBVIOUS
    <3> QED BY <3>1, <3>2
  <2>5. ASSUME NEW c \in Calls, NEW t \in Sessions, OpClose(c, t) PROVE OpClose(c, s)
    <3>1. s = t
      BY <2>4, <2>5 DEF OpClose
    <3> QED BY <2>5, <3>1
  <2>6. ASSUME NEW t \in Sessions, Reap(t) PROVE FALSE
    <3>1. s = t /\ refs[t] = 0
      BY <2>4, <2>6 DEF Reap
    <3> QED BY <3>1
  <2>7. ASSUME NEW c \in Calls, NEW t \in Sessions, NEW kind, Add(c, t, kind) PROVE FALSE
    <3> DEFINE V == EvictOldestLocked
               p == Without(V)
    <3>1. pool' = Append(p, t) /\ t \notin Pooled
      BY <2>7 DEF Add
    <3>2. V = {} \/ \E v \in Pooled : V = {v} /\ refs[v] = 0
      BY Victims
    <3> HIDE DEF V
    <3>3. /\ p \in Seq(Sessions) /\ (\A i, j \in DOMAIN p : p[i] = p[j] => i = j)
          /\ \A x : (\E i \in DOMAIN p : p[i] = x) <=> x \in Pooled \ V
      <4>1. CASE V = {}
        <5>1. p = pool
          BY <4>1, WithoutNone
        <5>2. \A x : (\E i \in DOMAIN pool : pool[i] = x) <=> x \in Pooled
          BY DEF Pooled
        <5> QED BY <2>1, <4>1, <5>1, <5>2 DEF Typed, PoolInv
      <4>2. ASSUME NEW v \in Pooled, V = {v}
            PROVE  /\ p \in Seq(Sessions) /\ (\A i, j \in DOMAIN p : p[i] = p[j] => i = j)
                   /\ \A x : (\E i \in DOMAIN p : p[i] = x) <=> x \in Pooled \ V
        <5> HIDE DEF p
        <5>1. p = Without({v})
          BY <4>2 DEF p
        <5> QED BY <2>1, <4>2, <5>1, WithoutOne
      <4> QED BY <3>2, <4>1, <4>2
    <3> HIDE DEF p
    <3>4. \A i \in DOMAIN p : p[i] # t
      BY <3>1, <3>3
    <3>5. \A x : x \in Pooled' <=> x = t \/ \E i \in DOMAIN p : p[i] = x
      BY <3>1, <3>3, <3>4, AppendOne
    <3>6. s \in V
      BY <2>1, <3>3, <3>5
    <3> QED BY <3>2, <3>6
  <2> QED BY <2>2, <2>3, <2>5, <2>6, <2>7
          DEF Next, Scan, Drop, OpRegions, OpRead, OpReadChain, OpWrite, OpDisasm, OpStructSearch, OpPointerScan,
              OneShot, OneShotDone, Lock, ReaderClosed, OpFilter, FilterDone, FilterFailed, FilterTorn, OpUndo,
              OpInfo, OpDiff, Retake, OpSearch, OpSearchUnknown, OpDiffProcess
<1> QED BY <1>1, ScanInvariant, PTL DEF Spec, InUseSpared

(***************************************************************************)
(* Searching memory in pieces                                              *)
(***************************************************************************)

\* Induction over the natural numbers, for a set.
LEMMA SetInduction ==
    ASSUME NEW S, 0 \in S, \A n \in Nat : n \in S => n + 1 \in S
    PROVE  \A n \in Nat : n \in S
<1> DEFINE T == Nat \ S
<1> SUFFICES ASSUME T # {} PROVE FALSE
  OBVIOUS
<1>1. PICK x \in T : \A y \in T : ~ (<<y, x>> \in OpToRel(<, Nat))
  BY WFMin, NatLessThanWellFounded, Zenon
<1>2. x \in Nat /\ x # 0 /\ x - 1 \in Nat /\ x - 1 < x
  OBVIOUS
<1>3. x - 1 \in S
  <2> SUFFICES ASSUME x - 1 \in T PROVE FALSE
    BY <1>2
  <2>1. <<x - 1, x>> \in OpToRel(<, Nat)
    BY <1>2, Zenon DEF OpToRel
  <2> QED BY <1>1, <2>1
<1> QED BY <1>2, <1>3

\* The greatest element of a set is its maximum, the least its minimum.
LEMMA MaxIs == ASSUME NEW S, S \subseteq Int, NEW m \in S, \A y \in S : m >= y PROVE Max(S) = m
<1>1. \A x \in S : (\A y \in S : x >= y) <=> x = m
  OBVIOUS
<1> QED BY <1>1 DEF Max
LEMMA MinIs == ASSUME NEW S, S \subseteq Int, NEW m \in S, \A y \in S : m <= y PROVE Min(S) = m
<1>1. \A x \in S : (\A y \in S : x =< y) <=> x = m
  OBVIOUS
<1> QED BY <1>1 DEF Min
LEMMA MinOfTwo == ASSUME NEW a \in Int, NEW b \in Int PROVE Min({a, b}) = IF a <= b THEN a ELSE b
<1>1. PICK m \in {a, b} : m = IF a <= b THEN a ELSE b
  OBVIOUS
<1>2. \A y \in {a, b} : m <= y
  BY <1>1
<1> QED BY <1>1, <1>2, MinIs
LEMMA MaxOfTwo == ASSUME NEW a \in Int, NEW b \in Int PROVE Max({a, b}) = IF a <= b THEN b ELSE a
<1>1. PICK m \in {a, b} : m = IF a <= b THEN b ELSE a
  OBVIOUS
<1>2. \A y \in {a, b} : m >= y
  BY <1>1
<1> QED BY <1>1, <1>2, MaxIs

\* n elements of s from position at on.
IsCut(r, s, ad, n) == Len(r) = n /\ \A i \in 1 .. n : r[i] = s[ad + i]
LEMMA CutIs ==
    ASSUME NEW T, NEW s \in Seq(T), NEW ad \in Nat, NEW n \in Nat, ad + n <= Len(s)
    PROVE  Cut(s, ad, n) \in Seq(T) /\ IsCut(Cut(s, ad, n), s, ad, n)
<1>1. PICK m \in Int, l \in Int : m = ad + 1 /\ l = ad + n
  OBVIOUS
<1>2. \A i \in m .. l : s[i] \in T
  BY <1>1, ElementOfSeq
<1>3. l - m + 1 = n
  BY <1>1
<1>4. SubSeq(s, m, l) \in Seq(T) /\ Len(SubSeq(s, m, l)) = n /\ \A i \in 1 .. n : SubSeq(s, m, l)[i] = s[m + i - 1]
  BY <1>1, <1>2, <1>3, SubSeqProperties
<1>5. \A i \in 1 .. n : m + i - 1 = ad + i
  BY <1>1
<1> QED BY <1>1, <1>4, <1>5 DEF Cut, IsCut

\* Sequences with the same elements are the same.
LEMMA SameSeq ==
    ASSUME NEW T, NEW r \in Seq(T), NEW s \in Seq(T), Len(r) = Len(s), \A i \in 1 .. Len(r) : r[i] = s[i]
    PROVE  r = s
  BY SeqEqual

\* What a part of a part is.
LEMMA CutCut ==
    ASSUME NEW T, NEW s \in Seq(T), NEW ad \in Nat, NEW n \in Nat, ad + n <= Len(s),
           NEW i \in Nat, NEW k \in Nat, i + k <= n
    PROVE  Cut(Cut(s, ad, n), i, k) = Cut(s, ad + i, k)
<1>1. PICK r \in Seq(T) : r = Cut(s, ad, n) /\ IsCut(r, s, ad, n)
  BY CutIs
<1>a. i + k <= Len(r) /\ ad + i \in Nat /\ ad + i + k <= Len(s)
  BY <1>1 DEF IsCut
<1>2. PICK u \in Seq(T) : u = Cut(r, i, k) /\ IsCut(u, r, i, k)
  BY <1>a, CutIs
<1>3. PICK v \in Seq(T) : v = Cut(s, ad + i, k) /\ IsCut(v, s, ad + i, k)
  BY <1>a, CutIs
<1>4. ASSUME NEW j \in 1 .. k PROVE u[j] = v[j]
  <2>1. i + j \in 1 .. n /\ ad + (i + j) = ad + i + j
    OBVIOUS
  <2> QED BY <1>1, <1>2, <1>3, <2>1 DEF IsCut
<1>5. u = v
  BY <1>2, <1>3, <1>4, SameSeq DEF IsCut
<1> QED BY <1>1, <1>2, <1>3, <1>5

\* Two parts next to each other.
LEMMA CutJoin ==
    ASSUME NEW T, NEW s \in Seq(T), NEW ad \in Nat, NEW n \in Nat, NEW k \in Nat, ad + n + k <= Len(s)
    PROVE  Cut(s, ad, n) \o Cut(s, ad + n, k) = Cut(s, ad, n + k)
<1>1. PICK u \in Seq(T) : u = Cut(s, ad, n) /\ IsCut(u, s, ad, n)
  BY CutIs
<1>2. PICK v \in Seq(T) : v = Cut(s, ad + n, k) /\ IsCut(v, s, ad + n, k)
  BY CutIs
<1>3. PICK w \in Seq(T) : w = Cut(s, ad, n + k) /\ IsCut(w, s, ad, n + k)
  BY CutIs
<1>a. Len(u) = n /\ Len(v) = k /\ Len(w) = n + k
  BY <1>1, <1>2, <1>3 DEF IsCut
<1>4. PICK x \in Seq(T) : /\ x = u \o v /\ Len(x) = n + k
                          /\ \A i \in 1 .. n + k : x[i] = IF i <= n THEN u[i] ELSE v[i - n]
  <2>1. u \o v \in Seq(T) /\ Len(u \o v) = Len(u) + Len(v)
    BY ConcatProperties
  <2>2. \A i \in 1 .. Len(u) + Len(v) : (u \o v)[i] = IF i <= Len(u) THEN u[i] ELSE v[i - Len(u)]
    BY ConcatProperties
  <2> QED BY <1>a, <2>1, <2>2
<1>5. ASSUME NEW i \in 1 .. n + k PROVE x[i] = w[i]
  <2>1. w[i] = s[ad + i]
    BY <1>3 DEF IsCut
  <2>2. CASE i <= n
    <3>1. x[i] = u[i] /\ i \in 1 .. n
      BY <1>4, <2>2
    <3> QED BY <1>1, <2>1, <3>1 DEF IsCut
  <2>3. CASE i > n
    <3>1. PICK j \in 1 .. k : j = i - n /\ ad + n + j = ad + i
      BY <2>3
    <3>2. x[i] = v[j]
      BY <1>4, <2>3, <3>1
    <3> QED BY <1>2, <2>1, <3>1, <3>2 DEF IsCut
  <2> QED BY <2>2, <2>3
<1>6. x = w
  BY <1>3, <1>4, <1>5, <1>a, SameSeq
<1> QED BY <1>1, <1>2, <1>3, <1>4, <1>6

\* A read ends before the first byte that cannot be read.
LEMMA ReadIs ==
    ASSUME NEW mem \in Seq(Int), NEW ad \in Nat, NEW n \in Nat, ad + n <= Len(mem)
    PROVE  \E k \in 0 .. n : /\ ReadMemory(mem, ad, n) = Cut(mem, ad, k)
                             /\ \A i \in 1 .. k : mem[ad + i] # Gap
                             /\ k = n \/ mem[ad + k + 1] = Gap
<1> DEFINE R == {k \in 0 .. n : \A i \in 1 .. k : ad + i \in 1 .. Len(mem) /\ mem[ad + i] # Gap}
           S == {m \in Nat : m \in 0 .. n => m \in R}
<1>0. \A k : k \in R <=> k \in 0 .. n /\ \A i \in 1 .. k : ad + i \in 1 .. Len(mem) /\ mem[ad + i] # Gap
  OBVIOUS
<1>a. \A m : m \in S <=> m \in Nat /\ (m \in 0 .. n => m \in R)
  OBVIOUS
<1>b. ReadMemory(mem, ad, n) = Cut(mem, ad, Max(R)) /\ R \subseteq Int
  BY DEF ReadMemory
<1> HIDE DEF R, S
<1>1. CASE \A m \in Nat : m \in S
  <2>1. n \in R
    BY <1>1, <1>a
  <2>2. \A y \in R : n >= y
    BY <1>0
  <2>3. Max(R) = n
    BY <1>b, <2>1, <2>2, MaxIs
  <2> QED BY <1>0, <1>b, <2>1, <2>3
<1>2. CASE ~\A m \in Nat : m \in S
  <2>1. 0 \in S
    BY <1>0, <1>a
  <2>2. PICK m \in Nat : m \in S /\ m + 1 \notin S
    BY <1>2, <2>1, SetInduction
  <2>3. m + 1 \in 0 .. n /\ m + 1 \notin R /\ m \in R
    BY <1>a, <2>2
  <2>4. mem[ad + m + 1] = Gap
    <3>1. PICK i \in 1 .. m + 1 : ~(ad + i \in 1 .. Len(mem) /\ mem[ad + i] # Gap)
      BY <1>0, <2>3
    <3>a. \A j \in 1 .. m : ad + j \in 1 .. Len(mem) /\ mem[ad + j] # Gap
      BY <1>0, <2>3
    <3>2. i = m + 1
      BY <3>a, <3>1
    <3>3. ad + i \in 1 .. Len(mem) /\ ad + i = ad + m + 1
      BY <2>3, <3>2
    <3> QED BY <3>1, <3>3
  <2>5. \A y \in R : m >= y
    <3> SUFFICES ASSUME NEW y \in R, y > m PROVE FALSE
      BY <1>0, <2>3
    <3>1. m + 1 \in 1 .. y /\ ad + (m + 1) = ad + m + 1
      BY <1>0
    <3> QED BY <1>0, <2>4, <3>1
  <2>6. Max(R) = m
    BY <1>b, <2>3, <2>5, MaxIs
  <2>7. m \in 0 .. n
    BY <2>3
  <2> QED BY <1>0, <1>b, <2>3, <2>4, <2>6, <2>7
<1> QED BY <1>1, <1>2

\* A function defined by recursion over 0 .. N exists.
IsRecursive(f, X, N, first, F) ==
    f \in [0 .. N -> X] /\ f[0] = first /\ \A i \in 1 .. N : f[i] = F[i][f[i - 1]]
LEMMA Recursion ==
    ASSUME NEW X, NEW N \in Nat, NEW first \in X, NEW F \in [1 .. N -> [X -> X]]
    PROVE  \E f : IsRecursive(f, X, N, first, F)
<1> DEFINE Upto(f, n) == f[0] = first /\ \A i \in 1 .. n : f[i] = F[i][f[i - 1]]
           S == {n \in Nat : n <= N => \E f \in [0 .. n -> X] : Upto(f, n)}
<1>1. 0 \in S
  <2>1. [i \in 0 .. 0 |-> first] \in [0 .. 0 -> X] /\ Upto([i \in 0 .. 0 |-> first], 0)
    OBVIOUS
  <2> QED BY <2>1
<1>2. ASSUME NEW n \in Nat, n \in S PROVE n + 1 \in S
  <2> SUFFICES ASSUME n + 1 <= N PROVE \E f \in [0 .. n + 1 -> X] : Upto(f, n + 1)
    OBVIOUS
  <2>1. PICK f \in [0 .. n -> X] : Upto(f, n)
    BY <1>2
  <2>2. f[n] \in X /\ n + 1 \in 1 .. N
    BY <2>1
  <2>3. PICK x \in X : x = F[n + 1][f[n]]
    BY <2>2
  <2> DEFINE g == [i \in 0 .. n + 1 |-> IF i <= n THEN f[i] ELSE x]
  <2>4. g \in [0 .. n + 1 -> X] /\ g[n + 1] = x /\ \A i \in 0 .. n : g[i] = f[i]
    BY <2>1
  <2> HIDE DEF g
  <2>5. ASSUME NEW i \in 1 .. n + 1 PROVE g[i] = F[i][g[i - 1]]
    <3>1. CASE i = n + 1
      <4>1. i - 1 = n /\ g[n] = f[n]
        BY <2>4, <3>1
      <4> QED BY <2>3, <2>4, <3>1, <4>1
    <3>2. CASE i \in 1 .. n
      <4>1. i \in 0 .. n /\ i - 1 \in 0 .. n
        BY <3>2
      <4> QED BY <2>1, <2>4, <3>2, <4>1
    <3> QED BY <3>1, <3>2
  <2>6. g[0] = first
    BY <2>1, <2>4
  <2> QED BY <2>4, <2>5, <2>6
<1> HIDE DEF S
<1>3. N \in S
  BY <1>1, <1>2, SetInduction
<1> QED BY <1>3 DEF S, IsRecursive

\* What a power of the base is.
LEMMA PowerIs ==
    Power(0) = 1 /\ \A k \in Nat : Power(k) \in Nat /\ Power(k) > 0 /\ Power(k + 1) = Base * Power(k)
<1>1. Base \in Nat /\ Base > 0
  BY MemAssumption
<1> DEFINE Is(f, k) == f = [i \in 0 .. k |-> IF i = 0 THEN 1 ELSE Base * f[i - 1]]
           pw(k) == CHOOSE f : Is(f, k)
<1>2. \A k : Power(k) = pw(k)[k]
  BY DEF Power
<1>3. ASSUME NEW k \in Nat PROVE \E f : Is(f, k)
  <2>0. PICK times \in [Nat -> Nat] : \A x \in Nat : times[x] = Base * x
    <3>1. [x \in Nat |-> Base * x] \in [Nat -> Nat]
      BY <1>1
    <3> QED BY <3>1
  <2>1. PICK F \in [1 .. k -> [Nat -> Nat]] : \A i \in 1 .. k : F[i] = times
    <3>1. [i \in 1 .. k |-> times] \in [1 .. k -> [Nat -> Nat]]
      OBVIOUS
    <3> QED BY <3>1
  <2>2. PICK f : IsRecursive(f, Nat, k, 1, F)
    BY Recursion
  <2>3. f \in [0 .. k -> Nat] /\ f[0] = 1 /\ \A i \in 1 .. k : f[i] = F[i][f[i - 1]]
    BY <2>2 DEF IsRecursive
  <2>4. ASSUME NEW i \in 0 .. k PROVE f[i] = IF i = 0 THEN 1 ELSE Base * f[i - 1]
    <3>1. CASE i = 0
      BY <2>3, <3>1
    <3>2. CASE i # 0
      <4>1. i \in 1 .. k /\ i - 1 \in 0 .. k
        BY <3>2
      <4>2. f[i - 1] \in Nat
        BY <2>3, <4>1
      <4> QED BY <2>0, <2>1, <2>3, <3>2, <4>1, <4>2
    <3> QED BY <3>1, <3>2
  <2>5. f = [i \in 0 .. k |-> f[i]]
    BY <2>3
  <2>6. Is(f, k)
    BY <2>4, <2>5
  <2> QED BY <2>6
<1>4. ASSUME NEW k \in Nat PROVE \A i \in 0 .. k : pw(k)[i] = IF i = 0 THEN 1 ELSE Base * pw(k)[i - 1]
  <2>1. Is(pw(k), k)
    BY <1>3
  <2> HIDE DEF pw
  <2> QED BY <2>1
<1> HIDE DEF pw, Is
<1>5. ASSUME NEW k \in Nat PROVE \A i \in 0 .. k : pw(k)[i] \in Nat /\ pw(k)[i] > 0
  <2> DEFINE S == {i \in Nat : i <= k => pw(k)[i] \in Nat /\ pw(k)[i] > 0}
  <2>1. 0 \in S
    BY <1>4
  <2>2. ASSUME NEW i \in Nat, i \in S PROVE i + 1 \in S
    <3> SUFFICES ASSUME i + 1 <= k PROVE pw(k)[i + 1] \in Nat /\ pw(k)[i + 1] > 0
      OBVIOUS
    <3>1. PICK x \in Nat : x = pw(k)[i] /\ x > 0
      BY <2>2
    <3>2. pw(k)[i + 1] = Base * x
      <4>1. PICK j \in 0 .. k : j = i + 1 /\ j # 0 /\ j - 1 = i
        OBVIOUS
      <4> QED BY <1>4, <3>1, <4>1
    <3>3. Base * x \in Nat /\ Base * x > 0
      BY ONLY <1>1, <3>1, x \in Nat
    <3> QED BY <3>2, <3>3
  <2> HIDE DEF S
  <2>3. \A i \in Nat : i \in S
    BY <2>1, <2>2, SetInduction
  <2> QED BY <2>3 DEF S
<1>6. ASSUME NEW k \in Nat PROVE \A i \in 0 .. k : pw(k + 1)[i] = pw(k)[i]
  <2> DEFINE S == {i \in Nat : i <= k => pw(k + 1)[i] = pw(k)[i]}
  <2>1. 0 \in S
    BY <1>4
  <2>2. ASSUME NEW i \in Nat, i \in S PROVE i + 1 \in S
    <3> SUFFICES ASSUME i + 1 <= k PROVE pw(k + 1)[i + 1] = pw(k)[i + 1]
      OBVIOUS
    <3>1. pw(k + 1)[i] = pw(k)[i]
      BY <2>2
    <3>2. PICK j \in Nat : j = i + 1 /\ j # 0 /\ j - 1 = i /\ j \in 0 .. k /\ j \in 0 .. k + 1
      OBVIOUS
    <3>3. pw(k)[j] = Base * pw(k)[i] /\ pw(k + 1)[j] = Base * pw(k + 1)[i]
      BY <1>4, <3>2
    <3> QED BY <3>1, <3>2, <3>3
  <2> HIDE DEF S
  <2>3. \A i \in Nat : i \in S
    BY <2>1, <2>2, SetInduction
  <2> QED BY <2>3 DEF S
<1>7. ASSUME NEW k \in Nat PROVE Power(k + 1) = Base * Power(k)
  <2>1. PICK j \in 0 .. k + 1 : j = k + 1 /\ j # 0 /\ j - 1 = k
    OBVIOUS
  <2>2. pw(k + 1)[j] = Base * pw(k + 1)[k]
    BY <1>4, <2>1
  <2> QED BY <1>2, <1>6, <2>1, <2>2
<1>8. Power(0) = 1 /\ \A k \in Nat : Power(k) \in Nat /\ Power(k) > 0
  <2>1. \A k \in Nat : k \in 0 .. k
    OBVIOUS
  <2>2. 0 \in 0 .. 0
    OBVIOUS
  <2>3. pw(0)[0] = 1
    BY <1>4, <2>2
  <2> QED BY <1>2, <1>5, <2>1, <2>3
<1> QED BY <1>7, <1>8

\* Looking through a buffer finds only hits, and a hit it leaves out begins
\* less than step behind one it has found.
LEMMA BufferScanned ==
    ASSUME NEW buf \in Seq(Int), NEW pat \in Seq(Int), NEW step \in Nat, step > 0
    PROVE  LET found == ScanBuffer(buf, pat, step)
               occ   == Occurrences(buf, pat)
           IN  found \subseteq occ /\ \A i \in occ : \E j \in found : i - j \in 0 .. step - 1
<1> DEFINE hit(i) == Cut(buf, i, Len(pat)) = pat
           all == Max({0, Len(buf) - Len(pat) + 1})
           occ == Occurrences(buf, pat)
           X == [next : Nat, found : SUBSET Nat]
           Look(s, i) == IF i - 1 < s.next \/ ~hit(i - 1) THEN s
                         ELSE [next |-> i - 1 + step, found |-> s.found \cup {i - 1}]
           first == [next |-> 0, found |-> {}]
           Is(f) == f = [n \in 0 .. all |-> IF n = 0 THEN first ELSE Look(f[n - 1], n)]
<1>1. PICK N \in Nat : N = all
  <2>1. Len(buf) - Len(pat) + 1 \in Int
    OBVIOUS
  <2> QED BY <2>1, MaxOfTwo
<1>2. N = IF Len(buf) - Len(pat) + 1 >= 0 THEN Len(buf) - Len(pat) + 1 ELSE 0
  <2>1. Len(buf) - Len(pat) + 1 \in Int
    OBVIOUS
  <2> QED BY <1>1, <2>1, MaxOfTwo
<1>3. ScanBuffer(buf, pat, step) = (CHOOSE f : Is(f))[all].found
  BY DEF ScanBuffer
<1>4. \A i : i \in occ <=> i \in 0 .. N - 1 /\ hit(i)
  BY <1>2 DEF Occurrences
<1> HIDE DEF all, hit, occ
<1>5. \E f : Is(f)
  <2>1. ASSUME NEW x \in X, NEW i \in 1 .. N PROVE Look(x, i) \in X
    OBVIOUS
  <2>2. first \in X
    OBVIOUS
  <2>3. PICK Y : Y = X
    OBVIOUS
  <2> HIDE DEF X, first, Look
  <2>4. PICK F \in [1 .. N -> [Y -> Y]] : F = [i \in 1 .. N |-> [x \in Y |-> Look(x, i)]]
    BY <2>1, <2>3
  <2>5. PICK y \in Y : y = first
    BY <2>2, <2>3
  <2>6. PICK f \in [0 .. N -> Y] : f[0] = y /\ \A i \in 1 .. N : f[i] = F[i][f[i - 1]]
    <3>1. PICK f : IsRecursive(f, Y, N, y, F)
      BY Recursion
    <3> QED BY <3>1 DEF IsRecursive
  <2>7. \A i \in 0 .. N : f[i] = IF i = 0 THEN first ELSE Look(f[i - 1], i)
    <3> SUFFICES ASSUME NEW i \in 1 .. N PROVE f[i] = Look(f[i - 1], i)
      BY <2>5, <2>6
    <3>1. f[i - 1] \in Y
      BY <2>6
    <3> QED BY <2>4, <2>6, <3>1
  <2> QED BY <1>1, <2>6, <2>7
<1>6. PICK f : Is(f) /\ ScanBuffer(buf, pat, step) = f[N].found
  BY <1>1, <1>3, <1>5
<1>7. f[0] = first /\ \A i \in 1 .. N : f[i] = Look(f[i - 1], i)
  <2> HIDE DEF first, Look
  <2>1. f = [n \in 0 .. N |-> IF n = 0 THEN first ELSE Look(f[n - 1], n)]
    BY <1>1, <1>6
  <2> QED BY <2>1
<1> DEFINE Good(s, n) ==
             /\ s.next \in Nat /\ s.found \subseteq occ /\ s.found \subseteq 0 .. n - 1
             /\ s.next > 0 => s.next - step \in s.found
             /\ \A i \in occ : i < n => \E j \in s.found : i - j \in 0 .. step - 1
           S == {n \in Nat : n <= N => Good(f[n], n)}
<1>8. 0 \in S
  <2>1. Good(first, 0)
    BY <1>4
  <2> QED BY <1>7, <2>1
<1>9. ASSUME NEW n \in Nat, n \in S PROVE n + 1 \in S
  <2> SUFFICES ASSUME n + 1 <= N PROVE Good(f[n + 1], n + 1)
    OBVIOUS
  <2>1. PICK s : s = f[n] /\ Good(s, n)
    BY <1>9
  <2>2. PICK i \in 1 .. N : i = n + 1 /\ i - 1 = n
    OBVIOUS
  <2>3. f[n + 1] = IF n < s.next \/ ~hit(n) THEN s ELSE [next |-> n + step, found |-> s.found \cup {n}]
    BY <1>7, <2>1, <2>2
  <2>4. CASE ~hit(n)
    <3>1. \A h \in occ : h < n + 1 => h < n
      BY <1>4, <2>4
    <3> QED BY <2>1, <2>3, <2>4, <3>1
  <2>5. CASE hit(n) /\ n < s.next
    <3>0. PICK e \in Nat : e = s.next /\ n < e
      BY <2>1, <2>5
    <3>1. e - step \in s.found /\ n - (e - step) \in 0 .. step - 1
      <4>1. e > 0
        BY ONLY <3>0, e \in Nat, n \in Nat
      <4>2. e - step \in s.found /\ s.found \subseteq 0 .. n - 1
        BY <2>1, <3>0, <4>1
      <4>3. e - step <= n - 1
        BY ONLY <4>2, e \in Nat, n \in Nat, step \in Nat
      <4>4. n - (e - step) \in 0 .. step - 1
        BY ONLY <3>0, <4>3, e \in Nat, n \in Nat, step \in Nat
      <4> QED BY ONLY <4>2, <4>4
    <3>2. \A h \in occ : h < n + 1 => h < n \/ h = n
      BY <1>4
    <3>3. \A h \in occ : h < n + 1 => \E j \in s.found : h - j \in 0 .. step - 1
      BY <2>1, <3>1, <3>2
    <3> QED BY <2>1, <2>3, <2>5, <3>3
  <2>6. CASE hit(n) /\ ~(n < s.next)
    <3>1. n \in occ
      BY <1>4, <2>6
    <3>2. PICK t : t = [next |-> n + step, found |-> s.found \cup {n}]
      OBVIOUS
    <3>3. f[n + 1] = t /\ t.next = n + step /\ t.found = s.found \cup {n}
      BY <2>3, <2>6, <3>2
    <3>4. \A h \in occ : h < n + 1 => h < n \/ h = n
      BY <1>4
    <3>5. n - n \in 0 .. step - 1
      OBVIOUS
    <3>6. \A h \in occ : h < n + 1 => \E j \in t.found : h - j \in 0 .. step - 1
      BY <2>1, <3>3, <3>4, <3>5
    <3>7. t.found \subseteq occ /\ t.found \subseteq 0 .. n
      BY <2>1, <3>1, <3>3
    <3>8. t.next \in Nat /\ t.next - step \in t.found
      BY <3>3
    <3> QED BY <3>3, <3>6, <3>7, <3>8
  <2> QED BY <2>4, <2>5, <2>6
<1> HIDE DEF S
<1>10. N \in S
  BY <1>8, <1>9, SetInduction
<1>11. Good(f[N], N) /\ \A i \in occ : i < N
  BY <1>4, <1>10 DEF S
<1> QED BY <1>6, <1>11 DEF occ

\* The pieces a length is cut into.
LEMMA ChunksAre ==
    ASSUME NEW len \in Nat, NEW size \in Nat, size > 0
    PROVE  /\ ChunkCount(len, size) \in Nat /\ ChunkCount(len, size) * size >= len
           /\ \A k \in 0 .. ChunkCount(len, size) - 1 : k * size \in Nat /\ k * size < len
<1>1. PICK N : N = (len + size - 1) \div size
  OBVIOUS
<1>2. N \in Int /\ N * size >= len /\ (N - 1) * size < len
  BY <1>1
<1>3. N \in Nat
  BY <1>1
<1>4. ASSUME NEW k \in 0 .. N - 1 PROVE k * size \in Nat /\ k * size < len
  <2>1. k * size <= (N - 1) * size /\ k * size \in Nat
    BY <1>3
  <2>2. k * size \in Int /\ (N - 1) * size \in Int
    BY <1>3
  <2> QED BY <1>2, <2>1, <2>2
<1> QED BY <1>1, <1>2, <1>3, <1>4 DEF ChunkCount

\* found has what is in occ, and a nearby place for all of it that ends before e.
Covers(found, occ, len, e, step) ==
    /\ found \subseteq occ
    /\ \A i \in occ : i + len <= e => \E j \in found : i - j \in 0 .. step - 1

\* One more buffer, which begins at b and holds m bytes.
LEMMA ChunkScanned ==
    ASSUME NEW mem \in Seq(Int), NEW pat \in Seq(Int), NEW step \in Nat, step > 0,
           NEW b \in Nat, NEW m \in Nat, b + m <= Len(mem), NEW e \in Nat,
           NEW old, Covers(old, Occurrences(mem, pat), Len(pat), e, step),
           \A i \in Occurrences(mem, pat) : i + Len(pat) > e => i >= b
    PROVE  Covers(old \cup {b + i : i \in ScanBuffer(Cut(mem, b, m), pat, step)},
                  Occurrences(mem, pat), Len(pat), b + m, step)
<1>1. PICK buf \in Seq(Int) : buf = Cut(mem, b, m) /\ Len(buf) = m
  BY CutIs DEF IsCut
<1>2. PICK L \in Nat : L = Len(pat)
  OBVIOUS
<1>3. PICK found, occ : found = ScanBuffer(buf, pat, step) /\ occ = Occurrences(mem, pat)
  OBVIOUS
<1>4. \A i \in Nat : i + L <= m => (i \in Occurrences(buf, pat) <=> b + i \in occ)
  <2> SUFFICES ASSUME NEW i \in Nat, i + L <= m PROVE i \in Occurrences(buf, pat) <=> b + i \in occ
    OBVIOUS
  <2>1. Cut(buf, i, L) = Cut(mem, b + i, L)
    BY <1>1, CutCut
  <2>2. i \in 0 .. Len(buf) - L /\ b + i \in 0 .. Len(mem) - L
    BY <1>1, <1>2
  <2> QED BY <1>2, <1>3, <2>1, <2>2 DEF Occurrences
<1>5. found \subseteq Occurrences(buf, pat) /\ \A i \in Occurrences(buf, pat) : \E j \in found : i - j \in 0 .. step - 1
  BY <1>3, BufferScanned
<1>6. \A i \in Occurrences(buf, pat) : i \in Nat /\ i + L <= m
  BY <1>1, <1>2 DEF Occurrences
<1>7. \A i \in occ : i \in Nat
  BY <1>3 DEF Occurrences
<1> DEFINE new == old \cup {b + i : i \in found}
<1>8. new \subseteq occ
  <2>1. old \subseteq occ
    BY <1>3 DEF Covers
  <2>2. \A i \in found : b + i \in occ
    BY <1>4, <1>5, <1>6
  <2> QED BY <2>1, <2>2
<1>9. ASSUME NEW i \in occ, i + L <= b + m PROVE \E j \in new : i - j \in 0 .. step - 1
  <2>1. CASE i + L <= e
    BY <1>2, <1>3, <2>1 DEF Covers
  <2>2. CASE i + L > e
    <3>1. i \in Nat /\ i >= b
      BY <1>2, <1>3, <1>7, <2>2
    <3>2. PICK k \in Nat : i = b + k
      <4>1. i - b \in Nat /\ i = b + (i - b)
        BY <3>1
      <4> QED BY <4>1
    <3>3. k \in Occurrences(buf, pat)
      BY <1>4, <1>9, <3>2
    <3>4. PICK j \in found : k - j \in 0 .. step - 1
      BY <1>5, <3>3
    <3>5. j \in Nat
      BY <1>5, <1>6, <3>4
    <3>6. b + j \in new /\ i - (b + j) = k - j
      BY <3>2, <3>5
    <3> QED BY <3>4, <3>6
  <2> QED BY <1>7, <2>1, <2>2
<1> QED BY <1>1, <1>2, <1>3, <1>8, <1>9 DEF Covers

\* A read of memory without holes has all it asks for.
LEMMA ReadAll ==
    ASSUME NEW mem \in Seq(Int), Readable(mem), NEW ad \in Nat, NEW n \in Nat, ad + n <= Len(mem)
    PROVE  ReadMemory(mem, ad, n) = Cut(mem, ad, n)
<1>1. PICK k \in 0 .. n : ReadMemory(mem, ad, n) = Cut(mem, ad, k) /\ (k = n \/ mem[ad + k + 1] = Gap)
  BY ReadIs
<1>2. k # n => ad + k + 1 \in DOMAIN mem
  OBVIOUS
<1> QED BY <1>1, <1>2 DEF Readable

\* What is kept of a buffer for the next one: its last bytes.
LEMMA OverlapIs ==
    ASSUME NEW mem \in Seq(Int), NEW b \in Nat, NEW m \in Nat, b + m <= Len(mem), NEW len \in Nat, len > 0
    PROVE  /\ Overlap(Cut(mem, b, m), len) \in Seq(Int)
           /\ m >= len - 1 => Overlap(Cut(mem, b, m), len) = Cut(mem, b + m - (len - 1), len - 1)
<1>1. PICK buf \in Seq(Int) : buf = Cut(mem, b, m) /\ Len(buf) = m
  BY CutIs DEF IsCut
<1>2. CASE m >= len - 1
  <2>1. PICK i \in Nat, k \in Nat : i = m - len + 1 /\ k = len - 1 /\ i + k = m
    BY <1>2
  <2>2. Overlap(buf, len) = Cut(buf, i, k)
    BY <1>1, <1>2, <2>1 DEF Overlap
  <2>3. Cut(buf, i, k) = Cut(mem, b + i, k) /\ Cut(buf, i, k) \in Seq(Int)
    BY <1>1, <2>1, CutCut, CutIs
  <2>4. b + i = b + m - (len - 1)
    BY <2>1
  <2> QED BY <1>1, <2>1, <2>2, <2>3, <2>4
<1>3. CASE ~(m >= len - 1)
  <2>1. Overlap(buf, len) = <<>>
    BY <1>1, <1>3 DEF Overlap
  <2> QED BY <1>1, <1>3, <2>1
<1> QED BY <1>2, <1>3

\* A scan of memory without holes finds the places of the pattern, those that
\* lie across two chunks too, but for those that overlap one it reports, as
\* long as the pattern is at most one byte longer than a chunk (searchMemory,
\* with its overlap of Len(pat) - 1 bytes).
THEOREM ScansFindAll ==
    ASSUME NEW mem \in Seq(Int), Readable(mem), NEW pat \in Seq(Int), pat # <<>>, Len(pat) <= ScanChunk + 1,
           NEW step \in Nat, step > 0
    PROVE  ScanFinds(mem, pat, step)
<1>0. PICK C \in Nat : C = ScanChunk /\ C > 0
  BY MemAssumption
<1>1. PICK L \in Nat, M \in Nat : L = Len(pat) /\ L > 0 /\ M = Len(mem)
  BY EmptySeq
<1>2. PICK N \in Nat : /\ N = ChunkCount(M, C) /\ N * C >= M
                       /\ \A k \in 0 .. N - 1 : k * C \in Nat /\ k * C < M
  BY <1>0, ChunksAre
<1> DEFINE occ  == Occurrences(mem, pat)
           First == [found |-> {}, overlap |-> <<>>]
           Step(s, n) == LET ad   == (n - 1) * ScanChunk
                             data == ReadMemory(mem, ad, Min({ScanChunk, Len(mem) - ad}))
                             buf  == s.overlap \o data
                         IN IF data = <<>> THEN [s EXCEPT !.overlap = <<>>]
                            ELSE [found   |-> s.found \cup {ad - Len(s.overlap) + i : i \in ScanBuffer(buf, pat, step)},
                                  overlap |-> Overlap(buf, Len(pat))]
           Is(f) == f = [n \in 0 .. N |-> IF n = 0 THEN First ELSE Step(f[n - 1], n)]
           X == [found : SUBSET Int, overlap : Seq(Int)]
<1>3. SearchMemory(mem, pat, step) = (CHOOSE f : Is(f))[N].found
  BY <1>0, <1>1, <1>2 DEF SearchMemory
\* What is read of chunk n.
<1> DEFINE Want(n) == IF C <= M - (n - 1) * C THEN C ELSE M - (n - 1) * C
<1>4. ASSUME NEW n \in 1 .. N
      PROVE  \E ad \in Nat, w \in Nat :
                /\ ad = (n - 1) * C /\ w = Want(n) /\ w > 0 /\ ad + w <= M
                /\ Cut(mem, ad, w) \in Seq(Int) /\ Len(Cut(mem, ad, w)) = w
                /\ \A s \in X : Step(s, n) =
                      [found   |-> s.found \cup {ad - Len(s.overlap) + i :
                                                    i \in ScanBuffer(s.overlap \o Cut(mem, ad, w), pat, step)},
                       overlap |-> Overlap(s.overlap \o Cut(mem, ad, w), L)]
  <2>1. PICK k \in 0 .. N - 1 : k = n - 1
    OBVIOUS
  <2>2. PICK ad \in Nat : ad = k * C /\ ad < M
    BY <1>2
  <2>3. PICK w \in Nat : w = (IF C <= M - ad THEN C ELSE M - ad) /\ w > 0 /\ ad + w <= M
    <3>1. CASE C <= M - ad
      BY <1>0, <2>2, <3>1
    <3>2. CASE ~(C <= M - ad)
      <4>1. M - ad \in Nat /\ M - ad > 0 /\ ad + (M - ad) <= M
        BY <2>2
      <4> QED BY <3>2, <4>1
    <3> QED BY <3>1, <3>2
  <2>4. Min({ScanChunk, Len(mem) - ad}) = w
    <3>1. C \in Int /\ M - ad \in Int
      BY ONLY C \in Nat, M \in Nat, ad \in Nat
    <3>2. Min({C, M - ad}) = IF C <= M - ad THEN C ELSE M - ad
      BY ONLY <3>1, MinOfTwo
    <3> QED BY ONLY <1>0, <1>1, <2>3, <3>2
  <2>5. ReadMemory(mem, ad, w) = Cut(mem, ad, w) /\ Cut(mem, ad, w) \in Seq(Int) /\ Len(Cut(mem, ad, w)) = w
    <3>1. ad + w <= Len(mem)
      BY <1>1, <2>3
    <3>2. ReadMemory(mem, ad, w) = Cut(mem, ad, w)
      BY <3>1, ReadAll
    <3>3. Cut(mem, ad, w) \in Seq(Int) /\ IsCut(Cut(mem, ad, w), mem, ad, w)
      BY <3>1, CutIs
    <3> QED BY <3>2, <3>3 DEF IsCut
  <2>6. Cut(mem, ad, w) # <<>>
    BY <2>3, <2>5, EmptySeq
  <2>7. ad = (n - 1) * C /\ w = Want(n) /\ ad = (n - 1) * ScanChunk
    BY <1>0, <2>1, <2>2, <2>3
  <2>8. \A s \in X : Step(s, n) =
                      [found   |-> s.found \cup {ad - Len(s.overlap) + i :
                                                    i \in ScanBuffer(s.overlap \o Cut(mem, ad, w), pat, step)},
                       overlap |-> Overlap(s.overlap \o Cut(mem, ad, w), L)]
    BY <1>1, <2>4, <2>5, <2>6, <2>7
  <2> HIDE DEF Step, X, Want
  <2> QED BY <2>3, <2>5, <2>7, <2>8
<1>5. ASSUME NEW s \in X, NEW n \in 1 .. N PROVE Step(s, n) \in X
  <2>1. PICK ad \in Nat, w \in Nat :
                /\ Cut(mem, ad, w) \in Seq(Int)
                /\ Step(s, n) =
                      [found   |-> s.found \cup {ad - Len(s.overlap) + i :
                                                    i \in ScanBuffer(s.overlap \o Cut(mem, ad, w), pat, step)},
                       overlap |-> Overlap(s.overlap \o Cut(mem, ad, w), L)]
    <3> HIDE DEF Step, X, Want
    <3> QED BY <1>4
  <2>2. PICK u \in Seq(Int) : u = s.overlap /\ Len(u) \in Nat
    OBVIOUS
  <2>3. PICK buf \in Seq(Int) : buf = u \o Cut(mem, ad, w)
    BY <2>1, ConcatProperties
  <2>4. ScanBuffer(buf, pat, step) \subseteq Int
    <3>1. Occurrences(buf, pat) \subseteq Int
      BY DEF Occurrences
    <3>2. ScanBuffer(buf, pat, step) \subseteq Occurrences(buf, pat)
      BY BufferScanned
    <3> QED BY <3>1, <3>2
  <2>5. Overlap(buf, L) \in Seq(Int)
    <3>1. PICK m \in Nat : m = Len(buf)
      OBVIOUS
    <3>2. Cut(buf, 0, m) = buf
      <4>1. Cut(buf, 0, m) \in Seq(Int) /\ IsCut(Cut(buf, 0, m), buf, 0, m)
        BY <3>1, CutIs
      <4>2. \A i \in 1 .. m : 0 + i = i
        OBVIOUS
      <4>3. Len(Cut(buf, 0, m)) = Len(buf) /\ \A i \in 1 .. Len(buf) : Cut(buf, 0, m)[i] = buf[i]
        BY <3>1, <4>1, <4>2 DEF IsCut
      <4>4. PICK r \in Seq(Int) : r = Cut(buf, 0, m) /\ Len(r) = Len(buf) /\ \A i \in 1 .. Len(buf) : r[i] = buf[i]
        BY <4>1, <4>3
      <4>5. r = buf
        BY <4>4, SameSeq
      <4> QED BY <4>4, <4>5
    <3>3. 0 + m <= Len(buf)
      BY <3>1
    <3>4. Overlap(Cut(buf, 0, m), L) \in Seq(Int)
      BY <1>1, <3>3, OverlapIs
    <3> QED BY <3>2, <3>4
  <2>6. s.found \subseteq Int
    OBVIOUS
  <2>7. s.found \cup {ad - Len(u) + i : i \in ScanBuffer(buf, pat, step)} \subseteq Int
    BY <2>2, <2>4, <2>6
  <2> HIDE DEF Step
  <2> QED BY <2>1, <2>2, <2>3, <2>5, <2>7
<1>6. First \in X
  OBVIOUS
<1>7. PICK f : Is(f) /\ SearchMemory(mem, pat, step) = f[N].found
  <2> HIDE DEF X, First, Step
  <2>1. PICK Y : Y = X
    OBVIOUS
  <2>2. PICK F \in [1 .. N -> [Y -> Y]] : F = [i \in 1 .. N |-> [x \in Y |-> Step(x, i)]]
    BY <1>5, <2>1
  <2>3. PICK y \in Y : y = First
    BY <1>6, <2>1
  <2>4. PICK f \in [0 .. N -> Y] : f[0] = y /\ \A i \in 1 .. N : f[i] = F[i][f[i - 1]]
    <3>1. PICK f : IsRecursive(f, Y, N, y, F)
      BY Recursion
    <3> QED BY <3>1 DEF IsRecursive
  <2>5. \A i \in 0 .. N : f[i] = IF i = 0 THEN First ELSE Step(f[i - 1], i)
    <3> SUFFICES ASSUME NEW i \in 1 .. N PROVE f[i] = Step(f[i - 1], i)
      BY <2>3, <2>4
    <3>1. f[i - 1] \in Y
      BY <2>4
    <3> QED BY <2>2, <2>4, <3>1
  <2>6. Is(f)
    BY <2>4, <2>5
  <2> HIDE DEF Is
  <2> QED BY <1>3, <2>6
<1>8. f[0] = First /\ \A i \in 1 .. N : f[i] = Step(f[i - 1], i)
  <2> HIDE DEF First, Step
  <2>1. f = [n \in 0 .. N |-> IF n = 0 THEN First ELSE Step(f[n - 1], n)]
    BY <1>7
  <2> QED BY <2>1
\* After chunk n all before E(n) has been looked at, and the last O(n) bytes
\* of it are kept.
<1> DEFINE E(n) == IF n < N THEN n * C ELSE M
           O(n) == IF n = 0 THEN 0 ELSE L - 1
           Good(s, n) == /\ s \in X /\ Covers(s.found, occ, L, E(n), step)
                         /\ n < N => O(n) <= E(n) /\ s.overlap = Cut(mem, E(n) - O(n), O(n))
           S == {n \in Nat : n <= N => Good(f[n], n)}
<1>9. \A i \in occ : i \in Nat
  BY DEF Occurrences
<1> HIDE DEF X, Step, occ, First
<1>10. 0 \in S
  <2>1. E(0) = 0 /\ O(0) = 0
    BY <1>2
  <2>2. First \in X /\ First.found = {} /\ First.overlap = <<>>
    BY <1>6 DEF First
  <2>3. Covers({}, occ, L, 0, step)
    BY <1>1, <1>9 DEF Covers
  <2>4. Cut(mem, 0, 0) = <<>>
    <3>1. 0 + 0 <= Len(mem)
      OBVIOUS
    <3>2. Cut(mem, 0, 0) \in Seq(Int) /\ IsCut(Cut(mem, 0, 0), mem, 0, 0)
      BY <3>1, CutIs
    <3> QED BY <3>2, EmptySeq DEF IsCut
  <2>5. Good(First, 0)
    BY <2>1, <2>2, <2>3, <2>4
  <2> HIDE DEF Good
  <2> QED BY <1>8, <2>5
<1>11. ASSUME NEW n \in Nat, n \in S PROVE n + 1 \in S
  <2> SUFFICES ASSUME n + 1 <= N PROVE Good(f[n + 1], n + 1)
    OBVIOUS
  <2>1. PICK s \in X : s = f[n] /\ Good(s, n)
    BY <1>11
  <2>2. PICK j \in 1 .. N : j = n + 1 /\ j - 1 = n
    OBVIOUS
  <2>3. PICK ad \in Nat, w \in Nat :
                /\ ad = (j - 1) * C /\ w = Want(j) /\ w > 0 /\ ad + w <= M
                /\ Cut(mem, ad, w) \in Seq(Int) /\ Len(Cut(mem, ad, w)) = w
                /\ Step(s, j) =
                      [found   |-> s.found \cup {ad - Len(s.overlap) + i :
                                                    i \in ScanBuffer(s.overlap \o Cut(mem, ad, w), pat, step)},
                       overlap |-> Overlap(s.overlap \o Cut(mem, ad, w), L)]
    <3> HIDE DEF Want
    <3> QED BY <1>4
  <2>4. ad = E(n) /\ ad = n * C /\ ad < M
    <3>1. n \in 0 .. N - 1
      OBVIOUS
    <3> QED BY <1>2, <2>2, <2>3, <3>1
  <2>5. w = IF C <= M - ad THEN C ELSE M - ad
    BY <2>2, <2>3, <2>4
  <2>6. ad + w = E(n + 1) /\ (n + 1 < N => w = C)
    <3>1. (n + 1) * C = ad + C
      BY <2>4
    <3>2. CASE n + 1 < N
      <4>1. n + 1 \in 0 .. N - 1
        BY <3>2
      <4>2. (n + 1) * C < M
        BY <1>2, <4>1
      <4> QED BY <2>5, <3>1, <3>2, <4>2
    <3>3. CASE n + 1 = N
      <4>1. ad + C >= M
        BY <1>2, <3>1, <3>3
      <4> QED BY <2>4, <2>5, <3>3, <4>1
    <3> QED BY <3>2, <3>3
  <2>7. PICK o \in Nat : o = O(n) /\ o <= ad /\ (n > 0 => o = L - 1)
    <3>1. O(n) \in Nat /\ (n > 0 => O(n) = L - 1)
      BY <1>1
    <3>2. O(n) <= ad
      BY <2>1, <2>4
    <3> HIDE DEF O
    <3> QED BY <3>1, <3>2
  <2>8. PICK b \in Nat, m \in Nat : b = ad - o /\ m = o + w
    <3>1. o <= ad
      BY <2>7
    <3>2. ad - o \in Nat /\ o + w \in Nat
      BY ONLY <3>1, ad \in Nat, o \in Nat, w \in Nat
    <3> QED BY <3>2
  <2>9. b + o = ad /\ b + m = ad + w /\ b + m <= Len(mem) /\ b + o + w <= Len(mem)
    <3>1. ad + w <= M /\ M = Len(mem)
      BY <1>1, <2>3
    <3>2. b + o = ad /\ b + m = ad + w
      BY ONLY <2>8, ad \in Nat, o \in Nat, w \in Nat, b \in Nat, m \in Nat
    <3> QED BY <3>1, <3>2
  <2>10. s.overlap = Cut(mem, b, o) /\ Len(s.overlap) = o
    <3>1. s.overlap = Cut(mem, b, o)
      BY <2>1, <2>4, <2>7, <2>8
    <3>2. b + o <= Len(mem)
      BY <1>1, <2>4, <2>9
    <3> QED BY <3>1, <3>2, CutIs DEF IsCut
  <2>11. s.overlap \o Cut(mem, ad, w) = Cut(mem, b, m)
    <3>1. Cut(mem, b, o) \o Cut(mem, b + o, w) = Cut(mem, b, o + w)
      <4>1. b + o + w <= Len(mem)
        BY <2>9
      <4> QED BY ONLY <4>1, mem \in Seq(Int), b \in Nat, o \in Nat, w \in Nat, CutJoin
    <3> QED BY <2>8, <2>9, <2>10, <3>1
  <2>12. PICK t : t = Step(s, j) /\ f[n + 1] = t /\ t \in X
    BY <1>5, <1>8, <2>1, <2>2
  <2>13. /\ t.found = s.found \cup {b + i : i \in ScanBuffer(Cut(mem, b, m), pat, step)}
         /\ t.overlap = Overlap(Cut(mem, b, m), L)
    <3>1. ad - Len(s.overlap) = b
      BY <2>8, <2>10
    <3>2. t = [found   |-> s.found \cup {b + i : i \in ScanBuffer(Cut(mem, b, m), pat, step)},
               overlap |-> Overlap(Cut(mem, b, m), L)]
      BY <2>3, <2>11, <2>12, <3>1
    <3> QED BY <3>2
  <2>14. Covers(t.found, occ, L, E(n + 1), step)
    <3>1. Covers(s.found, occ, L, ad, step)
      BY <2>1, <2>4
    <3>2. \A i \in occ : i + L > ad => i >= b
      <4>1. n = 0 => ad = 0
        BY <2>4
      <4>2. ASSUME NEW i \in Nat, i + L > ad PROVE i >= b
        <5>1. CASE n = 0
          BY <2>8, <4>1, <5>1
        <5>2. CASE n > 0
          <6>1. o = L - 1 /\ b = ad - o
            BY <2>7, <2>8, <5>2
          <6> QED BY ONLY <4>2, <6>1, ad \in Nat, L \in Nat, i \in Nat
        <5> QED BY <5>1, <5>2
      <4> QED BY <1>9, <4>2
    <3>3. Covers(t.found, occ, L, b + m, step)
      <4>1. PICK old : old = s.found
        OBVIOUS
      <4>2. Covers(old, Occurrences(mem, pat), Len(pat), ad, step)
        BY <1>1, <3>1, <4>1 DEF occ
      <4>3. \A i \in Occurrences(mem, pat) : i + Len(pat) > ad => i >= b
        BY <1>1, <3>2 DEF occ
      <4>4. Covers(old \cup {b + i : i \in ScanBuffer(Cut(mem, b, m), pat, step)},
                   Occurrences(mem, pat), Len(pat), b + m, step)
        BY <2>9, <4>2, <4>3, ChunkScanned
      <4> QED BY <1>1, <2>13, <4>1, <4>4 DEF occ
    <3>4. b + m = E(n + 1)
      BY <2>6, <2>9
    <3> QED BY <3>3, <3>4
  <2>15. n + 1 < N => O(n + 1) <= E(n + 1) /\ t.overlap = Cut(mem, E(n + 1) - O(n + 1), O(n + 1))
    <3> SUFFICES ASSUME n + 1 < N
                 PROVE  O(n + 1) <= E(n + 1) /\ t.overlap = Cut(mem, E(n + 1) - O(n + 1), O(n + 1))
      OBVIOUS
    <3>1. m >= L - 1 /\ O(n + 1) = L - 1 /\ E(n + 1) = b + m
      BY <1>0, <1>1, <2>6, <2>8, <2>9
    <3>2. Overlap(Cut(mem, b, m), L) = Cut(mem, b + m - (L - 1), L - 1)
      <4>1. L > 0 /\ m >= L - 1 /\ b + m <= Len(mem)
        BY <1>1, <2>9, <3>1
      <4> QED BY <4>1, OverlapIs
    <3> HIDE DEF E, O
    <3> QED BY <1>1, <2>13, <3>1, <3>2
  <2> QED BY <2>12, <2>14, <2>15
<1> HIDE DEF S
<1>12. N \in S
  BY <1>10, <1>11, SetInduction
<1>13. Covers(f[N].found, occ, L, M, step)
  BY <1>12 DEF S
<1>14. \A i \in occ : i + L <= M
  BY <1>1 DEF occ, Occurrences
<1> QED BY <1>7, <1>13, <1>14 DEF ScanFinds, Covers, occ

\* A list of numbers has a greatest one.
LEMMA MaxOfList ==
    ASSUME NEW k \in Nat, k > 0, NEW e \in [1 .. k -> Nat]
    PROVE  Max({e[i] : i \in 1 .. k}) \in Nat /\ \A i \in 1 .. k : e[i] <= Max({e[i2] : i2 \in 1 .. k})
<1> DEFINE S == {n \in Nat : n + 1 <= k => \E j \in 1 .. n + 1 : \A i \in 1 .. n + 1 : e[j] >= e[i]}
<1>1. 0 \in S
  OBVIOUS
<1>2. ASSUME NEW n \in Nat, n \in S PROVE n + 1 \in S
  <2> SUFFICES ASSUME n + 2 <= k PROVE \E j \in 1 .. n + 2 : \A i \in 1 .. n + 2 : e[j] >= e[i]
    OBVIOUS
  <2>1. PICK j \in 1 .. n + 1 : \A i \in 1 .. n + 1 : e[j] >= e[i]
    BY <1>2
  <2>2. e[j] \in Nat /\ e[n + 2] \in Nat /\ \A i \in 1 .. n + 1 : e[i] \in Nat
    OBVIOUS
  <2>3. \A i \in 1 .. n + 2 : i \in 1 .. n + 1 \/ i = n + 2
    OBVIOUS
  <2>4. CASE e[j] >= e[n + 2]
    <3>1. \A i \in 1 .. n + 2 : e[j] >= e[i]
      BY ONLY <2>1, <2>3, <2>4
    <3>2. j \in 1 .. n + 2
      BY ONLY j \in 1 .. n + 1, n \in Nat
    <3> QED BY ONLY <3>1, <3>2
  <2>5. CASE e[j] < e[n + 2]
    <3>1. \A i \in 1 .. n + 2 : e[n + 2] >= e[i]
      BY <2>1, <2>2, <2>3, <2>5
    <3> QED BY <3>1
  <2> QED BY <2>2, <2>4, <2>5
<1> HIDE DEF S
<1>3. \A n \in Nat : n \in S
  BY <1>1, <1>2, SetInduction
<1>4. PICK n \in Nat : k = n + 1
  <2>1. k - 1 \in Nat /\ k = (k - 1) + 1
    OBVIOUS
  <2> QED BY <2>1
<1>5. PICK j \in 1 .. k : \A i \in 1 .. k : e[j] >= e[i]
  <2>1. n \in S /\ n + 1 = k /\ n + 1 <= k
    BY <1>3, <1>4
  <2>2. \E j \in 1 .. n + 1 : \A i \in 1 .. n + 1 : e[j] >= e[i]
    BY <2>1 DEF S
  <2> QED BY <2>1, <2>2
<1>a. PICK T : T = {e[i] : i \in 1 .. k}
  OBVIOUS
<1>6. PICK m \in Nat : T = {e[i] : i \in 1 .. k} /\ m = e[j]
  BY <1>a
<1>7. T \subseteq Int /\ m \in T /\ \A y \in T : m >= y
  BY <1>5, <1>6
<1>8. Max(T) = m
  BY <1>7, MaxIs
<1> QED BY <1>5, <1>6, <1>8

\* What a chunk, read with size more bytes, holds: q of the w bytes from at on.
IsRead(mem, k, size, ad, w, q) ==
    /\ q <= w /\ ad = k * ScanChunk /\ ad < Len(mem) /\ ad + w <= Len(mem)
    /\ w = IF ScanChunk + size <= Len(mem) - ad THEN ScanChunk + size ELSE Len(mem) - ad
    /\ ReadMemory(mem, k * ScanChunk, Min({ScanChunk + size, Len(mem) - k * ScanChunk})) = Cut(mem, ad, q)
    /\ Len(Cut(mem, ad, q)) = q
    /\ \A i \in 1 .. q : mem[ad + i] # Gap
    /\ Readable(mem) => q = w
LEMMA ChunkRead ==
    ASSUME NEW mem \in Seq(Int), NEW k \in Chunks(Len(mem), ScanChunk), NEW size \in Nat
    PROVE  \E ad \in Nat, w \in Nat, q \in Nat : IsRead(mem, k, size, ad, w, q)
<1>1. PICK C \in Nat, M \in Nat : C = ScanChunk /\ C > 0 /\ M = Len(mem)
  BY MemAssumption
<1>2. PICK ad \in Nat : ad = k * ScanChunk /\ ad < M
  BY <1>1, ChunksAre DEF Chunks
<1>3. PICK w \in Nat : w = (IF C + size <= M - ad THEN C + size ELSE M - ad) /\ ad + w <= M
  <2>1. CASE C + size <= M - ad
    BY <2>1
  <2>2. CASE ~(C + size <= M - ad)
    <3>1. M - ad \in Nat /\ ad + (M - ad) <= M
      BY <1>2
    <3> QED BY <2>2, <3>1
  <2> QED BY <2>1, <2>2
<1>4. Min({ScanChunk + size, Len(mem) - ad}) = w
  BY <1>1, <1>3, MinOfTwo
<1>5. ad + w <= Len(mem)
  BY <1>1, <1>3
<1>6. PICK q \in 0 .. w : /\ ReadMemory(mem, ad, w) = Cut(mem, ad, q)
                          /\ \A i \in 1 .. q : mem[ad + i] # Gap
                          /\ q = w \/ mem[ad + q + 1] = Gap
  BY <1>5, ReadIs
<1>7. Readable(mem) => q = w
  <2>1. q # w => ad + q + 1 \in DOMAIN mem
    BY <1>5
  <2> QED BY <1>6, <2>1 DEF Readable
<1>8. q \in Nat /\ q <= w /\ ad + q <= Len(mem)
  BY <1>5
<1>9. Len(Cut(mem, ad, q)) = q
  BY <1>8, CutIs DEF IsCut
<1>10. w = IF ScanChunk + size <= Len(mem) - ad THEN ScanChunk + size ELSE Len(mem) - ad
  BY <1>1, <1>3
<1>11. ReadMemory(mem, k * ScanChunk, Min({ScanChunk + size, Len(mem) - k * ScanChunk})) = Cut(mem, ad, q)
  BY <1>2, <1>4, <1>6
<1>12. IsRead(mem, k, size, ad, w, q)
  BY <1>1, <1>2, <1>5, <1>6, <1>7, <1>8, <1>9, <1>10, <1>11 DEF IsRead
<1> QED BY <1>8, <1>12

\* The place p is in the chunk p \div ScanChunk.
LEMMA ChunkOf ==
    ASSUME NEW len \in Nat, NEW size \in Nat, size > 0, NEW p \in Nat, p < len
    PROVE  \E k \in Chunks(len, size) : k * size <= p /\ p < k * size + size
<1>1. PICK k \in Nat : k * size <= p /\ p < (k + 1) * size
  <2>1. PICK k : k = p \div size
    OBVIOUS
  <2>2. k \in Nat /\ k * size <= p /\ p < (k + 1) * size
    BY <2>1
  <2> QED BY <2>2
<1>2. PICK N \in Nat : N = ChunkCount(len, size) /\ N * size >= len
  BY ChunksAre
<1>3. p < N * size
  BY <1>2
<1>4. k < N
  BY <1>1, <1>3
<1>5. (k + 1) * size = k * size + size
  OBVIOUS
<1>6. k \in Chunks(len, size)
  BY <1>2, <1>4 DEF Chunks
<1> QED BY <1>1, <1>5, <1>6

\* A search for a struct reads each chunk so far that a struct that begins in
\* it is read with it: what it reports is there, and in a memory without holes
\* it reports every place (structSearch).
THEOREM StructsAreFound ==
    ASSUME NEW mem \in Seq(Int), NEW k \in Nat, k > 0, NEW fields \in [1 .. k -> [off : Nat, bytes : Seq(Int)]],
           StructSize(fields) > 0
    PROVE  StructFinds(mem, fields)
<1> DEFINE off(f) == fields[f].off
           len(f) == Len(fields[f].bytes)
           Here(s, i) == \A f \in DOMAIN fields : Cut(s, i + off(f), len(f)) = fields[f].bytes
<1>1. ASSUME NEW f \in 1 .. k PROVE off(f) \in Nat /\ len(f) \in Nat
  <2>1. fields[f] \in [off : Nat, bytes : Seq(Int)]
    OBVIOUS
  <2> QED BY <2>1
<1>2. PICK z \in Nat : z = StructSize(fields) /\ z > 0 /\ \A f \in 1 .. k : off(f) + len(f) <= z
  <2> DEFINE e == [f \in 1 .. k |-> off(f) + len(f)]
  <2>1. e \in [1 .. k -> Nat]
    BY <1>1
  <2>2. StructSize(fields) = Max({e[f] : f \in 1 .. k})
    <3>1. {fields[f].off + Len(fields[f].bytes) : f \in DOMAIN fields} = {e[f] : f \in 1 .. k}
      OBVIOUS
    <3> QED BY <3>1 DEF StructSize
  <2>3. \A f \in 1 .. k : e[f] = off(f) + len(f)
    OBVIOUS
  <2> HIDE DEF e
  <2>4. Max({e[f] : f \in 1 .. k}) \in Nat /\ \A f \in 1 .. k : e[f] <= Max({e[f2] : f2 \in 1 .. k})
    BY <2>1, MaxOfList
  <2> QED BY <2>2, <2>3, <2>4
<1>3. PICK M \in Nat, C \in Nat : M = Len(mem) /\ C = ScanChunk
  BY MemAssumption
<1> DEFINE buf(c) == ReadMemory(mem, c * ScanChunk, Min({ScanChunk + z, Len(mem) - c * ScanChunk}))
           Part(c) == {c * ScanChunk + i : i \in {i \in 0 .. Len(buf(c)) - z : Here(buf(c), i)}}
           places  == {i \in 0 .. M - z : Here(mem, i)}
<1>4. StructSearch(mem, fields) = UNION {Part(c) : c \in Chunks(Len(mem), ScanChunk)}
  BY <1>2 DEF StructSearch
\* Within what is read of a chunk, the fields are where they are in memory.
<1>5. ASSUME NEW ad \in Nat, NEW q \in Nat, ad + q <= M, NEW i \in Nat, i + z <= q
      PROVE  Here(Cut(mem, ad, q), i) <=> Here(mem, ad + i)
  <2>1. ASSUME NEW f \in 1 .. k
        PROVE  Cut(Cut(mem, ad, q), i + off(f), len(f)) = Cut(mem, ad + i + off(f), len(f))
    <3>1. PICK a \in Nat, l \in Nat : a = i + off(f) /\ l = len(f) /\ a + l <= q
      <4>1. off(f) \in Nat /\ len(f) \in Nat /\ off(f) + len(f) <= z
        BY <1>1, <1>2
      <4> HIDE DEF off, len
      <4>2. i + off(f) \in Nat /\ i + off(f) + len(f) <= q
        <5>1. i + z <= q
          BY <1>5
        <5>2. PICK u \in Nat, v \in Nat : u = off(f) /\ v = len(f) /\ u + v <= z
          BY <4>1
        <5>3. i + u \in Nat /\ i + u + v <= q
          <6>1. u + v <= z
            BY <5>2
          <6>2. \A i1, u1, v1, z1, q1 \in Nat : i1 + z1 <= q1 /\ u1 + v1 <= z1 => i1 + u1 \in Nat /\ i1 + u1 + v1 <= q1
            BY ONLY TRUE
          <6> QED BY <5>1, <6>1, <6>2
        <5> QED BY <5>2, <5>3
      <4> QED BY <4>1, <4>2
    <3>2. Cut(Cut(mem, ad, q), a, l) = Cut(mem, ad + a, l)
      <4>1. a + l <= q /\ ad + q <= Len(mem)
        BY <1>3, <1>5, <3>1
      <4> QED BY <4>1, CutCut
    <3>3. ad + a = ad + i + off(f)
      BY <1>1, <3>1
    <3> QED BY <3>1, <3>2, <3>3
  <2> HIDE DEF off, len
  <2> QED BY <2>1
<1>6. ASSUME NEW c \in Chunks(Len(mem), ScanChunk), NEW p \in Part(c) PROVE p \in places
  <2>1. PICK ad \in Nat, w \in Nat, q \in Nat : IsRead(mem, c, z, ad, w, q)
    BY ChunkRead
  <2>2. /\ ad = c * ScanChunk /\ q <= w /\ ad + w <= M /\ buf(c) = Cut(mem, ad, q) /\ Len(buf(c)) = q
    BY <1>3, <2>1 DEF IsRead
  <2> HIDE DEF buf, Here
  <2>3. PICK i \in 0 .. q - z : p = ad + i /\ Here(Cut(mem, ad, q), i)
    BY <2>2
  <2>4. i \in Nat /\ i + z <= q /\ ad + q <= M
    <3>1. q <= w /\ ad + w <= M
      BY <2>2
    <3>2. i \in 0 .. q - z
      BY <2>3
    <3> QED BY ONLY <3>1, <3>2, q \in Nat, w \in Nat, ad \in Nat, M \in Nat, z \in Nat
  <2>5. Here(mem, ad + i)
    BY <1>5, <2>3, <2>4
  <2>6. ad + i \in 0 .. M - z
    BY <2>4
  <2> QED BY <2>3, <2>5, <2>6
<1>7. ASSUME Readable(mem), NEW p \in places PROVE \E c \in Chunks(Len(mem), ScanChunk) : p \in Part(c)
  <2>1. p \in Nat /\ p + z <= M /\ p < M /\ Here(mem, p)
    BY <1>2
  <2>2. PICK c \in Chunks(M, ScanChunk) : c * ScanChunk <= p /\ p < c * ScanChunk + ScanChunk
    <3>1. ScanChunk \in Nat /\ ScanChunk > 0 /\ M \in Nat
      BY <1>1, MemAssumption
    <3> QED BY <2>1, <3>1, ChunkOf
  <2>3. PICK ad \in Nat, w \in Nat, q \in Nat : IsRead(mem, c, z, ad, w, q)
    BY <1>3, <2>2, ChunkRead
  <2>4. /\ ad = c * ScanChunk /\ ad + w <= M /\ buf(c) = Cut(mem, ad, w) /\ Len(buf(c)) = w
        /\ w = IF C + z <= M - ad THEN C + z ELSE M - ad
    BY <1>3, <1>7, <2>3 DEF IsRead
  <2>5. PICK i \in Nat : p = ad + i /\ i < C
    <3>1. ad <= p /\ p < ad + C
      BY <1>3, <2>2, <2>4
    <3>2. p - ad \in Nat /\ p = ad + (p - ad) /\ p - ad < C
      BY ONLY <3>1, p \in Nat, ad \in Nat, C \in Nat, <2>1
    <3> QED BY <3>2
  <2>6. i + z <= w
    <3>1. p + z <= M /\ p = ad + i /\ i < C /\ w = IF C + z <= M - ad THEN C + z ELSE M - ad
      BY <2>1, <2>4, <2>5
    <3> QED BY ONLY <3>1, p \in Nat, ad \in Nat, C \in Nat, M \in Nat, i \in Nat, z \in Nat, w \in Nat
  <2>7. Here(Cut(mem, ad, w), i)
    <3> HIDE DEF Here
    <3> QED BY <1>5, <2>1, <2>4, <2>5, <2>6
  <2> HIDE DEF buf, Here
  <2>8. p \in Part(c)
    <3>1. i \in 0 .. Len(buf(c)) - z /\ Here(buf(c), i) /\ p = c * ScanChunk + i
      <4>1. buf(c) = Cut(mem, ad, w) /\ Len(buf(c)) = w /\ ad = c * ScanChunk
        BY <2>4
      <4>2. i \in 0 .. w - z
        BY ONLY <2>6, i \in Nat, z \in Nat, w \in Nat
      <4> QED BY <2>5, <2>7, <4>1, <4>2
    <3> QED BY <3>1
  <2> QED BY <1>3, <2>2, <2>8
<1> HIDE DEF Part
<1>8. StructSearch(mem, fields) \subseteq places /\ (Readable(mem) => StructSearch(mem, fields) = places)
  <2> HIDE DEF places
  <2> QED BY <1>4, <1>6, <1>7
<1> QED BY <1>2, <1>3, <1>8 DEF StructFinds

\* A read of bytes none of which is a hole has them all.
LEMMA ReadWhole ==
    ASSUME NEW mem \in Seq(Int), NEW ad \in Nat, NEW n \in Nat, ad + n <= Len(mem),
           \A i \in 1 .. n : mem[ad + i] # Gap
    PROVE  ReadMemory(mem, ad, n) = Cut(mem, ad, n) /\ Len(Cut(mem, ad, n)) = n
<1>1. PICK k \in 0 .. n : ReadMemory(mem, ad, n) = Cut(mem, ad, k) /\ (k = n \/ mem[ad + k + 1] = Gap)
  BY ReadIs
<1>2. k # n => k + 1 \in 1 .. n /\ ad + (k + 1) = ad + k + 1
  OBVIOUS
<1>3. k = n
  BY <1>1, <1>2
<1> QED BY <1>1, <1>3, CutIs DEF IsCut

\* A chain of one offset: the base is dereferenced, the offset added.
LEMMA OneLink ==
    ASSUME NEW mem, NEW base, NEW off, NEW size, DerefPtr(mem, base, size) # Broken
    PROVE  ResolveChain(mem, base, <<off>>, size) = (DerefPtr(mem, base, size) + off) % Power(size)
<1> DEFINE d == DerefPtr(mem, base, size)
           offs == <<off>>
           Is(p) == p = [n \in 1 .. Len(offs) |->
                           IF n = 1 THEN d
                           ELSE IF p[n - 1] = Broken THEN Broken
                           ELSE DerefPtr(mem, (p[n - 1] + offs[n - 1]) % Power(size), size)]
<1>1. Len(offs) = 1 /\ offs # <<>> /\ offs[1] = off
  OBVIOUS
<1>2. \E p : Is(p)
  <2>1. [n \in 1 .. 1 |-> d] = [n \in 1 .. Len(offs) |->
           IF n = 1 THEN d
           ELSE IF [m \in 1 .. 1 |-> d][n - 1] = Broken THEN Broken
           ELSE DerefPtr(mem, ([m \in 1 .. 1 |-> d][n - 1] + offs[n - 1]) % Power(size), size)]
    <3>1. \A n \in 1 .. 1 : n = 1
      OBVIOUS
    <3> HIDE DEF d, offs
    <3> QED BY <1>1, <3>1
  <2> QED BY <2>1
<1>3. PICK p : p = CHOOSE x : Is(x)
  OBVIOUS
<1>4. Is(p)
  BY <1>2, <1>3
<1>5. ResolveChain(mem, base, offs, size) =
        IF offs = <<>> THEN base ELSE IF p[Len(offs)] = Broken THEN Broken ELSE (p[Len(offs)] + offs[Len(offs)]) % Power(size)
  BY <1>3 DEF ResolveChain
<1>6. p[1] = d
  <2> HIDE DEF d, offs
  <2> QED BY <1>1, <1>4
<1> HIDE DEF offs, d, Is
<1> QED BY <1>1, <1>5, <1>6 DEF offs, d

\* What a pointer scan reports is a word that is read again when the chain is
\* followed, and following it by its offset ends at the target, also where the
\* sum wraps around the width of a pointer (pointerScan, resolveChain).
THEOREM ChainsLeadToTarget ==
    ASSUME NEW mem \in Seq(Int), NEW target \in Nat, NEW maxOffset \in Nat, NEW size \in Nat, size > 0,
           target < Power(size)
    PROVE  ChainsLead(mem, target, maxOffset, size)
<1>1. PICK W \in Nat : W = Power(size) /\ target < W
  <2>1. Power(size) \in Nat
    BY PowerIs
  <2> QED BY <2>1
<1>2. PICK low \in Nat : low = Max({target - maxOffset, 0})
  <2>1. target - maxOffset \in Int
    OBVIOUS
  <2> QED BY <2>1, MaxOfTwo
<1>h. PICK high : high = (target + maxOffset) % W
  OBVIOUS
<1> DEFINE buf(k) == ReadMemory(mem, k * ScanChunk, Min({ScanChunk, Len(mem) - k * ScanChunk}))
           val(k, i) == Unsigned(Cut(buf(k), i * size, size), "little")
           Part(k) == {[source |-> k * ScanChunk + i * size, value |-> val(k, i)] :
                         i \in {i \in 0 .. Len(buf(k)) : /\ i * size + size <= Len(buf(k))
                                                         /\ val(k, i) \in low .. high /\ val(k, i) # 0}}
<1>3. PointerScan(mem, target, maxOffset, size) =
        {[base |-> hit.source, off |-> target - hit.value] :
            hit \in UNION {Part(k) : k \in Chunks(Len(mem), ScanChunk)}}
  <2>1. ScanForPointers(mem, low, high, size) = UNION {Part(k) : k \in Chunks(Len(mem), ScanChunk)}
    BY DEF ScanForPointers
  <2> HIDE DEF Part
  <2> QED BY <1>1, <1>2, <1>h, <2>1 DEF PointerScan
<1>4. ASSUME NEW k \in Chunks(Len(mem), ScanChunk), NEW hit \in Part(k)
      PROVE  hit.value \in Nat /\ DerefPtr(mem, hit.source, size) = hit.value
  <2>1. PICK i \in 0 .. Len(buf(k)) : /\ hit = [source |-> k * ScanChunk + i * size, value |-> val(k, i)]
                                      /\ i * size + size <= Len(buf(k)) /\ val(k, i) \in low .. high
    <3> HIDE DEF buf, val
    <3> QED BY <1>4
  <2>2. PICK ad \in Nat, w \in Nat, q \in Nat : IsRead(mem, k, 0, ad, w, q)
    BY ChunkRead
  <2>3. ScanChunk + 0 = ScanChunk
    BY MemAssumption
  <2>4. /\ ad = k * ScanChunk /\ ad + q <= Len(mem) /\ buf(k) = Cut(mem, ad, q) /\ Len(buf(k)) = q
        /\ \A j \in 1 .. q : mem[ad + j] # Gap
    <3>1. /\ q <= w /\ ad = k * ScanChunk /\ ad + w <= Len(mem) /\ Len(Cut(mem, ad, q)) = q
          /\ \A j \in 1 .. q : mem[ad + j] # Gap
      BY <2>2 DEF IsRead
    <3>2. buf(k) = Cut(mem, ad, q)
      BY <2>2, <2>3 DEF IsRead
    <3>3. ad + q <= Len(mem)
      <4>1. PICK M \in Nat : M = Len(mem)
        BY LenProperties
      <4>2. q <= w /\ ad + w <= M
        BY ONLY <3>1, <4>1
      <4>3. ad + q <= M
        BY ONLY <4>2, ad \in Nat, q \in Nat, w \in Nat, M \in Nat
      <4> QED BY ONLY <4>1, <4>3
    <3> HIDE DEF buf
    <3> QED BY <3>1, <3>2, <3>3
  <2>5. PICK n \in Nat : n = i * size /\ n + size <= q
    BY <2>1, <2>4
  <2>6. PICK v \in Nat : v = val(k, i) /\ hit.value = v /\ hit.source = ad + n
    <3>1. val(k, i) \in Nat
      BY <2>1
    <3> HIDE DEF val
    <3> QED BY <2>1, <2>4, <2>5, <3>1
  <2>a. n + size <= q /\ ad + q <= Len(mem) /\ buf(k) = Cut(mem, ad, q)
    BY <2>4, <2>5
  <2>7. Cut(buf(k), n, size) = Cut(mem, ad + n, size)
    <3> HIDE DEF buf
    <3>1. Cut(Cut(mem, ad, q), n, size) = Cut(mem, ad + n, size)
      <4>1. n + size <= q /\ ad + q <= Len(mem)
        BY <2>a
      <4> HIDE DEF val, Part
      <4> QED BY <4>1, CutCut
    <3> QED BY <2>a, <3>1
  <2>8. ad + n \in Nat /\ ad + n + size <= Len(mem)
    <3>0. n + size <= q
      BY ONLY <2>a
    <3>1. \A len \in Nat : ad + q <= len => ad + n + size <= len
      BY ONLY <3>0, ad \in Nat, q \in Nat, n \in Nat, size \in Nat
    <3> QED BY <2>a, <3>1
  <2>9. \A j \in 1 .. size : mem[ad + n + j] # Gap
    <3> SUFFICES ASSUME NEW j \in 1 .. size PROVE mem[ad + n + j] # Gap
      OBVIOUS
    <3>1. n + j \in 1 .. q /\ ad + (n + j) = ad + n + j
      BY ONLY <2>a, ad \in Nat, q \in Nat, n \in Nat, size \in Nat, j \in 1 .. size
    <3> QED BY <2>4, <3>1
  <2>10. ReadMemory(mem, ad + n, size) = Cut(mem, ad + n, size) /\ Len(Cut(mem, ad + n, size)) = size
    BY <2>8, <2>9, ReadWhole
  <2>11. DerefPtr(mem, ad + n, size) = Unsigned(Cut(mem, ad + n, size), "little")
    BY <2>10 DEF DerefPtr
  <2> QED BY <2>5, <2>6, <2>7, <2>11
<1> HIDE DEF Part
<1>5. ASSUME NEW c \in PointerScan(mem, target, maxOffset, size)
      PROVE  ResolveChain(mem, c.base, <<c.off>>, size) = target
  <2>0. PICK hit \in UNION {Part(k) : k \in Chunks(Len(mem), ScanChunk)} :
           c = [base |-> hit.source, off |-> target - hit.value]
    BY <1>3
  <2>1. PICK k \in Chunks(Len(mem), ScanChunk) : hit \in Part(k)
    OBVIOUS
  <2>2. PICK v \in Nat : v = hit.value /\ DerefPtr(mem, hit.source, size) = v
    BY <1>4, <2>1
  <2>3. c.base = hit.source /\ c.off = target - v
    BY <2>0, <2>2
  <2>4. v # Broken
    BY DEF Broken
  <2>5. ResolveChain(mem, c.base, <<c.off>>, size) = (v + c.off) % Power(size)
    BY <2>2, <2>3, <2>4, OneLink
  <2>6. v + c.off = target
    BY <2>3
  <2>7. target % W = target
    <3>1. target < W
      BY <1>1
    <3> QED BY ONLY <3>1, target \in Nat, W \in Nat
  <2> QED BY <1>1, <2>5, <2>6, <2>7
<1> QED BY <1>5 DEF ChainsLead

\* A set of numbers of 1 .. n that is not empty has a greatest one.
LEMMA MaxOfSet ==
    ASSUME NEW n \in Nat, NEW T, T \subseteq 1 .. n, T # {}
    PROVE  Max(T) \in T /\ \A y \in T : Max(T) >= y
<1> DEFINE S == {m \in Nat : m <= n => \/ \A y \in T : y <= n - m
                                       \/ \E x \in T : \A y \in T : x >= y}
<1>1. 0 \in S
  OBVIOUS
<1>2. ASSUME NEW m \in Nat, m \in S PROVE m + 1 \in S
  <2> SUFFICES ASSUME m + 1 <= n, ~\E x \in T : \A y \in T : x >= y
               PROVE  \A y \in T : y <= n - (m + 1)
    OBVIOUS
  <2>1. \A y \in T : y <= n - m
    BY <1>2
  <2>2. n - m \notin T
    BY <2>1
  <2> QED BY <2>1, <2>2
<1> HIDE DEF S
<1>3. n \in S
  BY <1>1, <1>2, SetInduction
<1>4. ~\A y \in T : y <= n - n
  <2>1. PICK y \in T : y \in 1 .. n
    OBVIOUS
  <2>2. ~(y <= n - n)
    BY <2>1
  <2> QED BY <2>2
<1>5. PICK x \in T : \A y \in T : x >= y
  BY <1>3, <1>4 DEF S
<1>6. T \subseteq Int
  OBVIOUS
<1> QED BY <1>5, <1>6, MaxIs

Match == [addr : Nat, prev : Seq(Int)]
InMemory(mem, matches, size) == \A k \in DOMAIN matches : matches[k].addr + size <= Len(mem)

\* What a match of a list is when it can be read again and passes.
Passes(mem, m, by) == /\ \A i \in 1 .. by.size : mem[m.addr + i] # Gap
                      /\ Keep(by, Cut(mem, m.addr, by.size), m.prev)
Renewed(mem, m, by) == [addr |-> m.addr, prev |-> Cut(mem, m.addr, by.size)]
LEMMA PassingIs ==
    ASSUME NEW mem, NEW by, NEW matches \in Seq(Match)
    PROVE  Passing(mem, matches, by) = {Renewed(mem, matches[k], by) :
                                          k \in {k \in 1 .. Len(matches) : Passes(mem, matches[k], by)}}
<1>1. DOMAIN matches = 1 .. Len(matches)
  OBVIOUS
<1> QED BY <1>1 DEF Passing, Passes, Renewed

\* Matches close together are read at once and each is judged by its own bytes.
LEMMA Flushed ==
    ASSUME NEW mem \in Seq(Int), NEW by, by.size \in Nat, NEW batch \in Seq(Match),
           Ascending(batch), InMemory(mem, batch, by.size)
    PROVE  /\ FlushPending(mem, batch, by) \subseteq Passing(mem, batch, by)
           /\ Readable(mem) => FlushPending(mem, batch, by) = Passing(mem, batch, by)
<1>1. PICK size \in Nat, K \in Nat : size = by.size /\ K = Len(batch)
  OBVIOUS
<1>2. ASSUME NEW k \in 1 .. K PROVE batch[k] \in Match /\ batch[k].addr \in Nat /\ batch[k].addr + size <= Len(mem)
  <2>1. batch[k] \in Match /\ k \in DOMAIN batch
    BY <1>1
  <2> QED BY <1>1, <2>1 DEF Match, InMemory
<1>3. ASSUME NEW i \in 1 .. K, NEW j \in 1 .. K, i <= j PROVE batch[i].addr <= batch[j].addr
  <2>1. CASE i = j
    BY <1>2, <2>1
  <2>2. CASE i < j
    <3>1. i \in DOMAIN batch /\ j \in DOMAIN batch
      BY <1>1
    <3> QED BY <2>2, <3>1 DEF Ascending
  <2> QED BY <1>3, <2>1, <2>2
<1> DEFINE Far(k, f) == batch[k].addr + size - batch[f].addr > BatchSize
           Is(f) == f = [k \in 1 .. K |-> IF k = 1 \/ Far(k, f[k - 1]) THEN k ELSE f[k - 1]]
           first == CHOOSE f : Is(f)
           last(k) == Max({j \in 1 .. K : first[j] = first[k]})
           from(k) == batch[first[k]].addr
           read(k) == ReadMemory(mem, from(k), batch[last(k)].addr + size - from(k))
           now(k)  == Cut(read(k), batch[k].addr - from(k), size)
<1>4. FlushPending(mem, batch, by) =
        {[addr |-> batch[k].addr, prev |-> now(k)] :
           k \in {k \in 1 .. K : /\ batch[k].addr - from(k) + size <= Len(read(k))
                                 /\ Keep(by, now(k), batch[k].prev)}}
  BY <1>1 DEF FlushPending
<1> HIDE DEF Far
<1>5. \E f : Is(f)
  <2> DEFINE G == [k \in 1 .. K |-> [x \in Nat |-> IF k = 1 \/ Far(k, x) THEN k ELSE x]]
  <2>0. G \in [1 .. K -> [Nat -> Nat]]
    <3>1. \A k \in 1 .. K : [x \in Nat |-> IF k = 1 \/ Far(k, x) THEN k ELSE x] \in [Nat -> Nat]
      <4>1. \A k \in 1 .. K : \A x \in Nat : (IF k = 1 \/ Far(k, x) THEN k ELSE x) \in Nat
        OBVIOUS
      <4> QED BY ONLY <4>1
    <3> QED BY ONLY <3>1
  <2>1. PICK F \in [1 .. K -> [Nat -> Nat]] : F = G
    BY <2>0
  <2>2. PICK g : IsRecursive(g, Nat, K, 0, F)
    BY Recursion
  <2>3. /\ \A k \in 0 .. K : g[k] \in Nat
        /\ \A k \in 1 .. K : g[k] = F[k][g[k - 1]]
    BY <2>2 DEF IsRecursive
  <2>4. ASSUME NEW k \in 1 .. K PROVE g[k] = IF k = 1 \/ Far(k, g[k - 1]) THEN k ELSE g[k - 1]
    <3>1. g[k - 1] \in Nat
      BY <2>3
    <3> QED BY <2>1, <2>3, <3>1
  <2> DEFINE f == [k \in 1 .. K |-> g[k]]
  <2>5. \A k \in 1 .. K : k # 1 => f[k - 1] = g[k - 1]
    OBVIOUS
  <2>6. \A k \in 1 .. K : f[k] = IF k = 1 \/ Far(k, f[k - 1]) THEN k ELSE f[k - 1]
    <3> SUFFICES ASSUME NEW k \in 1 .. K PROVE g[k] = IF k = 1 \/ Far(k, f[k - 1]) THEN k ELSE f[k - 1]
      OBVIOUS
    <3>1. CASE k = 1
      BY <2>4, <3>1
    <3>2. CASE k # 1
      <4> HIDE DEF f
      <4> QED BY <2>4, <2>5, <3>2
    <3> QED BY <3>1, <3>2
  <2>7. f = [k \in 1 .. K |-> IF k = 1 \/ Far(k, f[k - 1]) THEN k ELSE f[k - 1]]
    <3>1. f = [k \in 1 .. K |-> f[k]]
      OBVIOUS
    <3> HIDE DEF f
    <3> QED BY <2>6, <3>1
  <2> HIDE DEF f
  <2> QED BY <2>7
<1>6. Is(first)
  BY <1>5
<1> HIDE DEF first
\* A group begins before each of its matches.
<1>7. \A k \in 1 .. K : first[k] \in 1 .. k
  <2>1. \A k \in 1 .. K : first[k] = IF k = 1 \/ Far(k, first[k - 1]) THEN k ELSE first[k - 1]
    BY <1>6
  <2> DEFINE S == {n \in Nat : n + 1 <= K => first[n + 1] \in 1 .. n + 1}
  <2>2. 0 \in S
    BY <2>1
  <2>3. ASSUME NEW n \in Nat, n \in S PROVE n + 1 \in S
    <3> SUFFICES ASSUME n + 2 <= K PROVE first[n + 2] \in 1 .. n + 2
      OBVIOUS
    <3>1. first[n + 1] \in 1 .. n + 1
      BY <2>3
    <3>2. PICK k \in 1 .. K : k = n + 2 /\ k - 1 = n + 1
      OBVIOUS
    <3> QED BY <2>1, <3>1, <3>2
  <2> HIDE DEF S
  <2>4. \A n \in Nat : n \in S
    BY <2>2, <2>3, SetInduction
  <2>5. ASSUME NEW k \in 1 .. K PROVE first[k] \in 1 .. k
    <3>1. PICK n \in Nat : n + 1 = k
      <4>1. k - 1 \in Nat /\ (k - 1) + 1 = k
        OBVIOUS
      <4> QED BY <4>1
    <3>2. n \in S
      BY ONLY <2>4, n \in Nat
    <3>3. n + 1 <= K => first[n + 1] \in 1 .. n + 1
      BY ONLY <3>2 DEF S
    <3> QED BY ONLY <3>1, <3>3, k \in 1 .. K, K \in Nat
  <2> QED BY <2>5
<1>8. ASSUME NEW k \in 1 .. K
      PROVE  /\ Len(read(k)) \in Nat
             /\ batch[k].addr - from(k) + size <= Len(read(k)) =>
                   /\ now(k) = Cut(mem, batch[k].addr, size)
                   /\ \A i \in 1 .. size : mem[batch[k].addr + i] # Gap
             /\ Readable(mem) => batch[k].addr - from(k) + size <= Len(read(k))
  <2>1. first[k] \in 1 .. K /\ first[k] <= k
    BY <1>7
  <2>2. last(k) \in 1 .. K /\ last(k) >= k
    <3> DEFINE T == {j \in 1 .. K : first[j] = first[k]}
    <3>1. T \subseteq 1 .. K /\ T # {} /\ k \in T
      OBVIOUS
    <3> HIDE DEF T
    <3>2. Max(T) \in T /\ Max(T) >= k
      BY <3>1, MaxOfSet
    <3> QED BY <3>1, <3>2 DEF T
  <2> HIDE DEF last
  <2>3. PICK a \in Nat, b \in Nat, c \in Nat :
           /\ a = from(k) /\ b = batch[k].addr /\ c = batch[last(k)].addr
           /\ a <= b /\ b <= c /\ c + size <= Len(mem)
    BY <1>2, <1>3, <2>1, <2>2
  <2>4. PICK n \in Nat : n = c + size - a /\ a + n <= Len(mem)
    <3>1. a <= b /\ b <= c
      BY <2>3
    <3>2. c + size - a \in Nat /\ a + (c + size - a) = c + size
      BY ONLY <3>1, a \in Nat, b \in Nat, c \in Nat, size \in Nat
    <3> QED BY <2>3, <3>2
  <2>5. PICK q \in 0 .. n : /\ ReadMemory(mem, a, n) = Cut(mem, a, q)
                            /\ \A i \in 1 .. q : mem[a + i] # Gap
                            /\ q = n \/ mem[a + q + 1] = Gap
    <3>1. a + n <= Len(mem)
      BY ONLY <2>4
    <3>2. \E q \in 0 .. n : /\ ReadMemory(mem, a, n) = Cut(mem, a, q)
                            /\ \A i \in 1 .. q : mem[a + i] # Gap
                            /\ q = n \/ mem[a + q + 1] = Gap
      BY ONLY <3>1, mem \in Seq(Int), a \in Nat, n \in Nat, ReadIs
    <3> QED BY ONLY <3>2
  <2>6. read(k) = Cut(mem, a, q)
    BY <2>3, <2>4, <2>5
  <2>7. q \in Nat /\ a + q <= Len(mem)
    BY <2>4
  <2> HIDE DEF read, from
  <2>8. Len(read(k)) = q
    <3>1. Len(Cut(mem, a, q)) = q
      <4>1. IsCut(Cut(mem, a, q), mem, a, q)
        BY ONLY <2>7, mem \in Seq(Int), a \in Nat, CutIs
      <4> QED BY ONLY <4>1 DEF IsCut
    <3> QED BY <2>6, <3>1
  <2>9. ASSUME b - a + size <= q
        PROVE  now(k) = Cut(mem, b, size) /\ \A i \in 1 .. size : mem[b + i] # Gap
    <3>1. PICK d \in Nat : d = b - a /\ d + size <= q /\ a + d = b
      <4>1. a <= b /\ b - a + size <= q
        BY <2>3, <2>9
      <4>2. b - a \in Nat /\ a + (b - a) = b
        BY ONLY <4>1, a \in Nat, b \in Nat
      <4> QED BY <4>1, <4>2
    <3>2. Cut(Cut(mem, a, q), d, size) = Cut(mem, a + d, size)
      <4>1. d + size <= q
        BY <3>1
      <4> QED BY <2>7, <4>1, CutCut
    <3>3. now(k) = Cut(mem, b, size)
      BY <2>3, <2>6, <3>1, <3>2
    <3>4. ASSUME NEW i \in 1 .. size PROVE mem[b + i] # Gap
      <4>1. d + i \in 1 .. q /\ a + (d + i) = b + i
        BY <3>1
      <4> QED BY <2>5, <4>1
    <3> QED BY <3>3, <3>4
  <2>10. ASSUME Readable(mem) PROVE b - a + size <= q
    <3>1. q = n
      <4>1. q # n => a + q + 1 \in DOMAIN mem
        BY <2>4
      <4> QED BY <2>5, <2>10, <4>1 DEF Readable
    <3>2. n = c + size - a /\ b <= c
      BY <2>3, <2>4
    <3>3. b - a + size <= n
      BY ONLY <3>2, a \in Nat, b \in Nat, c \in Nat, size \in Nat, n \in Nat
    <3> QED BY <3>1, <3>3
  <2> HIDE DEF now
  <2> QED BY <2>3, <2>7, <2>8, <2>9, <2>10
<1> HIDE DEF now, read, from, last, Is
<1>9. Passing(mem, batch, by) = {[addr |-> batch[k].addr, prev |-> Cut(mem, batch[k].addr, size)] :
           k \in {k \in 1 .. K : /\ \A i \in 1 .. size : mem[batch[k].addr + i] # Gap
                                 /\ Keep(by, Cut(mem, batch[k].addr, size), batch[k].prev)}}
  <2>1. Passing(mem, batch, by) = {Renewed(mem, batch[k], by) : k \in {k \in 1 .. Len(batch) : Passes(mem, batch[k], by)}}
    BY PassingIs
  <2>2. ASSUME NEW k \in 1 .. K
        PROVE  /\ Renewed(mem, batch[k], by) = [addr |-> batch[k].addr, prev |-> Cut(mem, batch[k].addr, size)]
               /\ Passes(mem, batch[k], by) <=> /\ \A i \in 1 .. size : mem[batch[k].addr + i] # Gap
                                               /\ Keep(by, Cut(mem, batch[k].addr, size), batch[k].prev)
    BY <1>1 DEF Passes, Renewed
  <2>3. Passing(mem, batch, by) = {Renewed(mem, batch[k], by) : k \in {k \in 1 .. K : Passes(mem, batch[k], by)}}
    BY ONLY <1>1, <2>1
  <2> QED BY ONLY <2>2, <2>3
<1>10. FlushPending(mem, batch, by) \subseteq Passing(mem, batch, by)
  BY <1>4, <1>8, <1>9
<1>11. ASSUME Readable(mem) PROVE Passing(mem, batch, by) \subseteq FlushPending(mem, batch, by)
  BY <1>4, <1>8, <1>9, <1>11
<1> QED BY <1>10, <1>11

\* A list holds the same matches whether it is in memory or has moved to disk.
Store == [mem : Seq(Match), disk : Seq(Match), onDisk : BOOLEAN]
Holds(st, list) == \/ st.mem = list /\ st.disk = <<>> /\ st.onDisk = FALSE
                   \/ st.mem = <<>> /\ st.disk = list /\ st.onDisk = TRUE
LEMMA Added ==
    ASSUME NEW st \in Store, NEW m \in Match
    PROVE  /\ AddMatch(st, m) \in Store
           /\ \A list \in Seq(Match) : Holds(st, list) => Holds(AddMatch(st, m), Append(list, m))
<1>1. \A list \in Seq(Match) : Append(list, m) \in Seq(Match)
  BY AppendProperties
<1>2. <<>> \in Seq(Match)
  BY EmptySeq
<1>3. PICK a \in Seq(Match), d \in Seq(Match), o \in BOOLEAN : st = [mem |-> a, disk |-> d, onDisk |-> o]
  BY DEF Store
<1>4. CASE o
  <2>1. AddMatch(st, m) = [mem |-> a, disk |-> Append(d, m), onDisk |-> o]
    BY <1>3, <1>4 DEF AddMatch
  <2>2. AddMatch(st, m) \in Store
    BY <1>1, <2>1 DEF Store
  <2>3. ASSUME NEW list \in Seq(Match), Holds(st, list) PROVE Holds(AddMatch(st, m), Append(list, m))
    <3>1. a = <<>> /\ d = list
      BY <1>3, <1>4, <2>3 DEF Holds
    <3> QED BY <1>4, <2>1, <3>1 DEF Holds
  <2> QED BY <2>2, <2>3
<1>5. CASE ~o /\ Len(a) >= MemThreshold
  <2>1. AddMatch(st, m) = [mem |-> <<>>, disk |-> Append(a, m), onDisk |-> TRUE]
    BY <1>3, <1>5 DEF AddMatch, PromoteToDisk
  <2>2. AddMatch(st, m) \in Store
    BY <1>1, <1>2, <2>1 DEF Store
  <2>3. ASSUME NEW list \in Seq(Match), Holds(st, list) PROVE Holds(AddMatch(st, m), Append(list, m))
    <3>1. a = list
      BY <1>3, <1>5, <2>3 DEF Holds
    <3> QED BY <2>1, <3>1 DEF Holds
  <2> QED BY <2>2, <2>3
<1>6. CASE ~o /\ ~(Len(a) >= MemThreshold)
  <2>1. AddMatch(st, m) = [mem |-> Append(a, m), disk |-> d, onDisk |-> o]
    BY <1>3, <1>6 DEF AddMatch
  <2>2. AddMatch(st, m) \in Store
    BY <1>1, <2>1 DEF Store
  <2>3. ASSUME NEW list \in Seq(Match), Holds(st, list) PROVE Holds(AddMatch(st, m), Append(list, m))
    <3>1. a = list /\ d = <<>>
      BY <1>3, <1>6, <2>3 DEF Holds
    <3> QED BY <1>6, <2>1, <3>1 DEF Holds
  <2> QED BY <2>2, <2>3
<1> QED BY <1>4, <1>5, <1>6

LEMMA CutOneMore ==
    ASSUME NEW T, NEW s \in Seq(T), NEW n \in Nat, n + 1 <= Len(s)
    PROVE  Append(Cut(s, 0, n), s[n + 1]) = Cut(s, 0, n + 1)
<1>1. PICK u \in Seq(T) : u = Cut(s, 0, n) /\ IsCut(u, s, 0, n)
  BY CutIs
<1>2. PICK v \in Seq(T) : v = Cut(s, 0, n + 1) /\ IsCut(v, s, 0, n + 1)
  BY CutIs
<1>3. s[n + 1] \in T
  BY ElementOfSeq
<1>4. PICK w \in Seq(T) : /\ w = Append(u, s[n + 1]) /\ Len(w) = Len(u) + 1 /\ w[Len(u) + 1] = s[n + 1]
                          /\ \A i \in 1 .. Len(u) : w[i] = u[i]
  <2>1. PICK e \in T : e = s[n + 1]
    BY <1>3
  <2>2. /\ Append(u, e) \in Seq(T) /\ Len(Append(u, e)) = Len(u) + 1 /\ Append(u, e)[Len(u) + 1] = e
        /\ \A i \in 1 .. Len(u) : Append(u, e)[i] = u[i]
    BY AppendProperties
  <2> QED BY <2>1, <2>2
<1>5. Len(w) = n + 1 /\ w[n + 1] = s[n + 1] /\ \A i \in 1 .. n : w[i] = s[0 + i]
  BY <1>1, <1>4 DEF IsCut
<1>6. Len(v) = n + 1 /\ \A i \in 1 .. n + 1 : v[i] = s[0 + i]
  BY <1>2 DEF IsCut
<1>7. \A i \in 1 .. n + 1 : w[i] = v[i]
  <2>1. \A i \in 1 .. n + 1 : 0 + i = i /\ (i \in 1 .. n \/ i = n + 1)
    OBVIOUS
  <2> QED BY <1>5, <1>6, <2>1
<1>8. w = v
  BY <1>5, <1>6, <1>7, SameSeq
<1> QED BY <1>1, <1>2, <1>4, <1>8

LEMMA CutAll ==
    ASSUME NEW T, NEW s \in Seq(T)
    PROVE  Cut(s, 0, Len(s)) = s
<1>1. PICK m \in Nat : m = Len(s)
  OBVIOUS
<1>2. PICK v \in Seq(T) : v = Cut(s, 0, m) /\ IsCut(v, s, 0, m)
  BY <1>1, CutIs
<1>3. \A i \in 1 .. m : 0 + i = i
  OBVIOUS
<1>4. Len(v) = Len(s) /\ \A i \in 1 .. Len(v) : v[i] = s[i]
  BY <1>1, <1>2, <1>3 DEF IsCut
<1>5. v = s
  BY <1>4, SameSeq
<1> QED BY <1>1, <1>2, <1>5

LEMMA AllHeld ==
    ASSUME NEW matches \in Seq(Match)
    PROVE  AddBulk(matches) \in Store /\ Holds(AddBulk(matches), matches)
<1>1. PICK N \in Nat : N = Len(matches)
  OBVIOUS
<1>2. NewMatchStore \in Store /\ Holds(NewMatchStore, Cut(matches, 0, 0))
  <2>1. <<>> \in Seq(Match)
    BY EmptySeq
  <2>2. Cut(matches, 0, 0) \in Seq(Match) /\ Len(Cut(matches, 0, 0)) = 0
    BY CutIs DEF IsCut
  <2>3. Cut(matches, 0, 0) = <<>>
    BY <2>2, EmptySeq
  <2> QED BY <2>1, <2>3 DEF NewMatchStore, Store, Holds
<1> DEFINE Is(f) == f = [n \in 0 .. N |-> IF n = 0 THEN NewMatchStore ELSE AddMatch(f[n - 1], matches[n])]
           store == CHOOSE f : Is(f)
<1>3. AddBulk(matches) = store[N]
  BY <1>1 DEF AddBulk
<1>4. \A n \in 1 .. N : matches[n] \in Match
  BY <1>1, ElementOfSeq
<1>5. \E f : Is(f)
  <2> DEFINE G == [n \in 1 .. N |-> [s \in Store |-> AddMatch(s, matches[n])]]
  <2>0. G \in [1 .. N -> [Store -> Store]]
    <3>1. \A n \in 1 .. N : \A s \in Store : AddMatch(s, matches[n]) \in Store
      BY <1>4, Added
    <3> QED BY ONLY <3>1
  <2>1. PICK F \in [1 .. N -> [Store -> Store]] : F = G
    BY <2>0
  <2>2. PICK f : IsRecursive(f, Store, N, NewMatchStore, F)
    BY <1>2, Recursion
  <2>3. /\ f \in [0 .. N -> Store] /\ f[0] = NewMatchStore
        /\ \A k \in 1 .. N : f[k] = F[k][f[k - 1]]
    BY <2>2 DEF IsRecursive
  <2>4. ASSUME NEW n \in 0 .. N PROVE f[n] = IF n = 0 THEN NewMatchStore ELSE AddMatch(f[n - 1], matches[n])
    <3>1. CASE n = 0
      BY <2>3, <3>1
    <3>2. CASE n # 0
      <4>1. n \in 1 .. N /\ n - 1 \in 0 .. N
        BY <3>2
      <4>2. f[n - 1] \in Store
        BY <2>3, <4>1
      <4> QED BY <2>1, <2>3, <3>2, <4>1, <4>2
    <3> QED BY <3>1, <3>2
  <2>5. f = [n \in 0 .. N |-> f[n]]
    BY <2>3
  <2>6. Is(f)
    BY <2>4, <2>5
  <2> QED BY <2>6
<1>6. Is(store)
  BY <1>5
<1> HIDE DEF store
<1>7. \A n \in 0 .. N : store[n] = IF n = 0 THEN NewMatchStore ELSE AddMatch(store[n - 1], matches[n])
  BY <1>6
<1> DEFINE S == {n \in Nat : n <= N => store[n] \in Store /\ Holds(store[n], Cut(matches, 0, n))}
<1>8. 0 \in S
  BY <1>2, <1>7
<1>9. ASSUME NEW n \in Nat, n \in S PROVE n + 1 \in S
  <2> SUFFICES ASSUME n + 1 <= N PROVE store[n + 1] \in Store /\ Holds(store[n + 1], Cut(matches, 0, n + 1))
    OBVIOUS
  <2>1. store[n] \in Store /\ Holds(store[n], Cut(matches, 0, n))
    BY <1>9
  <2>2. store[n + 1] = AddMatch(store[n], matches[n + 1])
    <3>1. PICK k \in 0 .. N : k = n + 1 /\ k # 0 /\ k - 1 = n
      OBVIOUS
    <3> QED BY <1>7, <3>1
  <2>3. matches[n + 1] \in Match
    BY <1>4
  <2>4. Cut(matches, 0, n) \in Seq(Match)
    BY <1>1, CutIs
  <2>5. Append(Cut(matches, 0, n), matches[n + 1]) = Cut(matches, 0, n + 1)
    BY <1>1, CutOneMore
  <2> QED BY <2>1, <2>2, <2>3, <2>4, <2>5, Added
<1> HIDE DEF S
<1>10. N \in S
  BY <1>8, <1>9, SetInduction
<1>11. Cut(matches, 0, N) = matches
  BY <1>1, CutAll
<1> QED BY <1>3, <1>10, <1>11 DEF S

\* Batch k is the part of the list that begins at k batches.
LEMMA BatchIs ==
    ASSUME NEW matches \in Seq(Match), NEW st \in Store, Holds(st, matches), NEW N \in Nat,
           N = ChunkCount(Len(matches), IterBatch)
    PROVE  /\ DOMAIN ForEachBatch(st) = 1 .. N
           /\ \A k \in 1 .. N : \E ad \in Nat, n \in Nat :
                /\ ad = (k - 1) * IterBatch /\ ad + n <= Len(matches)
                /\ n = IterBatch \/ ad + n = Len(matches)
                /\ ForEachBatch(st)[k] = Cut(matches, ad, n)
<1>1. PICK I \in Nat, M \in Nat : I = IterBatch /\ I > 0 /\ M = Len(matches)
  BY MemAssumption
<1>2. Count(st) = M
  <2>1. Len(<<>>) = 0
    BY EmptySeq
  <2>2. CASE st.mem = matches /\ st.disk = <<>>
    BY <1>1, <2>1, <2>2 DEF Count
  <2>3. CASE st.mem = <<>> /\ st.disk = matches
    BY <1>1, <2>1, <2>3 DEF Count
  <2> QED BY <2>2, <2>3 DEF Holds
<1>3. \A k \in 0 .. N - 1 : k * I \in Nat /\ k * I < M
  BY <1>1, ChunksAre
<1>4. ForEachBatch(st) = [k \in 1 .. N |-> GetBatch(st, (k - 1) * I, I)]
  BY <1>1, <1>2 DEF ForEachBatch
<1>5. ASSUME NEW k \in 1 .. N
      PROVE  \E ad \in Nat, n \in Nat : /\ ad = (k - 1) * I /\ ad + n <= M /\ (n = I \/ ad + n = M)
                                        /\ GetBatch(st, (k - 1) * I, I) = Cut(matches, ad, n)
  <2>1. PICK ad \in Nat : ad = (k - 1) * I /\ ad < M
    <3>1. k - 1 \in 0 .. N - 1
      OBVIOUS
    <3> QED BY <1>3, <3>1
  <2>2. PICK n \in Nat : n = (IF I <= M - ad THEN I ELSE M - ad) /\ ad + n <= M /\ (n = I \/ ad + n = M)
    <3>1. CASE I <= M - ad
      BY <3>1
    <3>2. CASE ~(I <= M - ad)
      <4>1. M - ad \in Nat /\ ad + (M - ad) = M
        BY <2>1
      <4> QED BY <3>2, <4>1
    <3> QED BY <3>1, <3>2
  <2>3. Min({I, Count(st) - ad}) = n
    BY <1>2, <2>2, MinOfTwo
  <2>4. (IF st.onDisk THEN st.disk ELSE st.mem) = matches
    BY DEF Holds
  <2>5. GetBatch(st, ad, I) = Cut(matches, ad, n)
    BY <1>2, <2>1, <2>3, <2>4 DEF GetBatch
  <2> QED BY <2>1, <2>2, <2>5
<1>6. DOMAIN ForEachBatch(st) = 1 .. N /\ \A k \in 1 .. N : ForEachBatch(st)[k] = GetBatch(st, (k - 1) * I, I)
  BY <1>4
<1> QED BY <1>1, <1>5, <1>6

\* What passes in a part of the list passes in the list.
LEMMA PartPasses ==
    ASSUME NEW mem, NEW by, by.size \in Nat, NEW matches \in Seq(Match), NEW ad \in Nat, NEW n \in Nat,
           ad + n <= Len(matches), Ascending(matches), InMemory(mem, matches, by.size)
    PROVE  LET hits == Cut(matches, ad, n)
           IN /\ hits \in Seq(Match) /\ Ascending(hits) /\ InMemory(mem, hits, by.size)
              /\ Passing(mem, hits, by) =
                   {Renewed(mem, matches[j], by) : j \in {j \in ad + 1 .. ad + n : Passes(mem, matches[j], by)}}
<1>1. PICK p \in Seq(Match) : p = Cut(matches, ad, n) /\ IsCut(p, matches, ad, n)
  BY CutIs
<1>2. Len(p) = n /\ DOMAIN p = 1 .. n /\ \A i \in 1 .. n : p[i] = matches[ad + i]
  BY <1>1 DEF IsCut
<1>3. \A i \in 1 .. n : ad + i \in DOMAIN matches /\ ad + i \in ad + 1 .. ad + n
  OBVIOUS
<1>4. Ascending(p)
  <2> SUFFICES ASSUME NEW i \in 1 .. n, NEW j \in 1 .. n, i < j PROVE p[i].addr <= p[j].addr
    BY <1>2 DEF Ascending
  <2>1. ad + i \in DOMAIN matches /\ ad + j \in DOMAIN matches /\ ad + i < ad + j
    BY <1>3
  <2>2. matches[ad + i].addr <= matches[ad + j].addr
    BY <2>1 DEF Ascending
  <2> QED BY <1>2, <2>2
<1>5. InMemory(mem, p, by.size)
  <2> SUFFICES ASSUME NEW i \in 1 .. n PROVE p[i].addr + by.size <= Len(mem)
    BY <1>2 DEF InMemory
  <2> QED BY <1>2, <1>3 DEF InMemory
<1>6. Passing(mem, p, by) = {Renewed(mem, p[k], by) : k \in {k \in 1 .. n : Passes(mem, p[k], by)}}
  <2>1. Passing(mem, p, by) = {Renewed(mem, p[k], by) : k \in {k \in 1 .. Len(p) : Passes(mem, p[k], by)}}
    BY PassingIs
  <2> QED BY <1>2, <2>1
<1> DEFINE All == {Renewed(mem, matches[j], by) : j \in {j \in ad + 1 .. ad + n : Passes(mem, matches[j], by)}}
<1>7. Passing(mem, p, by) \subseteq All
  BY <1>2, <1>3, <1>6
<1>8. All \subseteq Passing(mem, p, by)
  <2> SUFFICES ASSUME NEW j \in ad + 1 .. ad + n, Passes(mem, matches[j], by)
               PROVE  Renewed(mem, matches[j], by) \in Passing(mem, p, by)
    OBVIOUS
  <2>1. PICK i \in 1 .. n : ad + i = j
    <3>1. j - ad \in 1 .. n /\ ad + (j - ad) = j
      OBVIOUS
    <3> QED BY <3>1
  <2>2. p[i] = matches[j]
    BY <1>2, <2>1
  <2> QED BY <1>6, <2>2
<1> HIDE DEF All
<1>9. Passing(mem, p, by) = All
  BY <1>7, <1>8
<1> QED BY <1>1, <1>4, <1>5, <1>9 DEF All

\* A filter over a list of matches, of any length, in memory or on disk, keeps
\* the ones whose value now passes, though matches close together are read with
\* one call and the list is read in batches; where a read fails matches are only
\* lost (filterMatches and its flushPending).
THEOREM ListsAreFiltered ==
    ASSUME NEW mem \in Seq(Int), NEW by, by.size \in Nat, NEW matches \in Seq(Match),
           Ascending(matches), InMemory(mem, matches, by.size)
    PROVE  ListFiltered(mem, matches, by)
<1>1. PICK I \in Nat, M \in Nat : I = IterBatch /\ I > 0 /\ M = Len(matches)
  BY MemAssumption
<1>2. PICK N \in Nat : N = ChunkCount(M, I)
  BY <1>1, ChunksAre
<1>3. PICK st \in Store : st = AddBulk(matches) /\ Holds(st, matches)
  BY AllHeld
<1> DEFINE B(k) == ForEachBatch(st)[k]
           P(k) == FlushPending(mem, B(k), by)
           All == Passing(mem, matches, by)
<1>4. DOMAIN ForEachBatch(st) = 1 .. N
  BY <1>1, <1>2, <1>3, BatchIs
<1>5. FilterMatches(mem, st, by) = UNION {P(k) : k \in 1 .. N}
  BY <1>4 DEF FilterMatches
<1>6. ASSUME NEW k \in 1 .. N
      PROVE  \E ad \in Nat, n \in Nat : /\ ad = (k - 1) * I /\ ad + n <= M /\ (n = I \/ ad + n = M)
                                        /\ B(k) = Cut(matches, ad, n)
  BY <1>1, <1>2, <1>3, BatchIs
<1> HIDE DEF B
<1>7. All = {Renewed(mem, matches[j], by) : j \in {j \in 1 .. M : Passes(mem, matches[j], by)}}
  BY <1>1, PassingIs
<1> HIDE DEF All
<1>8. ASSUME NEW k \in 1 .. N
      PROVE  \E ad \in Nat, n \in Nat :
               /\ ad = (k - 1) * I /\ ad + n <= M /\ (n = I \/ ad + n = M)
               /\ P(k) \subseteq All
               /\ Readable(mem) => \A j \in ad + 1 .. ad + n :
                     Passes(mem, matches[j], by) => Renewed(mem, matches[j], by) \in P(k)
  <2>1. PICK ad \in Nat, n \in Nat : /\ ad = (k - 1) * I /\ ad + n <= M /\ (n = I \/ ad + n = M)
                                     /\ B(k) = Cut(matches, ad, n)
    BY <1>6
  <2>2. /\ B(k) \in Seq(Match) /\ Ascending(B(k)) /\ InMemory(mem, B(k), by.size)
        /\ Passing(mem, B(k), by) =
             {Renewed(mem, matches[j], by) : j \in {j \in ad + 1 .. ad + n : Passes(mem, matches[j], by)}}
    <3>1. ad + n <= Len(matches)
      BY <1>1, <2>1
    <3>2. LET hits == Cut(matches, ad, n)
          IN /\ hits \in Seq(Match) /\ Ascending(hits) /\ InMemory(mem, hits, by.size)
             /\ Passing(mem, hits, by) =
                  {Renewed(mem, matches[j], by) : j \in {j \in ad + 1 .. ad + n : Passes(mem, matches[j], by)}}
      BY <3>1, PartPasses
    <3> QED BY <2>1, <3>2
  <2>3. /\ P(k) \subseteq Passing(mem, B(k), by)
        /\ Readable(mem) => P(k) = Passing(mem, B(k), by)
    BY <2>2, Flushed
  <2>4. ad + 1 .. ad + n \subseteq 1 .. M
    BY <2>1
  <2> HIDE DEF P
  <2>5. P(k) \subseteq All
    BY <1>7, <2>2, <2>3, <2>4
  <2>6. Readable(mem) => \A j \in ad + 1 .. ad + n :
                     Passes(mem, matches[j], by) => Renewed(mem, matches[j], by) \in P(k)
    BY <2>2, <2>3
  <2> QED BY <2>1, <2>5, <2>6
<1> HIDE DEF P
<1>9. FilterMatches(mem, st, by) \subseteq All
  BY <1>5, <1>8
<1>10. ASSUME Readable(mem) PROVE All \subseteq FilterMatches(mem, st, by)
  <2> SUFFICES ASSUME NEW j \in 1 .. M, Passes(mem, matches[j], by)
               PROVE  \E k \in 1 .. N : Renewed(mem, matches[j], by) \in P(k)
    BY <1>5, <1>7
  <2>1. PICK c \in Chunks(M, I) : c * I <= j - 1 /\ j - 1 < c * I + I
    <3>1. PICK p \in Nat : p = j - 1 /\ p < M
      OBVIOUS
    <3> QED BY <1>1, <3>1, ChunkOf
  <2>2. PICK k \in 1 .. N : k - 1 = c
    <3>1. c + 1 \in 1 .. N /\ (c + 1) - 1 = c
      BY <1>2, <2>1 DEF Chunks
    <3> QED BY <3>1
  <2>3. PICK ad \in Nat, n \in Nat :
               /\ ad = (k - 1) * I /\ ad + n <= M /\ (n = I \/ ad + n = M)
               /\ \A i \in ad + 1 .. ad + n :
                     Passes(mem, matches[i], by) => Renewed(mem, matches[i], by) \in P(k)
    BY <1>8, <1>10
  <2>4. ad <= j - 1 /\ j - 1 < ad + I
    BY <2>1, <2>2, <2>3
  <2>5. j \in ad + 1 .. ad + n
    <3>1. n = I \/ ad + n = M
      BY <2>3
    <3> QED BY ONLY <2>4, <3>1, ad \in Nat, n \in Nat, I \in Nat, M \in Nat, j \in 1 .. M
  <2> QED BY <2>3, <2>5
<1>11. FilterMatches(mem, st, by) = FilterMatches(mem, AddBulk(matches), by)
  BY <1>3
<1> QED BY <1>9, <1>10, <1>11 DEF ListFiltered, All

\* A snapshot of memory that can be read is cut into pieces that lie side by
\* side.
IsPiece(snap, old, k, ad, w) ==
    /\ ad = (k - 1) * ScanChunk /\ ad + w <= Len(old) /\ w > 0 /\ w <= ScanChunk
    /\ w = ScanChunk \/ ad + w = Len(old)
    /\ snap[k] = [addr |-> ad, data |-> Cut(old, ad, w)]
LEMMA PiecesAre ==
    ASSUME NEW old \in Seq(Int), Readable(old), NEW N \in Nat, N = ChunkCount(Len(old), ScanChunk)
    PROVE  /\ DOMAIN TakeSnapshot(old) = 1 .. N
           /\ \A k \in 1 .. N : \E ad \in Nat, w \in Nat : IsPiece(TakeSnapshot(old), old, k, ad, w)
<1>1. PICK C \in Nat, M \in Nat : C = ScanChunk /\ C > 0 /\ M = Len(old)
  BY MemAssumption
<1>2. \A k \in 0 .. N - 1 : k * C \in Nat /\ k * C < M
  BY <1>1, ChunksAre
<1> DEFINE Piece(k) == LET ad   == (k - 1) * ScanChunk
                           want == Min({ScanChunk, Len(old) - ad})
                           data == ReadMemory(old, ad, want)
                       IN [addr |-> ad, data |-> IF data = <<>> THEN [i \in 1 .. want |-> 0] ELSE data]
<1>3. TakeSnapshot(old) = [k \in 1 .. N |-> Piece(k)]
  BY DEF TakeSnapshot
<1>4. ASSUME NEW k \in 1 .. N
      PROVE  \E ad \in Nat, w \in Nat : /\ ad = (k - 1) * C /\ ad + w <= M /\ w > 0 /\ w <= C
                                        /\ w = C \/ ad + w = M
                                        /\ Piece(k) = [addr |-> ad, data |-> Cut(old, ad, w)]
  <2>1. PICK ad \in Nat : ad = (k - 1) * C /\ ad < M
    <3>1. k - 1 \in 0 .. N - 1
      OBVIOUS
    <3> QED BY <1>2, <3>1
  <2>2. PICK w \in Nat : /\ w = IF C <= M - ad THEN C ELSE M - ad
                         /\ ad + w <= M /\ w > 0 /\ w <= C /\ (w = C \/ ad + w = M)
    <3>1. CASE C <= M - ad
      BY <1>1, <3>1
    <3>2. CASE ~(C <= M - ad)
      <4>1. M - ad \in Nat /\ M - ad > 0 /\ ad + (M - ad) = M
        BY <2>1
      <4> QED BY <3>2, <4>1
    <3> QED BY <3>1, <3>2
  <2>3. Min({ScanChunk, Len(old) - ad}) = w
    BY <1>1, <2>2, MinOfTwo
  <2>4. ReadMemory(old, ad, w) = Cut(old, ad, w) /\ Cut(old, ad, w) # <<>>
    <3>1. ad + w <= Len(old)
      BY <1>1, <2>2
    <3>2. ReadMemory(old, ad, w) = Cut(old, ad, w)
      BY <3>1, ReadAll
    <3>3. Cut(old, ad, w) \in Seq(Int) /\ Len(Cut(old, ad, w)) = w
      BY <3>1, CutIs DEF IsCut
    <3>4. Cut(old, ad, w) # <<>>
      BY <2>2, <3>3, EmptySeq
    <3> QED BY <3>2, <3>4
  <2>5. Piece(k) = [addr |-> ad, data |-> Cut(old, ad, w)]
    BY <1>1, <2>1, <2>3, <2>4
  <2> HIDE DEF Piece
  <2> QED BY <2>1, <2>2, <2>5
<1> HIDE DEF Piece
<1>5. DOMAIN TakeSnapshot(old) = 1 .. N /\ \A k \in 1 .. N : TakeSnapshot(old)[k] = Piece(k)
  BY <1>3
<1> QED BY <1>1, <1>4, <1>5 DEF IsPiece

\* The first piece that ends after an address is the one that holds it.
PieceOf(old, k, ad, w) ==
    /\ old \in Seq(Int) /\ Readable(old) /\ k \in 1 .. ChunkCount(Len(old), ScanChunk)
    /\ ad \in Nat /\ w \in Nat /\ IsPiece(TakeSnapshot(old), old, k, ad, w)
Within(off, n, w) == off \in Nat /\ n \in Nat /\ n > 0 /\ off + n <= w
LEMMA PieceRead ==
    ASSUME NEW old \in Seq(Int), NEW k \in Nat, NEW ad \in Nat, NEW w \in Nat, PieceOf(old, k, ad, w),
           NEW off \in Nat, NEW n \in Nat, Within(off, n, w)
    PROVE  SnapshotReadAt(TakeSnapshot(old), ad + off, n) = Cut(old, ad + off, n)
<1>0. PICK N \in Nat : N = ChunkCount(Len(old), ScanChunk) /\ k \in 1 .. N
  <2>1. ScanChunk \in Nat /\ ScanChunk > 0 /\ Len(old) \in Nat
    BY MemAssumption
  <2>2. ChunkCount(Len(old), ScanChunk) \in Nat
    BY <2>1, ChunksAre
  <2> QED BY <2>2 DEF PieceOf
<1>a. Readable(old) /\ IsPiece(TakeSnapshot(old), old, k, ad, w)
  BY DEF PieceOf
<1>b. n > 0 /\ off + n <= w
  BY DEF Within
<1>1. PICK C \in Nat, M \in Nat : C = ScanChunk /\ C > 0 /\ M = Len(old)
  BY MemAssumption
<1>2. PICK snap : snap = TakeSnapshot(old)
  OBVIOUS
<1>3. DOMAIN snap = 1 .. N /\ \A j \in 1 .. N : \E a \in Nat, v \in Nat : IsPiece(snap, old, j, a, v)
  BY <1>0, <1>2, <1>a, PiecesAre
<1> DEFINE Ends(j) == snap[j].addr + Len(snap[j].data)
           later == {j \in DOMAIN snap : Ends(j) > ad + off}
<1>4. ASSUME NEW j \in 1 .. N
      PROVE  \E a \in Nat, v \in Nat : /\ IsPiece(snap, old, j, a, v) /\ Ends(j) = a + v
                                       /\ Len(snap[j].data) = v
  <2>1. PICK a \in Nat, v \in Nat : IsPiece(snap, old, j, a, v)
    BY <1>3
  <2>2. snap[j].addr = a /\ snap[j].data = Cut(old, a, v) /\ a + v <= Len(old)
    BY <2>1 DEF IsPiece
  <2>3. Len(Cut(old, a, v)) = v
    BY <2>2, CutIs DEF IsCut
  <2> QED BY <2>1, <2>2, <2>3
<1>5. snap[k].addr = ad /\ snap[k].data = Cut(old, ad, w) /\ ad = (k - 1) * C /\ ad + w <= M
  BY <1>1, <1>2, <1>a DEF IsPiece
<1>6. Len(Cut(old, ad, w)) = w /\ Ends(k) = ad + w
  <2>1. ad + w <= Len(old)
    BY <1>1, <1>5
  <2>2. IsCut(Cut(old, ad, w), old, ad, w)
    BY ONLY <2>1, CutIs, old \in Seq(Int), ad \in Nat, w \in Nat
  <2>3. Len(Cut(old, ad, w)) = w
    BY ONLY <2>2 DEF IsCut
  <2> QED BY <1>5, <2>3
<1>7. k \in later
  BY <1>0, <1>3, <1>6, <1>b
<1>8. ASSUME NEW j \in later PROVE j >= k
  <2> SUFFICES ASSUME j < k PROVE FALSE
    BY <1>0, <1>3
  <2>1. j \in 1 .. N /\ Ends(j) > ad + off
    BY <1>3
  <2>2. PICK a \in Nat, v \in Nat : IsPiece(snap, old, j, a, v) /\ Ends(j) = a + v
    BY <1>4, <2>1
  <2>3. a = (j - 1) * C /\ v <= C
    BY <1>1, <2>2 DEF IsPiece
  <2>4. (j - 1) * C + C <= (k - 1) * C
    <3>1. \A x \in Nat, y \in Nat : x < y => x * C + C <= y * C
      BY <1>1
    <3>2. PICK x \in Nat, y \in Nat : x = j - 1 /\ y = k - 1 /\ x < y
      BY <1>0, <2>1
    <3> QED BY <3>1, <3>2
  <2>5. a + v <= ad
    BY <1>5, <2>3, <2>4
  <2> HIDE DEF Ends
  <2> QED BY <2>1, <2>2, <2>5
<1> HIDE DEF later, Ends
<1>9. later \subseteq Int
  BY <1>3 DEF later
<1>10. Min(later) = k
  BY <1>7, <1>8, <1>9, MinIs
<1>11. SnapshotReadAt(snap, ad + off, n) = Cut(snap[k].data, off, Min({n, w - off}))
  <2>1. (ad + off) - ad = off /\ ~(ad + off < ad)
    OBVIOUS
  <2>2. later # {} /\ later = {j \in DOMAIN snap : snap[j].addr + Len(snap[j].data) > ad + off}
    BY <1>7 DEF later, Ends
  <2> QED BY <1>5, <1>6, <1>10, <2>1, <2>2 DEF SnapshotReadAt
<1>12. Min({n, w - off}) = n
  BY <1>b, MinOfTwo
<1>13. Cut(Cut(old, ad, w), off, n) = Cut(old, ad + off, n)
  <2>1. ad + w <= Len(old) /\ off + n <= w
    BY <1>1, <1>5, <1>b
  <2> QED BY <2>1, CutCut
<1> QED BY <1>2, <1>5, <1>11, <1>12, <1>13

\* A read is as long as the memory can be read.
ReadTo(mem, ad, n, q) == /\ q \in Nat /\ q <= n /\ ReadMemory(mem, ad, n) = Cut(mem, ad, q)
                         /\ \A i \in 1 .. q : mem[ad + i] # Gap
                         /\ q = n \/ mem[ad + q + 1] = Gap
LEMMA ReadsTo ==
    ASSUME NEW mem \in Seq(Int), NEW ad, NEW n, Within(ad, n, Len(mem))
    PROVE  \E q : ReadTo(mem, ad, n, q)
<1>1. ad \in Nat /\ n \in Nat /\ ad + n <= Len(mem)
  BY DEF Within
<1>2. PICK q \in 0 .. n : /\ ReadMemory(mem, ad, n) = Cut(mem, ad, q)
                          /\ \A i \in 1 .. q : mem[ad + i] # Gap
                          /\ q = n \/ mem[ad + q + 1] = Gap
  BY <1>1, ReadIs
<1>3. q \in Nat /\ q <= n
  BY <1>1
<1> QED BY <1>2, <1>3 DEF ReadTo

\* Part c of piece k compares the words that begin at b and at whole words
\* after it, as far as the memory can be read.
IsPart(mem, old, by, hits, b, n, q) ==
    /\ b + n <= Len(old) /\ q <= n
    /\ \A i \in 1 .. q : mem[b + i] # Gap
    /\ q = n \/ mem[b + q + 1] = Gap
    /\ hits = {[addr |-> b + i * by.size, prev |-> Cut(mem, b + i * by.size, by.size)] :
                  i \in {i \in 0 .. n : /\ i * by.size + by.size <= q
                                        /\ Keep(by, Cut(mem, b + i * by.size, by.size),
                                                    Cut(old, b + i * by.size, by.size))}}
LEMMA PartCompared ==
    ASSUME NEW old \in Seq(Int), NEW mem \in Seq(Int), Len(mem) = Len(old),
           NEW by, by.size \in Nat, NEW k \in Nat, NEW ad \in Nat, NEW w \in Nat, PieceOf(old, k, ad, w),
           NEW c \in Chunks(w, CompareChunk)
    PROVE  \E b \in Nat, n \in Nat, q \in Nat :
              /\ b = ad + c * CompareChunk /\ b + n <= ad + w /\ (n = CompareChunk \/ b + n = ad + w)
              /\ IsPart(mem, old, by, ComparePart(mem, TakeSnapshot(old), k, c, by), b, n, q)
<1>1. PICK C \in Nat, M \in Nat, size \in Nat : C = CompareChunk /\ C > 0 /\ M = Len(old) /\ size = by.size
  BY MemAssumption
<1>2. PICK snap : snap = TakeSnapshot(old)
  OBVIOUS
<1>3. snap[k].addr = ad /\ snap[k].data = Cut(old, ad, w) /\ ad + w <= M
  <2>1. IsPiece(snap, old, k, ad, w)
    BY <1>2 DEF PieceOf
  <2> QED BY ONLY <1>1, <2>1 DEF IsPiece
<1>4. Len(snap[k].data) = w
  <2>1. ad + w <= Len(old)
    BY ONLY <1>1, <1>3
  <2>2. IsCut(Cut(old, ad, w), old, ad, w)
    BY ONLY <2>1, CutIs, old \in Seq(Int), ad \in Nat, w \in Nat
  <2>3. Len(Cut(old, ad, w)) = w
    BY ONLY <2>2 DEF IsCut
  <2> QED BY ONLY <1>3, <2>3
<1>5. PICK off \in Nat : off = c * C /\ off < w
  BY <1>1, ChunksAre DEF Chunks
<1>6. PICK n \in Nat : /\ n = IF C <= w - off THEN C ELSE w - off
                       /\ off + n <= w /\ n > 0 /\ (n = C \/ off + n = w)
  <2>1. CASE C <= w - off
    BY <1>1, <2>1
  <2>2. CASE ~(C <= w - off)
    <3>1. w - off \in Nat /\ w - off > 0 /\ off + (w - off) = w
      BY <1>5
    <3> QED BY <2>2, <3>1
  <2> QED BY <2>1, <2>2
<1>7. Min({CompareChunk, Len(snap[k].data) - off}) = n
  BY <1>1, <1>4, <1>6, MinOfTwo
<1>8. PICK b \in Nat : b = ad + off /\ b + n <= M /\ b + n <= ad + w /\ (n = C \/ b + n = ad + w)
  <2>1. (ad + off) + n = ad + (off + n) /\ ad + (off + n) <= ad + w /\ ad + off \in Nat
    BY <1>6
  <2>2. n = C \/ ad + (off + n) = ad + w
    BY <1>6
  <2>3. (ad + off) + n <= M
    BY ONLY <1>3, <2>1, ad \in Nat, off \in Nat, n \in Nat, w \in Nat, M \in Nat
  <2> QED BY <2>1, <2>2, <2>3
<1>9. SnapshotReadAt(snap, b, n) = Cut(old, b, n)
  <2>1. SnapshotReadAt(TakeSnapshot(old), ad + off, n) = Cut(old, ad + off, n)
    <3>1. Within(off, n, w)
      BY <1>6 DEF Within
    <3> QED BY <3>1, PieceRead
  <2> QED BY ONLY <1>2, <1>8, <2>1
<1>10. PICK q : ReadTo(mem, b, n, q)
  <2>1. M = Len(mem) /\ b + n <= M
    BY ONLY <1>1, <1>8, Len(mem) = Len(old)
  <2>2. Within(b, n, Len(mem))
    BY ONLY <1>6, <2>1, b \in Nat, n \in Nat DEF Within
  <2> QED BY <2>2, ReadsTo
<1>a. /\ q \in Nat /\ q <= n /\ ReadMemory(mem, b, n) = Cut(mem, b, q)
      /\ \A i \in 1 .. q : mem[b + i] # Gap
      /\ q = n \/ mem[b + q + 1] = Gap
  BY <1>10 DEF ReadTo
<1> DEFINE o == Cut(old, b, n)
           m == Cut(mem, b, q)
<1>11. ComparePart(mem, snap, k, c, by) =
         {[addr |-> b + i * size, prev |-> Cut(m, i * size, size)] :
            i \in {i \in 0 .. n : /\ i * size + size <= Min({Len(o), Len(m)})
                                  /\ Keep(by, Cut(m, i * size, size), Cut(o, i * size, size))}}
  <2>1. c * CompareChunk = off
    BY <1>1, <1>5
  <2> QED BY <1>1, <1>3, <1>7, <1>8, <1>9, <1>a, <2>1 DEF ComparePart
<1>12. q \in Nat /\ q <= n /\ b + q <= Len(mem) /\ b + n <= Len(old)
  <2>1. M = Len(mem) /\ M = Len(old) /\ b + n <= M
    BY ONLY <1>1, <1>8, Len(mem) = Len(old)
  <2>2. q \in Nat /\ q <= n
    BY <1>a
  <2>3. b + q <= M
    BY ONLY <2>1, <2>2, b \in Nat, n \in Nat, M \in Nat
  <2> QED BY ONLY <2>1, <2>2, <2>3
<1>13. Len(o) = n /\ Len(m) = q
  <2>1. IsCut(o, old, b, n)
    BY ONLY <1>12, CutIs, old \in Seq(Int), b \in Nat, n \in Nat
  <2>2. IsCut(m, mem, b, q)
    BY ONLY <1>12, CutIs, mem \in Seq(Int), b \in Nat
  <2> HIDE DEF o, m
  <2> QED BY ONLY <2>1, <2>2 DEF IsCut
<1>14. Min({Len(o), Len(m)}) = q
  <2>1. Min({n, q}) = q
    <3>1. n \in Int /\ q \in Int /\ q <= n
      BY ONLY <1>12, n \in Nat
    <3>2. Min({n, q}) = IF n <= q THEN n ELSE q
      BY ONLY <3>1, MinOfTwo
    <3> QED BY ONLY <3>1, <3>2
  <2> HIDE DEF o, m
  <2> QED BY <1>13, <2>1
<1>15. ASSUME NEW i \in Nat, i * size + size <= q
       PROVE  Cut(m, i * size, size) = Cut(mem, b + i * size, size) /\ Cut(o, i * size, size) = Cut(old, b + i * size, size)
  <2>1. PICK j \in Nat : j = i * size
    <3>1. i * size \in Nat
      OBVIOUS
    <3> QED BY <3>1
  <2>2. j + size <= q /\ j + size <= n
    BY <1>12, <1>15, <2>1
  <2>3. Cut(m, j, size) = Cut(mem, b + j, size)
    BY <1>12, <2>2, CutCut
  <2>4. Cut(o, j, size) = Cut(old, b + j, size)
    BY <1>12, <2>2, CutCut
  <2> QED BY <2>1, <2>3, <2>4
<1> HIDE DEF o, m
<1>16. ComparePart(mem, snap, k, c, by) =
         {[addr |-> b + i * size, prev |-> Cut(mem, b + i * size, size)] :
            i \in {i \in 0 .. n : /\ i * size + size <= q
                                  /\ Keep(by, Cut(mem, b + i * size, size), Cut(old, b + i * size, size))}}
  <2>1. \A i \in 0 .. n : i \in Nat
    OBVIOUS
  <2> DEFINE now(i) == Cut(mem, b + i * size, size)
             was(i) == Cut(old, b + i * size, size)
             mnow(i) == Cut(m, i * size, size)
             owas(i) == Cut(o, i * size, size)
             end(i) == i * size + size
  <2>2. \A i \in 0 .. n : end(i) <= q => mnow(i) = now(i) /\ owas(i) = was(i)
    BY <1>15, <2>1
  <2>3. ComparePart(mem, snap, k, c, by) =
         {[addr |-> b + i * size, prev |-> mnow(i)] : i \in {i \in 0 .. n : end(i) <= q /\ Keep(by, mnow(i), owas(i))}}
    BY <1>11, <1>14
  <2> HIDE DEF now, was, mnow, owas, end
  <2>4. {i \in 0 .. n : end(i) <= q /\ Keep(by, mnow(i), owas(i))} = {i \in 0 .. n : end(i) <= q /\ Keep(by, now(i), was(i))}
    BY <2>2
  <2>5. ComparePart(mem, snap, k, c, by) =
         {[addr |-> b + i * size, prev |-> now(i)] : i \in {i \in 0 .. n : end(i) <= q /\ Keep(by, now(i), was(i))}}
    BY <2>2, <2>3, <2>4
  <2> QED BY <2>5 DEF now, was, end
<1>17. IsPart(mem, old, by, ComparePart(mem, snap, k, c, by), b, n, q)
  BY <1>1, <1>a, <1>12, <1>16 DEF IsPart
<1>18. b = ad + c * CompareChunk
  BY <1>1, <1>5, <1>8
<1> QED BY <1>1, <1>2, <1>8, <1>12, <1>17, <1>18

LEMMA DivIs ==
    ASSUME NEW m \in Nat, NEW s \in Nat, s > 0
    PROVE  m \div s \in Nat /\ \A z \in Nat : z * s <= m <=> z <= m \div s
<1>1. PICK d : d = m \div s
  OBVIOUS
<1>2. d \in Nat /\ d * s <= m /\ m < (d + 1) * s
  BY <1>1
<1>3. ASSUME NEW z \in Nat, z * s <= m PROVE z <= d
  <2> SUFFICES ASSUME z >= d + 1 PROVE FALSE
    BY <1>2
  <2>1. z * s >= (d + 1) * s
    BY <1>2
  <2> QED BY <1>2, <1>3, <2>1
<1>4. ASSUME NEW z \in Nat, z <= d PROVE z * s <= m
  <2>1. z * s <= d * s
    BY <1>2, <1>4
  <2> QED BY <1>2, <2>1
<1> QED BY <1>1, <1>2, <1>3, <1>4

LEMMA TimesAtLeast == ASSUME NEW i \in Nat, NEW s \in Nat, s > 0 PROVE i <= i * s
  OBVIOUS

LEMMA NextMultiple ==
    ASSUME NEW s \in Nat, s > 0, NEW x \in Nat, NEW y \in Nat, x * s < y * s
    PROVE  x * s + s <= y * s
<1>1. x < y
  OBVIOUS
<1>2. x + 1 <= y
  BY <1>1
<1>3. (x + 1) * s <= y * s
  BY <1>2
<1>4. (x + 1) * s = x * s + s
  OBVIOUS
<1> QED BY <1>3, <1>4

WordPasses(mem, old, by, x) == /\ \A i \in 1 .. by.size : mem[x + i] # Gap
                               /\ Keep(by, Cut(mem, x, by.size), Cut(old, x, by.size))
WordNow(mem, by, x) == [addr |-> x, prev |-> Cut(mem, x, by.size)]
LEMMA WordsPassing ==
    ASSUME NEW old \in Seq(Int), NEW mem, NEW by, NEW size \in Nat, size = by.size, size > 0
    PROVE  LET All == Passing(mem, Words(old, size), by)
           IN /\ \A e \in All : \E z \in Nat : /\ e = WordNow(mem, by, z * size) /\ z * size + size <= Len(old)
                                              /\ WordPasses(mem, old, by, z * size)
              /\ \A z \in Nat : z * size + size <= Len(old) /\ WordPasses(mem, old, by, z * size) =>
                     WordNow(mem, by, z * size) \in All
<1>1. PICK M \in Nat : M = Len(old)
  OBVIOUS
<1>2. PICK W \in Nat : W = M \div size /\ \A z \in Nat : z * size <= M <=> z <= W
  BY DivIs
<1> DEFINE x(i) == (i - 1) * size
<1>3. \A i \in 1 .. W : x(i) + size <= M
  <2>1. ASSUME NEW i \in 1 .. W PROVE x(i) + size <= M
    <3>1. i * size <= M
      BY <1>2
    <3>2. i * size = (i - 1) * size + size
      OBVIOUS
    <3> QED BY <3>1, <3>2
  <2> QED BY <2>1
<1>4. PICK ws : ws = Words(old, size)
  OBVIOUS
<1>5. DOMAIN ws = 1 .. W /\ \A i \in 1 .. W : ws[i].addr = x(i) /\ ws[i].prev = Cut(old, x(i), size)
  BY <1>1, <1>2, <1>4 DEF Words
<1> HIDE DEF x
<1>6. Passing(mem, ws, by) = {WordNow(mem, by, x(i)) : i \in {i \in 1 .. W : WordPasses(mem, old, by, x(i))}}
  BY <1>5 DEF Passing, WordNow, WordPasses
<1>7. ASSUME NEW e \in Passing(mem, ws, by)
      PROVE  \E z \in Nat : /\ e = WordNow(mem, by, z * size) /\ z * size + size <= M
                            /\ WordPasses(mem, old, by, z * size)
  <2>1. PICK i \in 1 .. W : e = WordNow(mem, by, x(i)) /\ WordPasses(mem, old, by, x(i))
    BY <1>6
  <2>2. PICK z \in Nat : z = i - 1
    OBVIOUS
  <2>3. z * size = x(i) /\ x(i) + size <= M
    BY <1>3, <2>2 DEF x
  <2> QED BY <2>1, <2>3
<1>8. ASSUME NEW z \in Nat, z * size + size <= M, WordPasses(mem, old, by, z * size)
      PROVE  WordNow(mem, by, z * size) \in Passing(mem, ws, by)
  <2>1. (z + 1) * size = z * size + size
    BY ONLY z \in Nat, size \in Nat
  <2>2. z + 1 <= W
    BY <1>2, <1>8, <2>1
  <2>3. PICK i \in 1 .. W : i = z + 1
    BY <2>2
  <2>4. x(i) = z * size
    BY <2>3 DEF x
  <2> QED BY <1>6, <1>8, <2>4
<1> QED BY <1>1, <1>4, <1>7, <1>8

\* One part reports words that pass, and without holes all that begin in it.
FindsIn(mem, old, by, size, hits, b, n) ==
    /\ \A e \in hits : \E z \in Nat : /\ e = WordNow(mem, by, z * size) /\ z * size + size <= Len(old)
                                     /\ WordPasses(mem, old, by, z * size)
    /\ Readable(mem) => \A z \in Nat : b <= z * size /\ z * size + size <= b + n
           /\ WordPasses(mem, old, by, z * size) => WordNow(mem, by, z * size) \in hits
LEMMA PartFinds ==
    ASSUME NEW old \in Seq(Int), NEW mem \in Seq(Int), Len(mem) = Len(old), NEW by, NEW size \in Nat,
           size = by.size, size > 0, NEW hits, NEW b \in Nat, NEW n \in Nat, NEW q \in Nat,
           IsPart(mem, old, by, hits, b, n, q), NEW y \in Nat, b = y * size
    PROVE  FindsIn(mem, old, by, size, hits, b, n)
<1>1. /\ b + n <= Len(old) /\ q <= n
      /\ \A i \in 1 .. q : mem[b + i] # Gap
      /\ q = n \/ mem[b + q + 1] = Gap
  BY DEF IsPart
<1> DEFINE ad(i) == b + i * size
<1>2. hits = {WordNow(mem, by, ad(i)) :
                i \in {i \in 0 .. n : /\ i * size + size <= q
                                      /\ Keep(by, Cut(mem, ad(i), size), Cut(old, ad(i), size))}}
  BY DEF IsPart, WordNow
<1>3. ASSUME NEW i \in Nat PROVE i * size \in Nat /\ ad(i) = (y + i) * size
  <2>1. i * size \in Nat /\ (y + i) * size = y * size + i * size
    BY ONLY i \in Nat, y \in Nat, size \in Nat
  <2> QED BY ONLY <2>1, b = y * size
<1>4. ASSUME NEW e \in hits
      PROVE  \E z \in Nat : /\ e = WordNow(mem, by, z * size) /\ z * size + size <= Len(old)
                            /\ WordPasses(mem, old, by, z * size)
  <2>1. PICK i \in 0 .. n : /\ e = WordNow(mem, by, ad(i)) /\ i * size + size <= q
                            /\ Keep(by, Cut(mem, ad(i), size), Cut(old, ad(i), size))
    BY <1>2
  <2>2. PICK g \in Nat : g = i * size /\ g + size <= q /\ ad(i) = b + g
    <3>1. i \in Nat
      OBVIOUS
    <3>2. i * size \in Nat /\ ad(i) = b + i * size
      BY <1>3, <3>1
    <3> QED BY <2>1, <3>2
  <2>a. i \in Nat /\ y + i \in Nat
    OBVIOUS
  <2>3. PICK z \in Nat : z = y + i /\ z * size = ad(i)
    BY <1>3, <2>a
  <2>4. b + g + size <= Len(old)
    <3>1. PICK M \in Nat : M = Len(old)
      OBVIOUS
    <3>2. b + n <= M /\ q <= n /\ g + size <= q
      BY <1>1, <2>2, <3>1
    <3>3. b + g + size <= M
      BY ONLY <3>2, b \in Nat, n \in Nat, M \in Nat, q \in Nat, g \in Nat, size \in Nat
    <3> QED BY <3>1, <3>3
  <2>5. ASSUME NEW t \in 1 .. size PROVE mem[ad(i) + t] # Gap
    <3>0. g + size <= q
      BY <2>2
    <3>1. g + t \in 1 .. q /\ b + (g + t) = b + g + t
      BY ONLY <3>0, g \in Nat, size \in Nat, t \in 1 .. size, q \in Nat, b \in Nat
    <3> QED BY <1>1, <2>2, <3>1
  <2> HIDE DEF ad
  <2>6. WordPasses(mem, old, by, ad(i))
    BY <2>1, <2>5 DEF WordPasses
  <2> QED BY <2>1, <2>2, <2>3, <2>4, <2>6
<1>5. ASSUME Readable(mem), NEW z \in Nat, b <= z * size, z * size + size <= b + n, WordPasses(mem, old, by, z * size)
      PROVE  WordNow(mem, by, z * size) \in hits
  <2>1. q = n
    <3>1. q # n => b + q + 1 \in DOMAIN mem
      BY <1>1
    <3> QED BY <1>1, <1>5, <3>1 DEF Readable
  <2>2. y <= z
    <3> SUFFICES ASSUME z < y PROVE FALSE
      OBVIOUS
    <3>1. z * size < y * size
      BY ONLY z < y, z \in Nat, y \in Nat, size \in Nat, size > 0
    <3>2. y * size <= z * size
      BY ONLY <1>5, b = y * size
    <3>3. z * size \in Nat /\ y * size \in Nat
      BY ONLY z \in Nat, y \in Nat, size \in Nat
    <3> QED BY ONLY <3>1, <3>2, <3>3
  <2>3. PICK i \in Nat : y + i = z
    <3>1. z - y \in Nat /\ y + (z - y) = z
      BY <2>2
    <3> QED BY <3>1
  <2>4. PICK g \in Nat : g = i * size /\ ad(i) = b + g /\ ad(i) = z * size
    BY <1>3, <2>3
  <2>5. g + size <= n
    <3>1. (b + g) + size <= b + n
      BY <1>5, <2>4
    <3> QED BY ONLY <3>1, b \in Nat, g \in Nat, size \in Nat, n \in Nat
  <2>6. i <= g
    BY <2>4, TimesAtLeast
  <2>7. i \in 0 .. n
    BY <2>5, <2>6
  <2>8. Keep(by, Cut(mem, ad(i), size), Cut(old, ad(i), size))
    BY <1>5, <2>4 DEF WordPasses
  <2>9. i * size + size <= q
    BY <2>1, <2>4, <2>5
  <2> HIDE DEF ad
  <2>10. WordNow(mem, by, ad(i)) \in hits
    BY <1>2, <2>7, <2>8, <2>9
  <2> QED BY <2>4, <2>10
<1> QED BY <1>4, <1>5 DEF FindsIn

\* A filter over a snapshot keeps the words of the old memory that pass, each
\* with its value now, though the snapshot is in chunks and each is compared in
\* pieces; holes in the memory now only lose words (filterFromSnapshot).  Words
\* divide the chunks and the pieces.
THEOREM SnapshotsAreFiltered ==
    ASSUME NEW old \in Seq(Int), Readable(old), NEW mem \in Seq(Int), Len(mem) = Len(old),
           NEW by, NEW size \in Nat, size = by.size, size > 0,
           NEW u \in Nat, NEW v \in Nat, ScanChunk = u * size, CompareChunk = v * size
    PROVE  SnapshotFiltered(mem, old, by)
<1>1. PICK M \in Nat, C \in Nat, D \in Nat :
         M = Len(old) /\ C = ScanChunk /\ C > 0 /\ D = CompareChunk /\ D > 0
  <2>1. ScanChunk \in Nat /\ ScanChunk > 0 /\ CompareChunk \in Nat /\ CompareChunk > 0
    BY ONLY MemAssumption
  <2>2. Len(old) \in Nat
    BY LenProperties
  <2> QED BY ONLY <2>1, <2>2
<1>2. PICK N \in Nat : N = ChunkCount(M, C)
  BY <1>1, ChunksAre
<1>3. PICK snap : snap = TakeSnapshot(old)
  OBVIOUS
<1>4. DOMAIN snap = 1 .. N /\ \A k \in 1 .. N : \E ad \in Nat, w \in Nat : IsPiece(snap, old, k, ad, w)
  BY <1>1, <1>2, <1>3, PiecesAre
<1>5. PICK All : All = Passing(mem, Words(old, size), by)
  OBVIOUS
<1> DEFINE Word(e) == \E z \in Nat : /\ e = WordNow(mem, by, z * size) /\ z * size + size <= M
                                     /\ WordPasses(mem, old, by, z * size)
           Part(k, c) == ComparePart(mem, snap, k, c, by)
           PartsOf(k) == Chunks(Len(snap[k].data), D)
           Left == FilterFromSnapshot(mem, snap, by)
<1>6. /\ \A e \in All : Word(e)
      /\ \A z \in Nat : z * size + size <= M /\ WordPasses(mem, old, by, z * size) => WordNow(mem, by, z * size) \in All
  BY <1>1, <1>5, WordsPassing
<1>7. Left = UNION {UNION {Part(k, c) : c \in PartsOf(k)} : k \in 1 .. N}
  BY <1>1, <1>4 DEF FilterFromSnapshot
<1>8. ASSUME NEW k \in 1 .. N
      PROVE  \E ad \in Nat, w \in Nat : /\ ad = (k - 1) * C /\ ad + w <= M /\ (w = C \/ ad + w = M)
                                        /\ PieceOf(old, k, ad, w) /\ Len(snap[k].data) = w
  <2>1. PICK ad \in Nat, w \in Nat : IsPiece(snap, old, k, ad, w)
    BY <1>4
  <2>2. ad = (k - 1) * C /\ ad + w <= M /\ (w = C \/ ad + w = M) /\ snap[k].data = Cut(old, ad, w)
    BY ONLY <1>1, <2>1 DEF IsPiece
  <2>3. Len(Cut(old, ad, w)) = w
    <3>1. ad + w <= Len(old)
      BY ONLY <1>1, <2>2
    <3>2. IsCut(Cut(old, ad, w), old, ad, w)
      BY ONLY <3>1, CutIs, old \in Seq(Int), ad \in Nat, w \in Nat
    <3> QED BY ONLY <3>2 DEF IsCut
  <2>4. PieceOf(old, k, ad, w)
    BY <1>1, <1>2, <1>3, <2>1 DEF PieceOf
  <2> QED BY <2>2, <2>3, <2>4
<1> HIDE DEF Word
<1> DEFINE Good(k, c, ad, w, b, n) ==
                /\ b = ad + c * D /\ b + n <= ad + w /\ (n = D \/ b + n = ad + w)
                /\ (\E y \in Nat : b = y * size)
                /\ \A e \in Part(k, c) : Word(e)
                /\ Readable(mem) => \A z \in Nat : b <= z * size /\ z * size + size <= b + n
                       /\ WordPasses(mem, old, by, z * size) => WordNow(mem, by, z * size) \in Part(k, c)
<1>9. ASSUME NEW k \in 1 .. N, NEW ad \in Nat, NEW w \in Nat, ad = (k - 1) * C, PieceOf(old, k, ad, w),
             Len(snap[k].data) = w, NEW c \in PartsOf(k)
      PROVE  \E b \in Nat, n \in Nat : Good(k, c, ad, w, b, n)
  <2>1. c \in Chunks(w, CompareChunk) /\ c \in Nat /\ k \in Nat
    BY <1>1, <1>9 DEF Chunks
  <2>2. PICK b \in Nat, n \in Nat, q \in Nat :
              /\ b = ad + c * D /\ b + n <= ad + w /\ (n = D \/ b + n = ad + w)
              /\ IsPart(mem, old, by, Part(k, c), b, n, q)
    <3>1. by.size \in Nat
      OBVIOUS
    <3>2. \E b \in Nat, n \in Nat, q \in Nat :
              /\ b = ad + c * CompareChunk /\ b + n <= ad + w /\ (n = CompareChunk \/ b + n = ad + w)
              /\ IsPart(mem, old, by, ComparePart(mem, TakeSnapshot(old), k, c, by), b, n, q)
      <4>1. PieceOf(old, k, ad, w)
        BY ONLY <1>9
      <4> QED BY ONLY <2>1, <3>1, <4>1, PartCompared, old \in Seq(Int), mem \in Seq(Int), Len(mem) = Len(old),
                      ad \in Nat, w \in Nat
    <3> QED BY <1>1, <1>3, <3>2
  <2>3. PICK y \in Nat : b = y * size
    <3>1. PICK p \in Nat : p = k - 1
      OBVIOUS
    <3>2. PICK f \in Nat, g \in Nat : f = p * u /\ g = c * v
      BY ONLY <2>1, p \in Nat, u \in Nat, v \in Nat
    <3>3. b = p * (u * size) + c * (v * size)
      BY <1>1, <1>9, <2>2, <3>1
    <3>4. p * (u * size) = f * size /\ c * (v * size) = g * size
      BY ONLY <2>1, <3>2, p \in Nat, u \in Nat, v \in Nat, size \in Nat
    <3>5. f * size + g * size = (f + g) * size
      BY ONLY f \in Nat, g \in Nat, size \in Nat
    <3>6. f + g \in Nat
      OBVIOUS
    <3> QED BY ONLY <3>3, <3>4, <3>5, <3>6
  <2> HIDE DEF Part
  <2>4. FindsIn(mem, old, by, size, Part(k, c), b, n)
    BY ONLY <2>2, <2>3, PartFinds, old \in Seq(Int), mem \in Seq(Int), Len(mem) = Len(old),
            size \in Nat, size = by.size, size > 0, b \in Nat, n \in Nat, q \in Nat, y \in Nat
  <2>5. \A e \in Part(k, c) : Word(e)
    BY <1>1, <2>4 DEF Word, FindsIn
  <2> QED BY <2>2, <2>3, <2>4, <2>5 DEF FindsIn
<1> HIDE DEF Part, Good
<1>10. ASSUME NEW e \in Left PROVE e \in All
  <2>0. PICK k \in 1 .. N : \E c \in PartsOf(k) : e \in Part(k, c)
    BY <1>7
  <2>1. PICK c \in PartsOf(k) : e \in Part(k, c)
    BY <2>0
  <2>2. Word(e)
    <3>1. PICK ad \in Nat, w \in Nat : ad = (k - 1) * C /\ PieceOf(old, k, ad, w) /\ Len(snap[k].data) = w
      BY <1>8
    <3>2. PICK b \in Nat, n \in Nat : Good(k, c, ad, w, b, n)
      BY <1>9, <2>1, <3>1
    <3> QED BY <2>1, <3>2 DEF Good
  <2> QED BY <1>6, <2>2 DEF Word
<1>11. ASSUME Readable(mem), NEW e \in All PROVE e \in Left
  <2>1. PICK z \in Nat : /\ e = WordNow(mem, by, z * size) /\ z * size + size <= M
                         /\ WordPasses(mem, old, by, z * size)
    BY <1>6 DEF Word
  <2>2. PICK a \in Nat : a = z * size /\ a + size <= M /\ a < M
    <3>1. z * size \in Nat
      OBVIOUS
    <3>2. PICK a \in Nat : a = z * size
      BY <3>1
    <3>3. a + size <= M
      BY <2>1, <3>2
    <3>4. a < M
      BY ONLY <3>3, a \in Nat, size \in Nat, size > 0, M \in Nat
    <3> QED BY <3>2, <3>3, <3>4
  <2>3. PICK p \in Chunks(M, C) : p * C <= a /\ a < p * C + C
    BY <1>1, <2>2, ChunkOf
  <2>4. PICK k \in 1 .. N : k - 1 = p
    <3>1. p + 1 \in 1 .. N /\ (p + 1) - 1 = p
      BY <1>2, <2>3 DEF Chunks
    <3> QED BY <3>1
  <2>5. PICK ad \in Nat, w \in Nat : /\ ad = (k - 1) * C /\ ad + w <= M /\ (w = C \/ ad + w = M)
                                     /\ PieceOf(old, k, ad, w) /\ Len(snap[k].data) = w
    BY <1>8
  <2>6. ad <= a /\ a < ad + C
    BY <2>3, <2>4, <2>5
  \* The piece ends behind the word.
  <2>7. a + size <= ad + w
    <3>1. CASE w = C
      <4>1. (k - 1) * C + C = k * C
        BY ONLY k \in 1 .. N, N \in Nat, C \in Nat
      <4>2. k * C = k * u * size
        BY ONLY <1>1, ScanChunk = u * size, k \in 1 .. N, N \in Nat, u \in Nat, size \in Nat
      <4>3. PICK x \in Nat : x = k * u
        BY ONLY k \in 1 .. N, N \in Nat, u \in Nat
      <4>4. ad + w = x * size
        BY ONLY <2>5, <3>1, <4>1, <4>2, <4>3
      <4>5. z * size < x * size
        BY <2>2, <2>6, <3>1, <4>4
      <4> QED BY <2>2, <4>4, <4>5, NextMultiple
    <3>2. CASE ad + w = M
      BY <2>2, <3>2
    <3> QED BY <2>5, <3>1, <3>2
  <2>8. PICK off \in Nat : ad + off = a /\ off < w
    <3>1. a - ad \in Nat /\ ad + (a - ad) = a /\ a - ad < w
      BY ONLY <2>6, <2>7, size > 0, size \in Nat, a \in Nat, ad \in Nat, w \in Nat, C \in Nat
    <3> QED BY <3>1
  <2>9. PICK c \in Chunks(w, D) : c * D <= off /\ off < c * D + D
    BY <1>1, <2>8, ChunkOf
  <2>10. c \in PartsOf(k) /\ c \in Nat /\ c * D \in Nat
    BY <2>5, <2>9 DEF Chunks
  <2>11. PICK b \in Nat, n \in Nat :
                /\ b = ad + c * D /\ b + n <= ad + w /\ (n = D \/ b + n = ad + w)
                /\ (\E y \in Nat : b = y * size)
                /\ \A x \in Nat : b <= x * size /\ x * size + size <= b + n
                       /\ WordPasses(mem, old, by, x * size) => WordNow(mem, by, x * size) \in Part(k, c)
    <3>1. PICK b \in Nat, n \in Nat : Good(k, c, ad, w, b, n)
      BY <1>9, <2>5, <2>10
    <3> QED BY <1>11, <3>1 DEF Good
  <2>12. b <= a /\ a < b + D
    <3>1. PICK g \in Nat : g = c * D
      BY <2>10
    <3>2. b = ad + g /\ g <= off /\ off < g + D /\ ad + off = a
      BY <2>8, <2>9, <2>11, <3>1
    <3> QED BY ONLY <3>2, ad \in Nat, g \in Nat, off \in Nat, D \in Nat, a \in Nat, b \in Nat
  <2>13. a + size <= b + n
    <3>1. CASE n = D
      <4>1. PICK y \in Nat : b = y * size
        BY <2>11
      <4>2. b + n = (y + v) * size
        BY ONLY <1>1, <3>1, <4>1, CompareChunk = v * size, y \in Nat, v \in Nat, size \in Nat
      <4>3. PICK x \in Nat : x = y + v
        OBVIOUS
      <4>4. z * size < x * size
        BY <2>2, <2>12, <3>1, <4>2, <4>3
      <4> QED BY <2>2, <4>2, <4>3, <4>4, NextMultiple
    <3>2. CASE b + n = ad + w
      BY <2>7, <3>2
    <3> QED BY <2>11, <3>1, <3>2
  <2>14. e \in Part(k, c)
    BY <2>1, <2>2, <2>11, <2>12, <2>13
  <2> QED BY <1>7, <2>10, <2>14
<1> HIDE DEF Left
<1>12. Left \subseteq All /\ (Readable(mem) => Left = All)
  BY <1>10, <1>11
<1> QED BY <1>3, <1>5, <1>12 DEF SnapshotFiltered, Left

\* A diff of the memory with a snapshot names words that changed, and all of
\* them when the memory can be read (compareWithSnapshot).
THEOREM DiffsAreNamed ==
    ASSUME NEW old \in Seq(Int), Readable(old), NEW mem \in Seq(Int), Len(mem) = Len(old),
           NEW word \in Nat, word > 0,
           NEW u \in Nat, NEW v \in Nat, ScanChunk = u * word, CompareChunk = v * word
    PROVE  DiffNames(mem, old, word)
<1>1. PICK by : by = [filter |-> "changed", size |-> word]
  OBVIOUS
<1>2. by.size = word /\ \A cur, was : Keep(by, cur, was) <=> cur # was
  <2>1. by.size = word /\ by.filter = "changed"
    BY <1>1
  <2> QED BY <2>1 DEF Keep
<1>3. PICK kept : kept = FilterFromSnapshot(mem, TakeSnapshot(old), by)
  OBVIOUS
<1>4. PICK all : all = Passing(mem, Words(old, word), by)
  OBVIOUS
<1>5. kept \subseteq all /\ (Readable(mem) => kept = all)
  <2>1. SnapshotFiltered(mem, old, by)
    BY <1>2, SnapshotsAreFiltered
  <2> QED BY <1>2, <1>3, <1>4, <2>1 DEF SnapshotFiltered
<1> DEFINE Other(x) == Cut(mem, x, word) # Cut(old, x, word)
           other == {x \in Nat : \E z \in Nat : x = z * word /\ x + word <= Len(old) /\ Other(x)}
<1>6. /\ \A e \in all : \E z \in Nat : /\ e = WordNow(mem, by, z * word) /\ z * word + word <= Len(old)
                                       /\ WordPasses(mem, old, by, z * word)
      /\ \A z \in Nat : z * word + word <= Len(old) /\ WordPasses(mem, old, by, z * word) =>
             WordNow(mem, by, z * word) \in all
  BY <1>2, <1>4, WordsPassing
<1>7. \A e \in all : e.addr \in other
  <2> SUFFICES ASSUME NEW e \in all PROVE e.addr \in other
    OBVIOUS
  <2>1. PICK z \in Nat : /\ e = WordNow(mem, by, z * word) /\ z * word + word <= Len(old)
                         /\ WordPasses(mem, old, by, z * word)
    BY <1>6
  <2>2. PICK x \in Nat : x = z * word
    <3>1. z * word \in Nat
      BY ONLY z \in Nat, word \in Nat
    <3> QED BY <3>1
  <2>3. e.addr = x
    BY <2>1, <2>2 DEF WordNow
  <2>4. Other(x)
    BY <1>2, <2>1, <2>2 DEF WordPasses
  <2> HIDE DEF Other
  <2> QED BY <2>1, <2>2, <2>3, <2>4
<1>8. ASSUME Readable(mem), NEW x \in other PROVE \E e \in all : e.addr = x
  <2>1. PICK z \in Nat : x = z * word /\ x + word <= Len(old) /\ Other(x) /\ x \in Nat
    OBVIOUS
  <2>2. ASSUME NEW i \in 1 .. word PROVE mem[x + i] # Gap
    <3>0. PICK M \in Nat : M = Len(mem) /\ x + word <= M /\ DOMAIN mem = 1 .. M
      BY <2>1
    <3>a. x + i \in 1 .. M
      BY ONLY <2>1, <3>0, M \in Nat, word \in Nat, i \in 1 .. word
    <3>1. x + i \in DOMAIN mem
      BY <3>0, <3>a
    <3> QED BY <1>8, <3>1 DEF Readable
  <2>3. WordPasses(mem, old, by, x)
    BY <1>2, <2>1, <2>2 DEF WordPasses
  <2>4. WordNow(mem, by, x) \in all
    BY <1>6, <2>1, <2>3
  <2>5. WordNow(mem, by, x).addr = x
    BY DEF WordNow
  <2> QED BY <2>4, <2>5
<1>9. PICK ws : ws = Words(old, word)
  OBVIOUS
<1>10. {ws[i].addr : i \in {i \in DOMAIN ws : Cut(mem, ws[i].addr, word) # Cut(old, ws[i].addr, word)}} = other
  <2>1. PICK W \in Nat : W = Len(old) \div word /\ \A z \in Nat : z * word <= Len(old) <=> z <= W
    <3>1. PICK M \in Nat : M = Len(old)
      OBVIOUS
    <3>2. M \div word \in Nat /\ \A z \in Nat : z * word <= M <=> z <= M \div word
      BY ONLY DivIs, M \in Nat, word \in Nat, word > 0
    <3> QED BY ONLY <3>1, <3>2
  <2>2. DOMAIN ws = 1 .. W /\ \A i \in 1 .. W : ws[i].addr = (i - 1) * word
    BY <1>9, <2>1 DEF Words
  <2>3. ASSUME NEW i \in DOMAIN ws, Other(ws[i].addr) PROVE ws[i].addr \in other
    <3>0. i \in 1 .. W
      BY ONLY <2>2, i \in DOMAIN ws
    <3>1. PICK z \in Nat : z = i - 1 /\ z + 1 <= W
      <4>1. i - 1 \in Nat /\ (i - 1) + 1 <= W
        BY ONLY <3>0, W \in Nat
      <4> QED BY <4>1
    <3>2. (z + 1) * word = z * word + word /\ z * word \in Nat
      BY ONLY z \in Nat, word \in Nat
    <3>3. (z + 1) * word <= Len(old)
      BY <2>1, <3>1
    <3>4. ws[i].addr = z * word
      BY <2>2, <3>1
    <3> HIDE DEF Other
    <3> QED BY <2>3, <3>2, <3>3, <3>4
  <2>4. ASSUME NEW x \in other PROVE \E i \in DOMAIN ws : ws[i].addr = x /\ Other(x)
    <3>1. PICK z \in Nat : x = z * word /\ x + word <= Len(old) /\ Other(x)
      BY <2>4
    <3>2. (z + 1) * word = z * word + word
      BY ONLY z \in Nat, word \in Nat
    <3>3. z + 1 <= W
      BY <2>1, <3>1, <3>2
    <3>4. PICK i \in 1 .. W : i = z + 1 /\ i - 1 = z
      BY <3>3
    <3> HIDE DEF Other
    <3> QED BY <2>2, <3>1, <3>4
  <2> HIDE DEF other
  <2> QED BY <2>3, <2>4
<1>11. CompareWithSnapshot(mem, TakeSnapshot(old), word) = {d.addr : d \in kept}
  BY <1>1, <1>3 DEF CompareWithSnapshot
<1> HIDE DEF other
<1>12. {d.addr : d \in kept} \subseteq other
  BY <1>5, <1>7
<1>13. Readable(mem) => {d.addr : d \in kept} = other
  BY <1>5, <1>7, <1>8
<1>14. {Words(old, word)[i].addr : i \in {i \in DOMAIN Words(old, word) :
          Cut(mem, Words(old, word)[i].addr, word) # Cut(old, Words(old, word)[i].addr, word)}} = other
  BY ONLY <1>9, <1>10
<1> QED BY ONLY <1>11, <1>12, <1>13, <1>14 DEF DiffNames

\* A number is made of what is left of it without its lowest byte, and that byte.
LEMMA LowByte ==
    ASSUME NEW u \in Nat, NEW w \in Nat, w > 0, NEW b \in Nat, b > 0, NEW x \in Nat, x = u \div w,
           NEW h \in Nat, h = u \div (b * w), NEW l \in Nat, l = x % b
    PROVE  h * b + l = x
<1>1. u \div (b * w) = (u \div w) \div b
  BY ONLY u \in Nat, w \in Nat, w > 0, b \in Nat, b > 0
<1>2. h = x \div b
  BY ONLY <1>1, x = u \div w, h = u \div (b * w)
<1>3. x = b * h + l
  BY ONLY <1>2, l = x % b, x \in Nat, b \in Nat, b > 0, h \in Nat, l \in Nat
<1>4. b * h = h * b
  BY ONLY b \in Nat, h \in Nat
<1> QED BY ONLY <1>3, <1>4, x \in Nat, h \in Nat, b \in Nat, l \in Nat

\* The bytes of a number, the highest first, make up that number.
LEMMA Decoded ==
    ASSUME NEW u \in Nat, NEW size \in Nat, u < Power(size), NEW bytes, Len(bytes) = size, NEW order,
           \A i \in 1 .. size : (IF order = "little" THEN bytes[size + 1 - i] ELSE bytes[i])
                                   = (u \div Power(size - i)) % Base
    PROVE  Unsigned(bytes, order) = u
<1>1. Base \in Nat /\ Base > 0
  BY MemAssumption
<1> DEFINE byte(i) == IF order = "little" THEN bytes[size + 1 - i] ELSE bytes[i]
           Is(f) == f = [i \in 0 .. size |-> IF i = 0 THEN 0 ELSE f[i - 1] * Base + byte(i)]
           n == CHOOSE f : Is(f)
<1>2. Unsigned(bytes, order) = n[size]
  BY DEF Unsigned
<1>3. \A i \in 1 .. size : byte(i) = (u \div Power(size - i)) % Base
  OBVIOUS
<1> HIDE DEF byte
<1>4. ASSUME NEW i \in 1 .. size PROVE byte(i) \in Int
  <2>1. PICK w \in Nat : w = Power(size - i) /\ w > 0
    <3>1. size - i \in Nat
      OBVIOUS
    <3> QED BY <3>1, PowerIs
  <2>2. (u \div w) % Base \in Int
    BY <1>1, <2>1
  <2> QED BY <1>3, <2>1, <2>2
<1>5. \E f : Is(f)
  <2>0. [i \in 1 .. size |-> [x \in Int |-> x * Base + byte(i)]] \in [1 .. size -> [Int -> Int]]
    <3>1. \A i \in 1 .. size : \A x \in Int : x * Base + byte(i) \in Int
      BY <1>1, <1>4
    <3> QED BY ONLY <3>1
  <2>a. PICK Y, y : Y = Int /\ y = 0 /\ y \in Y
    OBVIOUS
  <2>1. PICK F \in [1 .. size -> [Y -> Y]] : F = [i \in 1 .. size |-> [x \in Int |-> x * Base + byte(i)]]
    BY ONLY <2>0, <2>a
  <2>2. PICK f : IsRecursive(f, Y, size, y, F)
    BY <2>a, Recursion
  <2>3. f \in [0 .. size -> Int] /\ f[0] = 0 /\ \A i \in 1 .. size : f[i] = F[i][f[i - 1]]
    BY <2>2, <2>a DEF IsRecursive
  <2>4. ASSUME NEW i \in 0 .. size PROVE f[i] = IF i = 0 THEN 0 ELSE f[i - 1] * Base + byte(i)
    <3>1. CASE i = 0
      BY <2>3, <3>1
    <3>2. CASE i # 0
      <4>1. i \in 1 .. size /\ i - 1 \in 0 .. size
        BY <3>2
      <4>2. f[i - 1] \in Int
        BY <2>3, <4>1
      <4> QED BY <2>1, <2>3, <3>2, <4>1, <4>2
    <3> QED BY <3>1, <3>2
  <2>5. f = [i \in 0 .. size |-> f[i]]
    BY <2>3
  <2>6. Is(f)
    BY <2>4, <2>5
  <2> QED BY <2>6
<1>6. \A i \in 0 .. size : n[i] = IF i = 0 THEN 0 ELSE n[i - 1] * Base + byte(i)
  <2>1. Is(n)
    BY <1>5
  <2> HIDE DEF n
  <2> QED BY <2>1
<1> HIDE DEF n, Is
<1> DEFINE S == {i \in Nat : i <= size => n[i] = u \div Power(size - i)}
<1>7. 0 \in S
  <2>1. PICK w \in Nat : w = Power(size) /\ u < w
    BY PowerIs
  <2>2. u \div w = 0
    BY ONLY <2>1, u \in Nat, w \in Nat
  <2>3. n[0] = 0 /\ size - 0 = size
    BY <1>6
  <2> QED BY <2>1, <2>2, <2>3
<1>8. ASSUME NEW i \in Nat, i \in S PROVE i + 1 \in S
  <2> SUFFICES ASSUME i + 1 <= size PROVE n[i + 1] = u \div Power(size - (i + 1))
    OBVIOUS
  <2>1. PICK j \in 1 .. size : j = i + 1 /\ j - 1 = i /\ j # 0 /\ j \in 0 .. size
    OBVIOUS
  <2>2. PICK k \in Nat : k = size - j /\ k + 1 = size - i
    <3>1. size - j \in Nat /\ (size - j) + 1 = size - i
      BY <2>1
    <3> QED BY <3>1
  <2>3. PICK w \in Nat : w = Power(k) /\ w > 0 /\ Power(k + 1) = Base * w
    BY PowerIs
  <2>4. n[i] = u \div (Base * w)
    BY <1>8, <2>2, <2>3
  <2>5. n[j] = n[i] * Base + byte(j)
    BY <1>6, <2>1
  <2>6. byte(j) = (u \div w) % Base
    BY <1>3, <2>2, <2>3
  <2>7. PICK x \in Nat, h \in Nat, l \in Nat : x = u \div w /\ h = u \div (Base * w) /\ l = x % Base
    <3>1. PICK x \in Nat : x = u \div w
      BY ONLY <2>3, u \in Nat, w \in Nat
    <3>2. PICK d \in Nat : d = Base * w /\ d > 0
      BY ONLY <1>1, <2>3, w \in Nat
    <3>3. PICK h \in Nat : h = u \div d
      BY ONLY <3>2, u \in Nat, d \in Nat
    <3>4. PICK l \in Nat : l = x % Base
      BY ONLY <1>1, x \in Nat
    <3> QED BY ONLY <3>1, <3>2, <3>3, <3>4, x \in Nat, h \in Nat, l \in Nat
  <2>8. n[j] = x
    <3>1. h * Base + l = x
      BY ONLY <1>1, <2>3, <2>7, LowByte, u \in Nat, w \in Nat, x \in Nat, h \in Nat, l \in Nat
    <3>2. n[i] = h /\ byte(j) = l
      BY ONLY <2>4, <2>6, <2>7
    <3> QED BY ONLY <2>5, <3>1, <3>2
  <2> QED BY <2>1, <2>2, <2>3, <2>7, <2>8
<1> HIDE DEF S
<1>9. size \in S
  BY <1>7, <1>8, SetInduction
<1>10. n[size] = u \div 1
  <2>1. size - size = 0
    OBVIOUS
  <2> QED BY <1>9, <2>1, PowerIs DEF S
<1>11. u \div 1 = u
  BY ONLY u \in Nat
<1> QED BY <1>2, <1>10, <1>11

\* Half of the numbers of size bytes.
LEMMA HalfIs ==
    ASSUME NEW size \in Nat, size > 0, NEW h \in Nat, Base = 2 * h
    PROVE  \E half \in Nat : half > 0 /\ Power(size) = 2 * half /\ Power(size) \div 2 = half
<1>1. PICK k \in Nat : k + 1 = size
  <2>1. size - 1 \in Nat /\ (size - 1) + 1 = size
    OBVIOUS
  <2> QED BY <2>1
<1>2. PICK w \in Nat : w = Power(k) /\ w > 0 /\ Power(k + 1) = Base * w
  BY PowerIs
<1>3. Base > 0
  BY MemAssumption
<1>4. h > 0
  BY <1>3
<1>5. PICK half \in Nat : half = h * w /\ half > 0
  <2>1. h * w \in Nat /\ h * w > 0
    BY ONLY <1>2, <1>4, h \in Nat, w \in Nat
  <2> QED BY <2>1
<1>6. Power(size) = 2 * half
  <2>1. (2 * h) * w = 2 * (h * w)
    BY ONLY h \in Nat, w \in Nat
  <2> QED BY ONLY <1>1, <1>2, <1>5, <2>1, Base = 2 * h
<1>7. (2 * half) \div 2 = half
  BY ONLY half \in Nat
<1> QED BY <1>5, <1>6, <1>7

\* The numbers that are encoded are those of the type; they are read back.
Fits(type, half, n) == n \in (IF type = "int" THEN -half .. half - 1 ELSE 0 .. 2 * half - 1)
Encodes(type, n, size, order, half) ==
    LET enc == EncodeValue(type, n, size, order)
    IN /\ (enc # <<>>) <=> Fits(type, half, n)
       /\ Fits(type, half, n) => Len(enc) = size /\ Value(type, enc, order) = n
LEMMA Encoded ==
    ASSUME NEW type, NEW n \in Int, NEW size \in Nat, size > 0, NEW order,
           NEW half \in Nat, half > 0, Power(size) = 2 * half, Power(size) \div 2 = half
    PROVE  Encodes(type, n, size, order, half)
<1>1. PICK all \in Nat : all = Power(size) /\ all = 2 * half
  OBVIOUS
<1>2. PICK low \in Int : low = IF type = "int" THEN -half ELSE 0
  <2>1. -half \in Int
    BY ONLY half \in Nat
  <2> QED BY <2>1
<1>3. Fits(type, half, n) <=> ~(n < low \/ n >= low + all)
  <2>1. CASE type = "int"
    <3>1. low = -half /\ (Fits(type, half, n) <=> n \in -half .. half - 1)
      BY <1>2, <2>1 DEF Fits
    <3> QED BY ONLY <1>1, <3>1, n \in Int, half \in Nat, low \in Int, all \in Nat
  <2>2. CASE type # "int"
    <3>1. low = 0 /\ (Fits(type, half, n) <=> n \in 0 .. 2 * half - 1)
      BY <1>2, <2>2 DEF Fits
    <3> QED BY ONLY <1>1, <3>1, n \in Int, half \in Nat, low \in Int, all \in Nat
  <2> QED BY <2>1, <2>2
<1>4. PICK u \in Nat : u = n % all /\ u < all
  <2>1. all > 0
    BY ONLY <1>1, half \in Nat, half > 0
  <2>2. n % all \in Nat /\ n % all < all
    BY ONLY <2>1, n \in Int, all \in Nat
  <2> QED BY <2>2
<1>5. n >= 0 /\ n < all => u = n
  BY ONLY <1>4, n \in Int, all \in Nat, u \in Nat
<1>6. n < 0 /\ n + all >= 0 => u = n + all
  BY ONLY <1>4, n \in Int, all \in Nat, u \in Nat
<1> DEFINE digit(i) == (u \div Power(i - 1)) % Base
           little == [i \in 1 .. size |-> digit(i)]
           enc == IF order = "little" THEN little ELSE Reverse(little)
<1>7. EncodeValue(type, n, size, order) = IF n < low \/ n >= low + all THEN <<>> ELSE enc
  <2>1. -(Power(size) \div 2) = -half
    OBVIOUS
  <2> QED BY <1>1, <1>2, <1>4, <2>1 DEF EncodeValue
<1>8. /\ Len(enc) = size /\ enc # <<>>
      /\ \A i \in 1 .. size : (IF order = "little" THEN enc[size + 1 - i] ELSE enc[i]) = digit(size + 1 - i)
  <2>0. \A i \in 1 .. size : size + 1 - i \in 1 .. size /\ size - i + 1 = size + 1 - i
    BY ONLY size \in Nat
  <2> HIDE DEF digit
  <2>1. Len(little) = size /\ \A i \in 1 .. size : little[i] = digit(i)
    OBVIOUS
  <2>2. Reverse(little) = [i \in 1 .. size |-> little[(size - i) + 1]]
    BY <2>1 DEF Reverse
  <2> HIDE DEF little
  <2>3. Len(Reverse(little)) = size /\ \A i \in 1 .. size : Reverse(little)[i] = little[(size - i) + 1]
    BY <2>2
  <2>4. Len(enc) = size
    BY <2>1, <2>3
  <2>5. enc # <<>>
    <3>1. Len(<<>>) = 0
      BY EmptySeq
    <3> HIDE DEF enc
    <3> QED BY <2>4, <3>1
  <2>6. \A i \in 1 .. size : (IF order = "little" THEN enc[size + 1 - i] ELSE enc[i]) = digit(size + 1 - i)
    <3>1. CASE order = "little"
      <4>1. enc = little
        BY <3>1
      <4> HIDE DEF enc
      <4> QED BY <2>0, <2>1, <3>1, <4>1
    <3>2. CASE order # "little"
      <4>1. enc = Reverse(little)
        BY <3>2
      <4> HIDE DEF enc
      <4> QED BY <2>0, <2>1, <2>3, <3>2, <4>1
    <3> QED BY <3>1, <3>2
  <2> QED BY <2>4, <2>5, <2>6
<1>9. \A i \in 1 .. size : digit(size + 1 - i) = (u \div Power(size - i)) % Base
  <2>1. \A i \in 1 .. size : (size + 1 - i) - 1 = size - i
    BY ONLY size \in Nat
  <2> QED BY <2>1
<1> HIDE DEF enc, little, digit
<1>10. Unsigned(enc, order) = u
  <2>1. \A i \in 1 .. size : (IF order = "little" THEN enc[size + 1 - i] ELSE enc[i]) = (u \div Power(size - i)) % Base
    BY <1>8, <1>9
  <2>2. Len(enc) = size /\ u < Power(size)
    BY <1>1, <1>4, <1>8
  <2> QED BY <2>1, <2>2, Decoded
<1>11. ASSUME ~(n < low \/ n >= low + all) PROVE Value(type, enc, order) = n
  <2>1. CASE type = "int"
    <3>1. low = -half
      BY <1>2, <2>1
    <3>2. Value(type, enc, order) = IF 2 * u >= all THEN u - all ELSE u
      BY <1>1, <1>8, <1>10, <2>1 DEF Value, Signed
    <3>3. (IF 2 * u >= all THEN u - all ELSE u) = n
      BY ONLY <1>1, <1>5, <1>6, <1>11, <3>1, n \in Int, u \in Nat, all \in Nat, half \in Nat, low \in Int
    <3> QED BY ONLY <3>2, <3>3
  <2>2. CASE type # "int"
    <3>1. low = 0
      BY <1>2, <2>2
    <3>2. Value(type, enc, order) = u
      BY <1>10, <2>2 DEF Value
    <3>3. u = n
      BY ONLY <1>5, <1>11, <3>1, n \in Int, u \in Nat, all \in Nat, low \in Int
    <3> QED BY ONLY <3>2, <3>3
  <2> QED BY <2>1, <2>2
<1>12. CASE n < low \/ n >= low + all
  BY <1>3, <1>7, <1>12 DEF Encodes
<1>13. CASE ~(n < low \/ n >= low + all)
  BY <1>3, <1>7, <1>8, <1>11, <1>13 DEF Encodes
<1> QED BY <1>12, <1>13

\* A number is encoded exactly when it fits into its width, decodes to itself
\* in both byte orders, and two of them compare as numbers do (encodeValue,
\* compareValues).
THEOREM ValuesAreKept ==
    ASSUME NEW in, in.size \in Nat, in.size > 0, in.a \in Int, in.b \in Int, NEW h \in Nat, Base = 2 * h
    PROVE  ValuesRight(in)
<1>1. PICK size \in Nat, a \in Int, b \in Int : size = in.size /\ size > 0 /\ a = in.a /\ b = in.b
  OBVIOUS
<1>2. PICK half \in Nat : half > 0 /\ Power(size) = 2 * half /\ Power(size) \div 2 = half
  BY <1>1, HalfIs
<1>3. Encodes(in.type, a, size, in.order, half) /\ Encodes(in.type, b, size, in.order, half)
  BY <1>1, <1>2, Encoded
<1> DEFINE ea == EncodeValue(in.type, a, size, in.order)
           eb == EncodeValue(in.type, b, size, in.order)
<1>4. /\ (ea # <<>>) <=> Fits(in.type, half, a)
      /\ Fits(in.type, half, a) => Len(ea) = size /\ Value(in.type, ea, in.order) = a
      /\ Fits(in.type, half, b) => Len(eb) = size /\ Value(in.type, eb, in.order) = b
  BY <1>3 DEF Encodes
<1> HIDE DEF ea, eb
<1>5. ASSUME Fits(in.type, half, a), Fits(in.type, half, b)
      PROVE  CompareValues(in.type, ea, eb, size, in.order) = a - b
  <2>1. ~(Len(ea) < size \/ Len(eb) < size)
    BY <1>4, <1>5
  <2> QED BY <1>4, <1>5, <2>1 DEF CompareValues
<1>6. (a - b > 0 <=> a > b) /\ (a - b < 0 <=> a < b)
  BY ONLY a \in Int, b \in Int
<1> QED BY <1>1, <1>2, <1>4, <1>5, <1>6 DEF ValuesRight, Fits, ea, eb

(***************************************************************************)
(* All searches                                                            *)
(***************************************************************************)
\* Bytes have an even number of values, and whole words of two bytes fit into
\* the chunks of snapshots.
EvenSizes == \E h, u, v \in Nat : Base = 2 * h /\ ScanChunk = u * 2 /\ CompareChunk = v * 2

\* What the tools of SearchesRight may be given: memories of any length.
Given ==
    /\ part = "search" => /\ input.mem \in Seq(Int) /\ Readable(input.mem)
                          /\ input.pat \in Seq(Int) \ {<<>>} /\ Len(input.pat) <= ScanChunk + 1
    /\ part = "filter" => /\ input.old \in Seq(Int) /\ Readable(input.old)
                          /\ input.mem \in Seq(Int) /\ Len(input.mem) = Len(input.old) /\ Len(input.old) >= 4
    /\ part = "pointer" => input.mem \in Seq(Int) /\ input.target \in Nat /\ input.target < Power(2)
    /\ part = "value" => input.size \in Nat \ {0} /\ input.a \in Int /\ input.b \in Int

\* A pattern, and the struct of that pattern twice, one byte apart.
LEMMA SearchPart ==
    ASSUME NEW mem \in Seq(Int), Readable(mem), NEW pat \in Seq(Int), pat # <<>>, Len(pat) <= ScanChunk + 1
    PROVE  /\ ScanFinds(mem, pat, Len(pat)) /\ ScanFinds(mem, pat, 1)
           /\ StructFinds(mem, TwoFields(pat))
<1>1. PICK L \in Nat : L = Len(pat) /\ L > 0
  BY EmptySeq
<1>2. ScanFinds(mem, pat, L) /\ ScanFinds(mem, pat, 1)
  BY <1>1, ScansFindAll
<1>3. PICK fields \in [1 .. 2 -> [off : Nat, bytes : Seq(Int)]] :
         fields = TwoFields(pat) /\ fields[1].off = 0 /\ fields[1].bytes = pat /\ fields[2].off = 1 /\ fields[2].bytes = pat
  <2>1. PICK r \in [off : Nat, bytes : Seq(Int)], t \in [off : Nat, bytes : Seq(Int)] :
           /\ r = [off |-> 0, bytes |-> pat] /\ t = [off |-> 1, bytes |-> pat]
           /\ r.off = 0 /\ r.bytes = pat /\ t.off = 1 /\ t.bytes = pat
    <3>1. /\ [off |-> 0, bytes |-> pat] \in [off : Nat, bytes : Seq(Int)]
          /\ [off |-> 1, bytes |-> pat] \in [off : Nat, bytes : Seq(Int)]
      BY ONLY pat \in Seq(Int)
    <3> QED BY ONLY <3>1
  <2>2. TwoFields(pat) = <<r, t>>
    BY <2>1 DEF TwoFields
  <2>3. <<r, t>> \in [1 .. 2 -> [off : Nat, bytes : Seq(Int)]] /\ <<r, t>>[1] = r /\ <<r, t>>[2] = t
    BY ONLY r \in [off : Nat, bytes : Seq(Int)], t \in [off : Nat, bytes : Seq(Int)]
  <2> QED BY ONLY <2>1, <2>2, <2>3
<1>4. StructSize(fields) > 0
  <2>1. {fields[f].off + Len(fields[f].bytes) : f \in DOMAIN fields} = {L, 1 + L}
    <3>1. DOMAIN fields = {1, 2}
      OBVIOUS
    <3>2. fields[1].off + Len(fields[1].bytes) = L /\ fields[2].off + Len(fields[2].bytes) = 1 + L
      BY <1>1, <1>3
    <3> QED BY ONLY <3>1, <3>2
  <2>2. Max({L, 1 + L}) = 1 + L
    <3>1. L \in Int /\ 1 + L \in Int /\ L <= 1 + L
      BY ONLY L \in Nat
    <3> QED BY ONLY <3>1, MaxOfTwo
  <2>3. StructSize(fields) = 1 + L
    BY ONLY <2>1, <2>2 DEF StructSize
  <2> QED BY ONLY <2>3, L \in Nat
<1>5. StructFinds(mem, fields)
  <2>1. PICK k \in Nat : k = 2 /\ k > 0
    OBVIOUS
  <2>2. fields \in [1 .. k -> [off : Nat, bytes : Seq(Int)]]
    BY ONLY <2>1, fields \in [1 .. 2 -> [off : Nat, bytes : Seq(Int)]]
  <2> QED BY ONLY <1>4, <2>1, <2>2, k \in Nat, mem \in Seq(Int), StructsAreFound
<1> QED BY <1>1, <1>2, <1>3, <1>5

\* Three matches of two bytes, the snapshot and its diff.
LEMMA FilterPart ==
    ASSUME EvenSizes, NEW in, in.old \in Seq(Int), Readable(in.old), in.mem \in Seq(Int),
           Len(in.mem) = Len(in.old), Len(in.old) >= 4
    PROVE  FilterKeeps(in)
<1>1. PICK old \in Seq(Int), mem \in Seq(Int) :
         old = in.old /\ mem = in.mem /\ Readable(old) /\ Len(mem) = Len(old) /\ Len(old) >= 4
  OBVIOUS
<1>2. PICK h \in Nat, u \in Nat, v \in Nat : Base = 2 * h /\ ScanChunk = u * 2 /\ CompareChunk = v * 2
  BY DEF EvenSizes
<1>3. PICK by : by = [filter |-> in.filter, type |-> in.type, size |-> 2, order |-> "little", value |-> <<1, 0>>]
  OBVIOUS
<1>a. PICK size \in Nat : size = 2 /\ size = by.size /\ size > 0
  <2>1. by.size = 2
    BY ONLY <1>3
  <2> QED BY ONLY <2>1
<1>4. PICK list : list = [i \in 1 .. 3 |-> [addr |-> i - 1, prev |-> Cut(old, i - 1, 2)]]
  OBVIOUS
<1>5. list \in Seq(Match) /\ Ascending(list) /\ InMemory(mem, list, 2)
  <2>1. ASSUME NEW i \in 1 .. 3 PROVE list[i].addr = i - 1 /\ list[i] \in Match
    <3>1. PICK x \in Nat : x = i - 1 /\ x + 2 <= Len(old)
      BY <1>1
    <3>2. Cut(old, x, 2) \in Seq(Int)
      BY <3>1, CutIs
    <3> QED BY <1>4, <3>1, <3>2 DEF Match
  <2>2. DOMAIN list = 1 .. 3 /\ list = [i \in 1 .. 3 |-> list[i]]
    BY <1>4
  <2>3. list \in Seq(Match)
    BY <2>1, <2>2
  <2>d. DOMAIN list = 1 .. 3
    BY <2>2
  <2>4. Ascending(list)
    <3>1. ASSUME NEW i \in 1 .. 3, NEW j \in 1 .. 3, i < j PROVE list[i].addr <= list[j].addr
      <4>1. list[i].addr = i - 1 /\ list[j].addr = j - 1
        BY ONLY <2>1, i \in 1 .. 3, j \in 1 .. 3
      <4> QED BY ONLY <4>1, i \in 1 .. 3, j \in 1 .. 3, i < j
    <3> QED BY ONLY <2>d, <3>1 DEF Ascending
  <2>5. InMemory(mem, list, 2)
    <3>1. ASSUME NEW i \in 1 .. 3 PROVE list[i].addr + 2 <= Len(mem)
      <4>1. list[i].addr = i - 1
        BY ONLY <2>1, i \in 1 .. 3
      <4>2. PICK M \in Nat : M = Len(mem) /\ M >= 4
        BY <1>1
      <4> QED BY ONLY <4>1, <4>2, i \in 1 .. 3, M \in Nat
    <3> QED BY ONLY <2>d, <3>1 DEF InMemory
  <2> QED BY <2>3, <2>4, <2>5
<1>6. ListFiltered(mem, list, by)
  <2>1. by.size \in Nat /\ InMemory(mem, list, by.size)
    BY ONLY <1>5, <1>a, size \in Nat
  <2> QED BY ONLY <1>5, <2>1, mem \in Seq(Int), ListsAreFiltered
<1>7. ScanChunk = u * size /\ CompareChunk = v * size
  BY ONLY <1>2, <1>a
<1>8. SnapshotFiltered(mem, old, by)
  BY ONLY <1>1, <1>a, <1>7, old \in Seq(Int), mem \in Seq(Int), size \in Nat, u \in Nat, v \in Nat, SnapshotsAreFiltered
<1>9. DiffNames(mem, old, 2)
  <2>1. DiffNames(mem, old, size)
    BY ONLY <1>1, <1>a, <1>7, old \in Seq(Int), mem \in Seq(Int), size \in Nat, u \in Nat, v \in Nat, DiffsAreNamed
  <2> QED BY ONLY <1>a, <2>1
<1> QED BY <1>1, <1>3, <1>4, <1>6, <1>8, <1>9 DEF FilterKeeps

\* What memtool finds in pieces is what one look finds: SearchesRight, with
\* memories, patterns and numbers of any length and chunks of any size.
THEOREM SearchesAreRight ==
    ASSUME EvenSizes, Given
    PROVE  SearchesRight
<1>1. ASSUME Due("search")
      PROVE  /\ ScanFinds(input.mem, input.pat, IF input.wide THEN Len(input.pat) ELSE 1)
             /\ StructFinds(input.mem, TwoFields(input.pat))
  <2>1. /\ input.mem \in Seq(Int) /\ Readable(input.mem)
        /\ input.pat \in Seq(Int) /\ input.pat # <<>> /\ Len(input.pat) <= ScanChunk + 1
    BY <1>1 DEF Due, Given
  <2>2. /\ ScanFinds(input.mem, input.pat, Len(input.pat)) /\ ScanFinds(input.mem, input.pat, 1)
        /\ StructFinds(input.mem, TwoFields(input.pat))
    BY <2>1, SearchPart
  <2> QED BY <2>2
<1>2. ASSUME Due("filter") PROVE FilterKeeps(input)
  <2>1. /\ input.old \in Seq(Int) /\ Readable(input.old)
        /\ input.mem \in Seq(Int) /\ Len(input.mem) = Len(input.old) /\ Len(input.old) >= 4
    BY <1>2 DEF Due, Given
  <2> QED BY <2>1, FilterPart
<1>3. ASSUME Due("pointer") PROVE ChainsLead(input.mem, input.target, 1, 2)
  <2>1. input.mem \in Seq(Int) /\ input.target \in Nat /\ input.target < Power(2)
    BY <1>3 DEF Due, Given
  <2>2. 1 \in Nat /\ 2 \in Nat /\ 2 > 0
    OBVIOUS
  <2> QED BY <2>1, <2>2, ChainsLeadToTarget
<1>4. ASSUME Due("value") PROVE ValuesRight(input)
  <2>1. input.size \in Nat /\ input.size > 0 /\ input.a \in Int /\ input.b \in Int
    BY <1>4 DEF Due, Given
  <2>2. PICK h \in Nat : Base = 2 * h
    BY DEF EvenSizes
  <2> QED BY <2>1, <2>2, ValuesAreKept
<1> QED BY <1>1, <1>2, <1>3, <1>4 DEF SearchesRight
=============================================================================
