--------------------------- MODULE ShellPoolProofs ---------------------------
(***************************************************************************)
(* Proofs about ShellPool for any number of calls and session ids and for  *)
(* any limits.                                                             *)
(***************************************************************************)
EXTENDS ShellPool, TLAPS

\* A call that has begun has a key, and the reaper is at a shell of the map.
RouteInv == /\ \A i \in Calls : pc[i] # "idle" => key[i] \in Keys
            /\ reaping # NoKey => sessions[reaping] # NoCall

\* A mutex is held exactly by the call that runs a command on the shell.
MutexInv == \A i, s \in Calls : mu[s] = i <=> pc[i] = "exec" /\ got[i] = s

\* A shell that is not in the pool yet is known to nobody else.
Private(s) == pc[s] \in {"idle", "lookup", "spawn", "insert"}
PrivateInv == /\ \A k \in Keys : sessions[k] # NoCall => ~Private(sessions[k])
              /\ \A i \in Calls : got[i] # NoCall => ~Private(got[i])
              /\ \A i \in Calls : victim[i] # NoCall => ~Private(victim[i])

PoolInv == TypeOK /\ RouteInv /\ MutexInv /\ PrivateInv /\ CommandsUndisturbed

-----------------------------------------------------------------------------
\* Nothing is started, locked or handed out at first.
LEMMA InitOK == Init => PoolInv /\ NoOrphanShell
  BY PoolAssumption DEF Init, PoolInv, TypeOK, RouteInv, MutexInv, PrivateInv, Private,
       CommandsUndisturbed, NoOrphanShell, Steps, MaxAge

\* Only a shell whose mutex is free is evicted.
LEMMA EvictsFreeShells ==
    ASSUME NEW m, NEW r \in SUBSET Keys, MakeRoom(m, r), NEW k \in r
    PROVE  m[k] # NoCall /\ mu[m[k]] = NoCall
  BY DEF MakeRoom, Evictable

\* Every step keeps the types.
LEMMA TypeStep ==
    ASSUME TypeOK, RouteInv, [Next]_vars
    PROVE  TypeOK' /\ RouteInv'
<1> USE PoolAssumption DEF TypeOK, RouteInv, Steps, MaxAge, poolVars, reqVars, PoolUnlocked
<1>1. ASSUME NEW i \in Calls, NEW k \in Keys, NEW w \in {"command", "disconnect"}, Begin(i, k, w) PROVE TypeOK' /\ RouteInv'
  BY <1>1 DEF Begin, Goto
<1>2. ASSUME NEW i \in Calls, LookupHit(i) PROVE TypeOK' /\ RouteInv'
  BY <1>2 DEF LookupHit, Goto
<1>3. ASSUME NEW i \in Calls, LookupMiss(i) PROVE TypeOK' /\ RouteInv'
  BY <1>3 DEF LookupMiss, Close, Without, Goto
<1>4. ASSUME NEW i \in Calls, Spawn(i) PROVE TypeOK' /\ RouteInv'
  BY <1>4 DEF Spawn, Goto
<1>5. ASSUME NEW i \in Calls, InsertTheirs(i) PROVE TypeOK' /\ RouteInv'
  BY <1>5 DEF InsertTheirs, Close, Goto
<1>6. ASSUME NEW i \in Calls, InsertOurs(i) PROVE TypeOK' /\ RouteInv'
  BY <1>6 DEF InsertOurs, Close, Without, Goto
<1>7. ASSUME NEW i \in Calls, Start(i) PROVE TypeOK' /\ RouteInv'
  BY <1>7 DEF Start, Goto
<1>8. ASSUME NEW i \in Calls, StartDead(i) PROVE TypeOK' /\ RouteInv'
  BY <1>8 DEF StartDead, Goto
<1>9. ASSUME NEW i \in Calls, Finish(i) PROVE TypeOK' /\ RouteInv'
  BY <1>9 DEF Finish, Goto
<1>10. ASSUME NEW i \in Calls, PipeError(i) PROVE TypeOK' /\ RouteInv'
  BY <1>10 DEF PipeError, Goto
<1>11. ASSUME NEW i \in Calls, Abort(i) PROVE TypeOK' /\ RouteInv'
  BY <1>11 DEF Abort, Close, Goto
<1>12. ASSUME NEW i \in Calls, RemoveMiss(i) PROVE TypeOK' /\ RouteInv'
  BY <1>12 DEF RemoveMiss, Removing, Result, Goto
<1>13. ASSUME NEW i \in Calls, RemoveEntry(i) PROVE TypeOK' /\ RouteInv'
  BY <1>13 DEF RemoveEntry, Removing, Goto
<1>14. ASSUME NEW i \in Calls, RemoveClose(i) PROVE TypeOK' /\ RouteInv'
  BY <1>14 DEF RemoveClose, Close, Result, Goto
<1>15. ASSUME NEW s \in Calls, ShellExit(s) PROVE TypeOK' /\ RouteInv'
  BY <1>15 DEF ShellExit
<1>16. ASSUME NEW k \in Keys, ReapCheck(k) PROVE TypeOK' /\ RouteInv'
  BY <1>16 DEF ReapCheck
<1>17. ASSUME ReapTryLock PROVE TypeOK' /\ RouteInv'
  BY <1>17 DEF ReapTryLock, Close
<1>18. ASSUME Tick PROVE TypeOK' /\ RouteInv'
  BY <1>18 DEF Tick
<1>19. ASSUME UNCHANGED vars PROVE TypeOK' /\ RouteInv'
  BY <1>19 DEF vars
<1> QED
  BY <1>1, <1>2, <1>3, <1>4, <1>5, <1>6, <1>7, <1>8, <1>9, <1>10, <1>11, <1>12, <1>13,
     <1>14, <1>15, <1>16, <1>17, <1>18, <1>19 DEF Next, Handle

\* Every step keeps the mutexes with their commands and the pool's shells known.
LEMMA MutexStep ==
    ASSUME TypeOK, RouteInv, MutexInv, PrivateInv, [Next]_vars, TypeOK'
    PROVE  MutexInv' /\ PrivateInv'
<1> USE PoolAssumption DEF TypeOK, RouteInv, MutexInv, PrivateInv, Private, Steps, poolVars, reqVars
<1>1. ASSUME NEW i \in Calls, NEW k \in Keys, NEW w \in {"command", "disconnect"}, Begin(i, k, w) PROVE MutexInv' /\ PrivateInv'
  BY <1>1 DEF Begin, Goto
<1>2. ASSUME NEW i \in Calls, LookupHit(i) PROVE MutexInv' /\ PrivateInv'
  BY <1>2 DEF LookupHit, Goto
<1>3. ASSUME NEW i \in Calls, LookupMiss(i) PROVE MutexInv' /\ PrivateInv'
  BY <1>3 DEF LookupMiss, Close, Without, Goto
<1>4. ASSUME NEW i \in Calls, Spawn(i) PROVE MutexInv' /\ PrivateInv'
  BY <1>4 DEF Spawn, Goto
<1>5. ASSUME NEW i \in Calls, InsertTheirs(i) PROVE MutexInv' /\ PrivateInv'
  BY <1>5 DEF InsertTheirs, Close, Goto
<1>6. ASSUME NEW i \in Calls, InsertOurs(i) PROVE MutexInv' /\ PrivateInv'
  BY <1>6 DEF InsertOurs, Close, Without, Goto
<1>7. ASSUME NEW i \in Calls, Start(i) PROVE MutexInv' /\ PrivateInv'
  BY <1>7 DEF Start, Goto
<1>8. ASSUME NEW i \in Calls, StartDead(i) PROVE MutexInv' /\ PrivateInv'
  BY <1>8 DEF StartDead, Goto
<1>9. ASSUME NEW i \in Calls, Finish(i) PROVE MutexInv' /\ PrivateInv'
  BY <1>9 DEF Finish, Goto
<1>10. ASSUME NEW i \in Calls, PipeError(i) PROVE MutexInv' /\ PrivateInv'
  BY <1>10 DEF PipeError, Goto
<1>11. ASSUME NEW i \in Calls, Abort(i) PROVE MutexInv' /\ PrivateInv'
  BY <1>11 DEF Abort, Close, Goto
<1>12. ASSUME NEW i \in Calls, RemoveMiss(i) PROVE MutexInv' /\ PrivateInv'
  BY <1>12 DEF RemoveMiss, Removing, Result, Goto
<1>13. ASSUME NEW i \in Calls, RemoveEntry(i) PROVE MutexInv' /\ PrivateInv'
  BY <1>13 DEF RemoveEntry, Removing, Goto
<1>14. ASSUME NEW i \in Calls, RemoveClose(i) PROVE MutexInv' /\ PrivateInv'
  BY <1>14 DEF RemoveClose, Close, Result, Goto
<1>15. ASSUME NEW s \in Calls, ShellExit(s) PROVE MutexInv' /\ PrivateInv'
  BY <1>15 DEF ShellExit
<1>16. ASSUME NEW k \in Keys, ReapCheck(k) PROVE MutexInv' /\ PrivateInv'
  BY <1>16 DEF ReapCheck
<1>17. ASSUME ReapTryLock PROVE MutexInv' /\ PrivateInv'
  BY <1>17 DEF ReapTryLock, Close
<1>18. ASSUME Tick PROVE MutexInv' /\ PrivateInv'
  BY <1>18 DEF Tick
<1>19. ASSUME UNCHANGED vars PROVE MutexInv' /\ PrivateInv'
  BY <1>19 DEF vars
<1> QED
  BY <1>1, <1>2, <1>3, <1>4, <1>5, <1>6, <1>7, <1>8, <1>9, <1>10, <1>11, <1>12, <1>13,
     <1>14, <1>15, <1>16, <1>17, <1>18, <1>19 DEF Next, Handle

\* Every step leaves the shells of running commands alone, except a command's own.
LEMMA UndisturbedStep ==
    ASSUME PoolInv, [Next]_vars, TypeOK', MutexInv'
    PROVE  CommandsUndisturbed'
<1> USE PoolAssumption DEF PoolInv, TypeOK, RouteInv, MutexInv, PrivateInv, Private,
            CommandsUndisturbed, Alive, Steps, poolVars, reqVars
<1>1. ASSUME NEW i \in Calls, NEW k \in Keys, NEW w \in {"command", "disconnect"}, Begin(i, k, w) PROVE CommandsUndisturbed'
  BY <1>1 DEF Begin, Goto
<1>2. ASSUME NEW i \in Calls, LookupHit(i) PROVE CommandsUndisturbed'
  BY <1>2 DEF LookupHit, Goto
<1>3. ASSUME NEW i \in Calls, LookupMiss(i) PROVE CommandsUndisturbed'
  <2> DEFINE m == Without(sessions, {key[i]})
  <2>1. PICK r \in SUBSET Keys : MakeRoom(m, r) /\ Close({m[k] : k \in r})
    BY <1>3 DEF LookupMiss
  <2>2. \A k \in r : m[k] # NoCall /\ mu[m[k]] = NoCall
    BY <2>1, EvictsFreeShells
  <2>3. \A j \in Calls : pc'[j] = "exec" => pc[j] = "exec" /\ got'[j] = got[j]
    BY <1>3 DEF LookupMiss, Goto
  <2>4. \A j \in Calls : pc[j] = "exec" => got[j] \in Calls /\ mu[got[j]] = j
    OBVIOUS
  <2> HIDE DEF m
  <2>5. \A s \in Calls : shell'[s] = "closed" => shell[s] = "closed" \/ mu[s] = NoCall
    BY <2>1, <2>2 DEF Close
  <2> QED BY <2>3, <2>4, <2>5
<1>4. ASSUME NEW i \in Calls, Spawn(i) PROVE CommandsUndisturbed'
  BY <1>4 DEF Spawn, Goto
<1>5. ASSUME NEW i \in Calls, InsertTheirs(i) PROVE CommandsUndisturbed'
  BY <1>5 DEF InsertTheirs, Close, Goto
<1>6. ASSUME NEW i \in Calls, InsertOurs(i) PROVE CommandsUndisturbed'
  <2> DEFINE m == sessions
  <2>1. PICK r \in SUBSET Keys : MakeRoom(m, r) /\ Close({m[k] : k \in r})
    BY <1>6 DEF InsertOurs
  <2>2. \A k \in r : m[k] # NoCall /\ mu[m[k]] = NoCall
    BY <2>1, EvictsFreeShells
  <2>3. \A j \in Calls : pc'[j] = "exec" => pc[j] = "exec" /\ got'[j] = got[j]
    BY <1>6 DEF InsertOurs, Goto
  <2>4. \A j \in Calls : pc[j] = "exec" => got[j] \in Calls /\ mu[got[j]] = j
    OBVIOUS
  <2> HIDE DEF m
  <2>5. \A s \in Calls : shell'[s] = "closed" => shell[s] = "closed" \/ mu[s] = NoCall
    BY <2>1, <2>2 DEF Close
  <2> QED BY <2>3, <2>4, <2>5
<1>7. ASSUME NEW i \in Calls, Start(i) PROVE CommandsUndisturbed'
  BY <1>7 DEF Start, Goto
<1>8. ASSUME NEW i \in Calls, StartDead(i) PROVE CommandsUndisturbed'
  BY <1>8 DEF StartDead, Goto
<1>9. ASSUME NEW i \in Calls, Finish(i) PROVE CommandsUndisturbed'
  BY <1>9 DEF Finish, Goto
<1>10. ASSUME NEW i \in Calls, PipeError(i) PROVE CommandsUndisturbed'
  BY <1>10 DEF PipeError, Goto
<1>11. ASSUME NEW i \in Calls, Abort(i) PROVE CommandsUndisturbed'
  BY <1>11 DEF Abort, Close, Goto
<1>12. ASSUME NEW i \in Calls, RemoveMiss(i) PROVE CommandsUndisturbed'
  BY <1>12 DEF RemoveMiss, Removing, Result, Goto
<1>13. ASSUME NEW i \in Calls, RemoveEntry(i) PROVE CommandsUndisturbed'
  BY <1>13 DEF RemoveEntry, Removing, Goto
<1>14. ASSUME NEW i \in Calls, RemoveClose(i) PROVE CommandsUndisturbed'
  BY <1>14 DEF RemoveClose, Close, Result, Goto
<1>15. ASSUME NEW s \in Calls, ShellExit(s) PROVE CommandsUndisturbed'
  BY <1>15 DEF ShellExit
<1>16. ASSUME NEW k \in Keys, ReapCheck(k) PROVE CommandsUndisturbed'
  BY <1>16 DEF ReapCheck
<1>17. ASSUME ReapTryLock PROVE CommandsUndisturbed'
  BY <1>17 DEF ReapTryLock, Close
<1>18. ASSUME Tick PROVE CommandsUndisturbed'
  BY <1>18 DEF Tick
<1>19. ASSUME UNCHANGED vars PROVE CommandsUndisturbed'
  BY <1>19 DEF vars
<1> QED
  BY <1>1, <1>2, <1>3, <1>4, <1>5, <1>6, <1>7, <1>8, <1>9, <1>10, <1>11, <1>12, <1>13,
     <1>14, <1>15, <1>16, <1>17, <1>18, <1>19 DEF Next, Handle

\* No step loses a shell that runs.
LEMMA OrphanStep ==
    ASSUME TypeOK, RouteInv, NoOrphanShell, [Next]_vars
    PROVE  NoOrphanShell'
<1> USE PoolAssumption DEF TypeOK, RouteInv, NoOrphanShell, Owned, Steps, poolVars, reqVars
<1>1. ASSUME NEW i \in Calls, NEW k \in Keys, NEW w \in {"command", "disconnect"}, Begin(i, k, w) PROVE NoOrphanShell'
  BY <1>1 DEF Begin, Goto
<1>2. ASSUME NEW i \in Calls, LookupHit(i) PROVE NoOrphanShell'
  BY <1>2 DEF LookupHit, Goto
<1>3. ASSUME NEW i \in Calls, LookupMiss(i) PROVE NoOrphanShell'
  <2> DEFINE m == Without(sessions, {key[i]})
  <2>1. PICK r \in SUBSET Keys : sessions' = Without(m, r) /\ Close({m[k] : k \in r})
    BY <1>3 DEF LookupMiss
  <2>2. /\ pc' = [pc EXCEPT ![i] = "spawn"] /\ pc[i] = "lookup" /\ UNCHANGED victim
        /\ sessions[key[i]] # NoCall => shell[sessions[key[i]]] = "closed"
    BY <1>3 DEF LookupMiss, Goto, Alive
  <2> HIDE DEF m
  <2>3. ASSUME NEW s \in Calls, shell'[s] \in {"live", "exited"} PROVE Owned(s)'
    <3>1. shell[s] \in {"live", "exited"} /\ \A k \in r : m[k] # s
      BY <2>1, <2>3 DEF Close
    <3>2. CASE \E k \in Keys : sessions[k] = s
      <4>1. PICK k \in Keys : sessions[k] = s
        BY <3>2
      <4>2. k # key[i] /\ m[k] = s
        BY <2>2, <3>1, <4>1 DEF Without, m
      <4>3. sessions'[k] = s
        BY <2>1, <3>1, <4>2 DEF Without
      <4> QED BY <4>3
    <3>3. CASE ~\E k \in Keys : sessions[k] = s
      BY <2>2, <3>1, <3>3
    <3> QED BY <3>2, <3>3
  <2> QED BY <2>3
<1>4. ASSUME NEW i \in Calls, Spawn(i) PROVE NoOrphanShell'
  BY <1>4 DEF Spawn, Goto
<1>5. ASSUME NEW i \in Calls, InsertTheirs(i) PROVE NoOrphanShell'
  BY <1>5 DEF InsertTheirs, Close, Goto
<1>6. ASSUME NEW i \in Calls, InsertOurs(i) PROVE NoOrphanShell'
  <2>1. PICK r \in SUBSET Keys : /\ sessions' = [Without(sessions, r) EXCEPT ![key[i]] = i]
                                 /\ Close({sessions[k] : k \in r})
    BY <1>6 DEF InsertOurs
  <2>2. /\ pc' = [pc EXCEPT ![i] = "got"] /\ pc[i] = "insert" /\ UNCHANGED victim
        /\ sessions[key[i]] = NoCall
    BY <1>6 DEF InsertOurs, Goto
  <2>3. ASSUME NEW s \in Calls, shell'[s] \in {"live", "exited"} PROVE Owned(s)'
    <3>1. shell[s] \in {"live", "exited"} /\ \A k \in r : sessions[k] # s
      BY <2>1, <2>3 DEF Close
    <3>2. CASE s = i
      BY <2>1, <2>2, <3>2 DEF Without
    <3>3. CASE s # i /\ \E k \in Keys : sessions[k] = s
      <4>1. PICK k \in Keys : sessions[k] = s
        BY <3>3
      <4>2. sessions'[k] = s
        BY <2>1, <2>2, <3>1, <4>1 DEF Without
      <4> QED BY <4>2
    <3>4. CASE s # i /\ ~\E k \in Keys : sessions[k] = s
      BY <2>2, <3>1, <3>4
    <3> QED BY <3>2, <3>3, <3>4
  <2> QED BY <2>3
<1>7. ASSUME NEW i \in Calls, Start(i) PROVE NoOrphanShell'
  BY <1>7 DEF Start, Goto
<1>8. ASSUME NEW i \in Calls, StartDead(i) PROVE NoOrphanShell'
  BY <1>8 DEF StartDead, Goto
<1>9. ASSUME NEW i \in Calls, Finish(i) PROVE NoOrphanShell'
  BY <1>9 DEF Finish, Goto
<1>10. ASSUME NEW i \in Calls, PipeError(i) PROVE NoOrphanShell'
  BY <1>10 DEF PipeError, Goto
<1>11. ASSUME NEW i \in Calls, Abort(i) PROVE NoOrphanShell'
  BY <1>11 DEF Abort, Close, Goto
<1>12. ASSUME NEW i \in Calls, RemoveMiss(i) PROVE NoOrphanShell'
  BY <1>12 DEF RemoveMiss, Removing, Result, Goto
<1>13. ASSUME NEW i \in Calls, RemoveEntry(i) PROVE NoOrphanShell'
  BY <1>13 DEF RemoveEntry, Removing, Goto
<1>14. ASSUME NEW i \in Calls, RemoveClose(i) PROVE NoOrphanShell'
  BY <1>14 DEF RemoveClose, Close, Result, Goto
<1>15. ASSUME NEW s \in Calls, ShellExit(s) PROVE NoOrphanShell'
  BY <1>15 DEF ShellExit
<1>16. ASSUME NEW k \in Keys, ReapCheck(k) PROVE NoOrphanShell'
  BY <1>16 DEF ReapCheck
<1>17. ASSUME ReapTryLock PROVE NoOrphanShell'
  BY <1>17 DEF ReapTryLock, Close
<1>18. ASSUME Tick PROVE NoOrphanShell'
  BY <1>18 DEF Tick
<1>19. ASSUME UNCHANGED vars PROVE NoOrphanShell'
  BY <1>19 DEF vars
<1> QED
  BY <1>1, <1>2, <1>3, <1>4, <1>5, <1>6, <1>7, <1>8, <1>9, <1>10, <1>11, <1>12, <1>13,
     <1>14, <1>15, <1>16, <1>17, <1>18, <1>19 DEF Next, Handle

-----------------------------------------------------------------------------
(***************************************************************************)
(* The inductive invariant: a command's shell is protected by its mutex    *)
(* (MutexInv), and a shell that a call may discard on the double check is  *)
(* known to nobody (PrivateInv).                                           *)
(***************************************************************************)
THEOREM PoolInvariant == Spec => [](PoolInv /\ NoOrphanShell)
<1>1. PoolInv /\ NoOrphanShell /\ [Next]_vars => (PoolInv /\ NoOrphanShell)'
  BY TypeStep, MutexStep, UndisturbedStep, OrphanStep DEF PoolInv
<1> QED BY InitOK, <1>1, PTL DEF Spec

(***************************************************************************)
(* For any number of calls, session ids and limits: no shell process is    *)
(* leaked by getOrCreate, remove, evictOldestLocked and the reaper.        *)
(***************************************************************************)
THEOREM NoShellLeaks == Spec => []NoOrphanShell
<1>1. PoolInv /\ NoOrphanShell => NoOrphanShell
  OBVIOUS
<1> QED BY <1>1, PoolInvariant, PTL

(***************************************************************************)
(* For any number of calls, session ids and limits: a shell is not closed  *)
(* under a running command by anybody but the command's own call, and two  *)
(* commands never run on one shell at a time.                              *)
(***************************************************************************)
THEOREM CommandsAreUndisturbed == Spec => []CommandsUndisturbed
<1>1. PoolInv /\ NoOrphanShell => CommandsUndisturbed
  BY DEF PoolInv
<1> QED BY <1>1, PoolInvariant, PTL

(***************************************************************************)
(* The shells, calls and locks of the pool keep their types: in particular *)
(* no step follows a session key or a shell that is not one.               *)
(***************************************************************************)
THEOREM ShellsTyped == Spec => []TypeOK
<1>1. PoolInv /\ NoOrphanShell => TypeOK
  BY DEF PoolInv
<1> QED BY <1>1, PoolInvariant, PTL
=============================================================================
