---------------------------- MODULE SshPoolProofs ----------------------------
(***************************************************************************)
(* Proofs about SshPool for any number of calls and connection identities  *)
(* and for any limits.                                                     *)
(***************************************************************************)
EXTENDS SshPool, FiniteSetTheorems, TLAPS

\* A call on its way through the pool has a key; so has every client.
Keyed  == {"lookup", "keepalive", "verify", "cleanup", "dial", "handshake",
           "insert", "use", "exec", "killing", "remove"}
KeyInv == \A i \in Calls : pc[i] \in Keyed \/ client[i] # "none" => key[i] \in Keys

\* A client exists only once it is dialed, and is in no map before its insertion.
Undialed == {"idle", "lookup", "keepalive", "verify", "cleanup", "dial", "handshake"}
FreshInv == \A i \in Calls :
               /\ pc[i] \in Undialed => client[i] = "none"
               /\ pc[i] = "insert" => client[i] = "open" /\ \A k \in Keys : sessions[k] # i

\* A job exists only once the call that started it has ended; its goroutine is
\* gone once the job has completed or failed.
JobInv == \A j \in Calls : /\ job[j] # "none" => pc[j] = "ok"
                           /\ j \in runs => job[j] \in {"running", "cancelled"}

SshInv == /\ TypeOK /\ KeyInv /\ FreshInv /\ PoolOwnsClients
          /\ JobInv /\ RunningJobsListed

-----------------------------------------------------------------------------
\* No client and no job exists at first.
LEMMA InitOK == Init => SshInv
  BY SshPoolAssumption DEF Init, SshInv, TypeOK, KeyInv, Keyed, FreshInv, Undialed, PoolOwnsClients,
       Used, JobInv, RunningJobsListed, Steps, PoolOps, JobOps, Final

\* Only sessions that are there are evicted.
LEMMA EvictsSessions ==
    ASSUME NEW m, NEW r \in SUBSET Keys, MakeRoom(m, r), NEW k \in r
    PROVE  m[k] # NoCall
  BY DEF MakeRoom, Oldest, Used

\* Every step keeps the types.
LEMMA TypeStep ==
    ASSUME TypeOK, KeyInv, JobInv, [Next]_vars
    PROVE  TypeOK'
<1> USE SshPoolAssumption DEF TypeOK, KeyInv, Keyed, JobInv, Steps, PoolOps, JobOps, Final,
            poolVars, reqVars, jobVars
<1>1. ASSUME NEW i \in Calls, NEW k \in Keys, NEW w \in PoolOps, Begin(i, k, w) PROVE TypeOK'
  BY <1>1 DEF Begin, PoolOps, Goto
<1>2. ASSUME NEW i \in Calls, NEW j \in Calls, NEW w \in JobOps, BeginJobOp(i, j, w) PROVE TypeOK'
  BY <1>2 DEF BeginJobOp, JobOps, Goto
<1>3. ASSUME NEW i \in Calls, LookupHit(i) PROVE TypeOK'
  BY <1>3 DEF LookupHit, Goto
<1>4. ASSUME NEW i \in Calls, LookupMiss(i) PROVE TypeOK'
  BY <1>4 DEF LookupMiss, Goto, Close, Without
<1>5. ASSUME NEW i \in Calls, Keepalive(i) PROVE TypeOK'
  BY <1>5 DEF Keepalive, Goto
<1>6. ASSUME NEW i \in Calls, Verify(i) PROVE TypeOK'
  BY <1>6 DEF Verify, Goto, Touch
<1>7. ASSUME NEW i \in Calls, Cleanup(i) PROVE TypeOK'
  BY <1>7 DEF Cleanup, Goto, Close, Without
<1>8. ASSUME NEW i \in Calls, Dial(i) PROVE TypeOK'
  BY <1>8 DEF Dial, Goto
<1>25. ASSUME NEW i \in Calls, Handshake(i) PROVE TypeOK'
  BY <1>25 DEF Handshake, Goto
<1>9. ASSUME NEW i \in Calls, InsertTheirs(i) PROVE TypeOK'
  BY <1>9 DEF InsertTheirs, Goto, Close, Touch
<1>10. ASSUME NEW i \in Calls, InsertOurs(i) PROVE TypeOK'
  BY <1>10 DEF InsertOurs, Goto, Close, Touch, Without
<1>11. ASSUME NEW i \in Calls, ExecStart(i) PROVE TypeOK'
  BY <1>11 DEF ExecStart, Goto, Fails
<1>12. ASSUME NEW i \in Calls, ExecDone(i) PROVE TypeOK'
  BY <1>12 DEF ExecDone, Goto, Fails
<1>13. ASSUME NEW i \in Calls, ExecDeadline(i) PROVE TypeOK'
  BY <1>13 DEF ExecDeadline, Goto
<1>14. ASSUME NEW i \in Calls, ExecKilled(i) PROVE TypeOK'
  BY <1>14 DEF ExecKilled, Goto
<1>15. ASSUME NEW i \in Calls, Remove(i) PROVE TypeOK'
  BY <1>15 DEF Remove, Goto, Close, Without, Used
<1>16. ASSUME NEW i \in Calls, JobStart(i) PROVE TypeOK'
  BY <1>16 DEF JobStart, Goto, Expired
<1>17. ASSUME NEW i \in Calls, GetJob(i) PROVE TypeOK'
  BY <1>17 DEF GetJob, Goto, Expired
<1>18. ASSUME NEW i \in Calls, Cancel(i) PROVE TypeOK'
  BY <1>18 DEF Cancel, Goto
<1>19. ASSUME NEW i \in Calls, Snapshot(i) PROVE TypeOK'
  BY <1>19 DEF Snapshot, Goto
<1>20. ASSUME NEW j \in Calls, JobEnd(j) PROVE TypeOK'
  BY <1>20 DEF JobEnd
<1>21. ASSUME NEW s \in Calls, PeerFails(s) PROVE TypeOK'
  BY <1>21 DEF PeerFails
<1>22. ASSUME NEW k \in Keys, Reap(k) PROVE TypeOK'
  BY <1>22 DEF Reap, Close, Without
<1>23. ASSUME Tick PROVE TypeOK'
  BY <1>23 DEF Tick
<1>24. ASSUME UNCHANGED vars PROVE TypeOK'
  BY <1>24 DEF vars
<1> QED
  BY <1>1, <1>2, <1>3, <1>4, <1>5, <1>6, <1>7, <1>8, <1>9, <1>10, <1>11, <1>12,
     <1>13, <1>14, <1>15, <1>16, <1>17, <1>18, <1>19, <1>20, <1>21, <1>22,
     <1>23, <1>24, <1>25 DEF Next, Handle

\* Every step keeps keys with calls and the jobs with their calls and the list.
LEMMA JobStep ==
    ASSUME SshInv, [Next]_vars, TypeOK'
    PROVE  KeyInv' /\ JobInv' /\ RunningJobsListed'
<1> USE SshPoolAssumption DEF SshInv, TypeOK, KeyInv, Keyed, PoolOwnsClients, Used, JobInv, RunningJobsListed,
            Steps, PoolOps, JobOps, Final, poolVars, reqVars, jobVars
<1>1. ASSUME NEW i \in Calls, NEW k \in Keys, NEW w \in PoolOps, Begin(i, k, w) PROVE KeyInv' /\ JobInv' /\ RunningJobsListed'
  BY <1>1 DEF Begin, PoolOps, Goto
<1>2. ASSUME NEW i \in Calls, NEW j \in Calls, NEW w \in JobOps, BeginJobOp(i, j, w) PROVE KeyInv' /\ JobInv' /\ RunningJobsListed'
  BY <1>2 DEF BeginJobOp, JobOps, Goto
<1>3. ASSUME NEW i \in Calls, LookupHit(i) PROVE KeyInv' /\ JobInv' /\ RunningJobsListed'
  BY <1>3 DEF LookupHit, Goto
<1>4. ASSUME NEW i \in Calls, LookupMiss(i) PROVE KeyInv' /\ JobInv' /\ RunningJobsListed'
  BY <1>4 DEF LookupMiss, Goto, Close, Without
<1>5. ASSUME NEW i \in Calls, Keepalive(i) PROVE KeyInv' /\ JobInv' /\ RunningJobsListed'
  BY <1>5 DEF Keepalive, Goto
<1>6. ASSUME NEW i \in Calls, Verify(i) PROVE KeyInv' /\ JobInv' /\ RunningJobsListed'
  BY <1>6 DEF Verify, Goto, Touch
<1>7. ASSUME NEW i \in Calls, Cleanup(i) PROVE KeyInv' /\ JobInv' /\ RunningJobsListed'
  BY <1>7 DEF Cleanup, Goto, Close, Without
<1>8. ASSUME NEW i \in Calls, Dial(i) PROVE KeyInv' /\ JobInv' /\ RunningJobsListed'
  BY <1>8 DEF Dial, Goto
<1>25. ASSUME NEW i \in Calls, Handshake(i) PROVE KeyInv' /\ JobInv' /\ RunningJobsListed'
  BY <1>25 DEF Handshake, Goto
<1>9. ASSUME NEW i \in Calls, InsertTheirs(i) PROVE KeyInv' /\ JobInv' /\ RunningJobsListed'
  BY <1>9 DEF InsertTheirs, Goto, Close, Touch
<1>10. ASSUME NEW i \in Calls, InsertOurs(i) PROVE KeyInv' /\ JobInv' /\ RunningJobsListed'
  BY <1>10 DEF InsertOurs, Goto, Close, Touch, Without
<1>11. ASSUME NEW i \in Calls, ExecStart(i) PROVE KeyInv' /\ JobInv' /\ RunningJobsListed'
  BY <1>11 DEF ExecStart, Goto, Fails
<1>12. ASSUME NEW i \in Calls, ExecDone(i) PROVE KeyInv' /\ JobInv' /\ RunningJobsListed'
  BY <1>12 DEF ExecDone, Goto, Fails
<1>13. ASSUME NEW i \in Calls, ExecDeadline(i) PROVE KeyInv' /\ JobInv' /\ RunningJobsListed'
  BY <1>13 DEF ExecDeadline, Goto
<1>14. ASSUME NEW i \in Calls, ExecKilled(i) PROVE KeyInv' /\ JobInv' /\ RunningJobsListed'
  BY <1>14 DEF ExecKilled, Goto
<1>15. ASSUME NEW i \in Calls, Remove(i) PROVE KeyInv' /\ JobInv' /\ RunningJobsListed'
  BY <1>15 DEF Remove, Goto, Close, Without, Used
<1>16. ASSUME NEW i \in Calls, JobStart(i) PROVE KeyInv' /\ JobInv' /\ RunningJobsListed'
  BY <1>16 DEF JobStart, Goto, Expired
<1>17. ASSUME NEW i \in Calls, GetJob(i) PROVE KeyInv' /\ JobInv' /\ RunningJobsListed'
  BY <1>17 DEF GetJob, Goto, Expired
<1>18. ASSUME NEW i \in Calls, Cancel(i) PROVE KeyInv' /\ JobInv' /\ RunningJobsListed'
  BY <1>18 DEF Cancel, Goto
<1>19. ASSUME NEW i \in Calls, Snapshot(i) PROVE KeyInv' /\ JobInv' /\ RunningJobsListed'
  BY <1>19 DEF Snapshot, Goto
<1>20. ASSUME NEW j \in Calls, JobEnd(j) PROVE KeyInv' /\ JobInv' /\ RunningJobsListed'
  BY <1>20 DEF JobEnd
<1>21. ASSUME NEW s \in Calls, PeerFails(s) PROVE KeyInv' /\ JobInv' /\ RunningJobsListed'
  BY <1>21 DEF PeerFails
<1>22. ASSUME NEW k \in Keys, Reap(k) PROVE KeyInv' /\ JobInv' /\ RunningJobsListed'
  BY <1>22 DEF Reap, Close, Without
<1>23. ASSUME Tick PROVE KeyInv' /\ JobInv' /\ RunningJobsListed'
  BY <1>23 DEF Tick
<1>24. ASSUME UNCHANGED vars PROVE KeyInv' /\ JobInv' /\ RunningJobsListed'
  BY <1>24 DEF vars
<1> QED
  BY <1>1, <1>2, <1>3, <1>4, <1>5, <1>6, <1>7, <1>8, <1>9, <1>10, <1>11, <1>12,
     <1>13, <1>14, <1>15, <1>16, <1>17, <1>18, <1>19, <1>20, <1>21, <1>22,
     <1>23, <1>24, <1>25 DEF Next, Handle

\* Closing the clients of some sessions and deleting those sessions leaves every
\* open client with an owner.
LEMMA DropSessions ==
    ASSUME SshInv, TypeOK', NEW r \in SUBSET Keys, \A k \in r : sessions[k] # NoCall,
           sessions' = Without(sessions, r), Close({sessions[k] : k \in r}),
           UNCHANGED key, \A i \in Calls : /\ pc'[i] = "insert" <=> pc[i] = "insert"
                                           /\ pc'[i] \in Undialed => pc[i] \in Undialed
    PROVE  FreshInv' /\ PoolOwnsClients'
<1> USE SshPoolAssumption DEF SshInv, TypeOK, KeyInv, FreshInv, PoolOwnsClients, Used
<1>1. \A k \in Keys : sessions'[k] = IF k \in r THEN NoCall ELSE sessions[k]
  BY DEF Without
<1>2. \A s \in Calls : client'[s] = IF \E k \in r : sessions[k] = s THEN "closed" ELSE client[s]
  BY DEF Close
<1>3. \A s \in Calls : pc[s] \in Undialed \cup {"insert"} => ~\E k \in r : sessions[k] = s
  OBVIOUS
<1>4. FreshInv'
  BY <1>1, <1>2, <1>3
<1>5. ASSUME NEW s \in Calls, client'[s] = "open" PROVE pc'[s] = "insert" \/ sessions'[key'[s]] = s
  <2>1. client[s] = "open" /\ key[s] \in Keys /\ ~\E k \in r : sessions[k] = s
    BY <1>2, <1>5
  <2> QED BY <1>1, <2>1
<1>6. ASSUME NEW k \in Keys, sessions'[k] # NoCall
      PROVE  client'[sessions'[k]] = "open" /\ key'[sessions'[k]] = k
  <2>1. k \notin r /\ sessions'[k] = sessions[k] /\ sessions[k] \in Calls
    BY <1>1, <1>6
  <2>2. ~\E l \in r : sessions[l] = sessions[k]
    BY <2>1
  <2> QED BY <1>2, <2>1, <2>2
<1> QED BY <1>4, <1>5, <1>6

\* Every step leaves every open client with an owner.
LEMMA OwnerStep ==
    ASSUME SshInv, [Next]_vars, TypeOK', KeyInv'
    PROVE  FreshInv' /\ PoolOwnsClients'
<1> USE SshPoolAssumption DEF SshInv, TypeOK, KeyInv, Keyed, FreshInv, Undialed, PoolOwnsClients, Used,
            JobInv, Steps, poolVars, reqVars, jobVars
<1>1. ASSUME NEW i \in Calls, NEW k \in Keys, NEW w \in PoolOps, Begin(i, k, w) PROVE FreshInv' /\ PoolOwnsClients'
  BY <1>1 DEF Begin, PoolOps, Goto
<1>2. ASSUME NEW i \in Calls, NEW j \in Calls, NEW w \in JobOps, BeginJobOp(i, j, w) PROVE FreshInv' /\ PoolOwnsClients'
  BY <1>2 DEF BeginJobOp, JobOps, Goto
<1>3. ASSUME NEW i \in Calls, LookupHit(i) PROVE FreshInv' /\ PoolOwnsClients'
  BY <1>3 DEF LookupHit, Goto
<1>4. ASSUME NEW i \in Calls, LookupMiss(i) PROVE FreshInv' /\ PoolOwnsClients'
  <2>1. PICK r \in SUBSET Keys : /\ MakeRoom(sessions, r) /\ sessions' = Without(sessions, r)
                                 /\ Close({sessions[k] : k \in r})
    BY <1>4 DEF LookupMiss
  <2>2. \A k \in r : sessions[k] # NoCall
    BY <2>1, EvictsSessions
  <2>3. UNCHANGED key /\ pc[i] = "lookup" /\ pc' = [pc EXCEPT ![i] = "dial"]
    BY <1>4 DEF LookupMiss, Goto
  <2>4. \A j \in Calls : /\ pc'[j] = "insert" <=> pc[j] = "insert"
                         /\ pc'[j] \in Undialed => pc[j] \in Undialed
    BY <2>3
  <2> HIDE DEF SshInv, TypeOK, KeyInv, Keyed, FreshInv, Undialed, PoolOwnsClients, Used,
               JobInv, Steps, poolVars, reqVars, jobVars
  <2> QED BY <2>1, <2>2, <2>3, <2>4, DropSessions
<1>5. ASSUME NEW i \in Calls, Keepalive(i) PROVE FreshInv' /\ PoolOwnsClients'
  BY <1>5 DEF Keepalive, Goto
<1>6. ASSUME NEW i \in Calls, Verify(i) PROVE FreshInv' /\ PoolOwnsClients'
  BY <1>6 DEF Verify, Goto, Touch
<1>7. ASSUME NEW i \in Calls, Cleanup(i) PROVE FreshInv' /\ PoolOwnsClients'
  <2> DEFINE dead == IF sessions[key[i]] = got[i] THEN {key[i]} ELSE {}
             m    == Without(sessions, dead)
  <2>1. PICK r \in SUBSET Keys : /\ MakeRoom(m, r) /\ sessions' = Without(m, r)
                                 /\ Close({sessions[k] : k \in dead \cup r})
    BY <1>7 DEF Cleanup
  <2>2. UNCHANGED key /\ pc[i] = "cleanup" /\ key[i] \in Keys /\ pc' = [pc EXCEPT ![i] = "dial"]
    BY <1>7 DEF Cleanup, Goto
  <2>3. got[i] \in Calls
    BY <2>2
  <2>4. \A k \in r : m[k] # NoCall
    BY <2>1, EvictsSessions
  <2> DEFINE R == dead \cup r
  <2>5. R \in SUBSET Keys /\ \A k \in R : sessions[k] # NoCall
    <3>1. \A k \in dead : k = key[i] /\ sessions[k] = got[i]
      OBVIOUS
    <3>2. \A k \in Keys : m[k] # NoCall => sessions[k] # NoCall
      BY DEF Without
    <3> HIDE DEF dead, m
    <3> QED BY <2>2, <2>3, <2>4, <3>1, <3>2
  <2>6. sessions' = Without(sessions, R) /\ Close({sessions[k] : k \in R})
    BY <2>1 DEF Without
  <2> HIDE DEF R
  <2>7. \A j \in Calls : /\ pc'[j] = "insert" <=> pc[j] = "insert"
                         /\ pc'[j] \in Undialed => pc[j] \in Undialed
    BY <2>2
  <2> HIDE DEF SshInv, TypeOK, KeyInv, Keyed, FreshInv, Undialed, PoolOwnsClients, Used,
               JobInv, Steps, poolVars, reqVars, jobVars
  <2> QED BY <2>2, <2>5, <2>6, <2>7, DropSessions
<1>8. ASSUME NEW i \in Calls, Dial(i) PROVE FreshInv' /\ PoolOwnsClients'
  BY <1>8 DEF Dial, Goto
<1>25. ASSUME NEW i \in Calls, Handshake(i) PROVE FreshInv' /\ PoolOwnsClients'
  BY <1>25 DEF Handshake, Goto
<1>9. ASSUME NEW i \in Calls, InsertTheirs(i) PROVE FreshInv' /\ PoolOwnsClients'
  BY <1>9 DEF InsertTheirs, Goto, Close, Touch
<1>10. ASSUME NEW i \in Calls, InsertOurs(i) PROVE FreshInv' /\ PoolOwnsClients'
  <2>1. PICK r \in SUBSET Keys : /\ MakeRoom(sessions, r)
                                 /\ sessions' = [Without(sessions, r) EXCEPT ![key[i]] = i]
                                 /\ Close({sessions[k] : k \in r})
    BY <1>10 DEF InsertOurs
  <2>2. \A k \in r : sessions[k] # NoCall
    BY <2>1, EvictsSessions
  <2>3. UNCHANGED key /\ pc[i] = "insert" /\ sessions[key[i]] = NoCall /\ pc' = [pc EXCEPT ![i] = "use"]
    BY <1>10 DEF InsertOurs, Goto
  <2>4. \A k \in Keys : sessions'[k] = IF k = key[i] THEN i ELSE IF k \in r THEN NoCall ELSE sessions[k]
    BY <2>1, <2>3 DEF Without
  <2>5. \A s \in Calls : client'[s] = IF \E k \in r : sessions[k] = s THEN "closed" ELSE client[s]
    BY <2>1 DEF Close
  <2>6. \A s \in Calls : pc[s] \in Undialed \cup {"insert"} => ~\E k \in r : sessions[k] = s
    BY <2>2
  <2>7. FreshInv'
    BY <2>3, <2>4, <2>5, <2>6
  <2>8. ASSUME NEW s \in Calls, client'[s] = "open" PROVE pc'[s] = "insert" \/ sessions'[key'[s]] = s
    BY <2>3, <2>4, <2>5, <2>8
  <2>9. ASSUME NEW k \in Keys, sessions'[k] # NoCall
        PROVE  client'[sessions'[k]] = "open" /\ key'[sessions'[k]] = k
    <3>1. CASE k = key[i]
      BY <2>3, <2>4, <2>5, <2>6, <3>1
    <3>2. CASE k # key[i]
      <4>1. k \notin r /\ sessions'[k] = sessions[k] /\ sessions[k] \in Calls
        BY <2>4, <2>9, <3>2
      <4>2. ~\E l \in r : sessions[l] = sessions[k]
        BY <4>1
      <4> QED BY <2>3, <2>5, <4>1, <4>2
    <3> QED BY <3>1, <3>2
  <2> QED BY <2>7, <2>8, <2>9
<1>11. ASSUME NEW i \in Calls, ExecStart(i) PROVE FreshInv' /\ PoolOwnsClients'
  BY <1>11 DEF ExecStart, Goto, Fails
<1>12. ASSUME NEW i \in Calls, ExecDone(i) PROVE FreshInv' /\ PoolOwnsClients'
  BY <1>12 DEF ExecDone, Goto, Fails
<1>13. ASSUME NEW i \in Calls, ExecDeadline(i) PROVE FreshInv' /\ PoolOwnsClients'
  BY <1>13 DEF ExecDeadline, Goto
<1>14. ASSUME NEW i \in Calls, ExecKilled(i) PROVE FreshInv' /\ PoolOwnsClients'
  BY <1>14 DEF ExecKilled, Goto
<1>15. ASSUME NEW i \in Calls, Remove(i) PROVE FreshInv' /\ PoolOwnsClients'
  <2> DEFINE r == {key[i]} \cap Used(sessions)
  <2>1. sessions' = Without(sessions, r) /\ Close({sessions[k] : k \in r})
    BY <1>15 DEF Remove
  <2>2. r \in SUBSET Keys /\ \A k \in r : sessions[k] # NoCall
    OBVIOUS
  <2>3. UNCHANGED key /\ pc[i] = "remove" /\ pc' = [pc EXCEPT ![i] = IF wants[i] = "disconnect" THEN "ok" ELSE "error"]
    BY <1>15 DEF Remove, Goto
  <2> HIDE DEF r
  <2>4. \A j \in Calls : /\ pc'[j] = "insert" <=> pc[j] = "insert"
                         /\ pc'[j] \in Undialed => pc[j] \in Undialed
    BY <2>3
  <2> HIDE DEF SshInv, TypeOK, KeyInv, Keyed, FreshInv, Undialed, PoolOwnsClients, Used,
               JobInv, Steps, poolVars, reqVars, jobVars
  <2> QED BY <2>1, <2>2, <2>3, <2>4, DropSessions
<1>16. ASSUME NEW i \in Calls, JobStart(i) PROVE FreshInv' /\ PoolOwnsClients'
  BY <1>16 DEF JobStart, Goto, Expired
<1>17. ASSUME NEW i \in Calls, GetJob(i) PROVE FreshInv' /\ PoolOwnsClients'
  BY <1>17 DEF GetJob, Goto, Expired
<1>18. ASSUME NEW i \in Calls, Cancel(i) PROVE FreshInv' /\ PoolOwnsClients'
  BY <1>18 DEF Cancel, Goto
<1>19. ASSUME NEW i \in Calls, Snapshot(i) PROVE FreshInv' /\ PoolOwnsClients'
  BY <1>19 DEF Snapshot, Goto
<1>20. ASSUME NEW j \in Calls, JobEnd(j) PROVE FreshInv' /\ PoolOwnsClients'
  BY <1>20 DEF JobEnd
<1>21. ASSUME NEW s \in Calls, PeerFails(s) PROVE FreshInv' /\ PoolOwnsClients'
  BY <1>21 DEF PeerFails
<1>22. ASSUME NEW k \in Keys, Reap(k) PROVE FreshInv' /\ PoolOwnsClients'
  <2> DEFINE R == {k}
  <2>1. sessions' = Without(sessions, R) /\ Close({sessions[l] : l \in R})
    BY <1>22 DEF Reap, Close
  <2>2. R \in SUBSET Keys /\ \A l \in R : sessions[l] # NoCall
    BY <1>22 DEF Reap
  <2>3. UNCHANGED <<key, pc>>
    BY <1>22 DEF Reap
  <2> HIDE DEF R
  <2> HIDE DEF SshInv, TypeOK, KeyInv, Keyed, FreshInv, Undialed, PoolOwnsClients, Used,
               JobInv, Steps, poolVars, reqVars, jobVars
  <2> QED BY <2>1, <2>2, <2>3, DropSessions
<1>23. ASSUME Tick PROVE FreshInv' /\ PoolOwnsClients'
  BY <1>23 DEF Tick
<1>24. ASSUME UNCHANGED vars PROVE FreshInv' /\ PoolOwnsClients'
  BY <1>24 DEF vars
<1> QED
  BY <1>1, <1>2, <1>3, <1>4, <1>5, <1>6, <1>7, <1>8, <1>9, <1>10, <1>11, <1>12,
     <1>13, <1>14, <1>15, <1>16, <1>17, <1>18, <1>19, <1>20, <1>21, <1>22,
     <1>23, <1>24, <1>25 DEF Next, Handle

-----------------------------------------------------------------------------
(***************************************************************************)
(* The inductive invariant: a client that is not inserted yet is known to  *)
(* its call only (FreshInv), every client keeps the key it was dialed for  *)
(* (KeyInv), and a job belongs to a call that has ended (JobInv).          *)
(***************************************************************************)
THEOREM SshInvariant == Spec => []SshInv
<1>1. SshInv /\ [Next]_vars => SshInv'
  BY TypeStep, JobStep, OwnerStep DEF SshInv
<1> QED BY InitOK, <1>1, PTL DEF Spec

(***************************************************************************)
(* For any number of calls, identities and limits: the client getOrCreate  *)
(* returns is open and is one of the identity that was asked for.          *)
(***************************************************************************)
THEOREM OpenClientsGiven == Spec => GivesOpenClients
<1> DEFINE A == \A i \in Calls : pc'[i] = "use" /\ pc[i] # "use"
                   => client'[got'[i]] = "open" /\ key[got'[i]] = key[i]
<1>1. SshInv /\ [Next]_vars /\ SshInv' => [A]_vars
  <2> SUFFICES ASSUME SshInv, SshInv', Next, NEW i \in Calls, pc'[i] = "use", pc[i] # "use"
               PROVE  client'[got'[i]] = "open" /\ key[got'[i]] = key[i]
    OBVIOUS
  <2> USE SshPoolAssumption DEF SshInv, TypeOK, KeyInv, Keyed, FreshInv, PoolOwnsClients, Used
  <2>1. CASE Verify(i)
    BY <2>1 DEF Verify, Goto
  <2>2. CASE InsertTheirs(i)
    BY <2>2 DEF InsertTheirs, Close, Goto
  <2>3. CASE InsertOurs(i)
    <3>1. sessions'[key[i]] = i /\ got'[i] = i
      <4>1. PICK r \in SUBSET Keys : sessions' = [Without(sessions, r) EXCEPT ![key[i]] = i]
        BY <2>3 DEF InsertOurs
      <4>2. key[i] \in Keys /\ pc[i] = "insert" /\ got'[i] = i
        BY <2>3 DEF InsertOurs
      <4> QED BY <4>1, <4>2 DEF Without
    <3>2. key[i] \in Keys
      BY <2>3 DEF InsertOurs
    <3> QED BY <3>1, <3>2
  <2>4. ASSUME NEW j \in Calls, j # i PROVE ~Handle(j)
    BY <2>4 DEF Handle, LookupHit, LookupMiss, Keepalive, Verify, Cleanup, Dial, Handshake, InsertTheirs, InsertOurs,
           ExecStart, ExecDone, ExecDeadline, ExecKilled, Fails, Remove, JobStart, GetJob, Cancel, Snapshot, Goto
  <2>5. Handle(i)
    <3>1. ASSUME NEW j \in Calls, NEW k \in Keys, NEW w \in PoolOps PROVE ~Begin(j, k, w)
      BY DEF Begin, Goto
    <3>2. ASSUME NEW j \in Calls, NEW l \in Calls, NEW w \in JobOps PROVE ~BeginJobOp(j, l, w)
      BY DEF BeginJobOp, Goto
    <3>3. ASSUME NEW j \in Calls PROVE ~JobEnd(j) /\ ~PeerFails(j)
      BY DEF JobEnd, PeerFails
    <3>4. ~Tick /\ \A k \in Keys : ~Reap(k)
      BY DEF Reap, Tick
    <3> QED BY <2>4, <3>1, <3>2, <3>3, <3>4 DEF Next
  <2>6. Verify(i) \/ InsertTheirs(i) \/ InsertOurs(i)
    BY <2>5 DEF Handle, LookupHit, LookupMiss, Keepalive, Cleanup, Dial, Handshake,
           ExecStart, ExecDone, ExecDeadline, ExecKilled, Fails, Remove, JobStart, GetJob, Cancel, Snapshot, Goto
  <2> QED BY <2>1, <2>2, <2>3, <2>6
<1> QED BY <1>1, SshInvariant, PTL DEF Spec, GivesOpenClients

(***************************************************************************)
(* For any number of calls and jobs: a job that has ended or was cancelled *)
(* keeps its status, whichever of cancel() and its goroutine comes first.  *)
(***************************************************************************)
THEOREM JobStatusIsFinal == Spec => JobStatusFinal
<1> DEFINE A == \A j \in Calls : job[j] \in Final => job'[j] = job[j]
<1>1. SshInv /\ [Next]_vars => [A]_vars
  <2> SUFFICES ASSUME SshInv, Next PROVE A
    OBVIOUS
  <2> USE DEF SshInv, TypeOK, JobInv, Final, jobVars
  <2>1. ASSUME NEW i \in Calls, JobStart(i) PROVE A
    BY <2>1 DEF JobStart
  <2>2. ASSUME NEW i \in Calls, JobEnd(i) PROVE A
    BY <2>2 DEF JobEnd
  <2>3. ASSUME NEW i \in Calls, Cancel(i) PROVE A
    BY <2>3 DEF Cancel
  <2>4. \/ UNCHANGED job
        \/ \E i \in Calls : JobStart(i) \/ JobEnd(i) \/ Cancel(i)
    BY DEF Next, Handle, Begin, BeginJobOp, LookupHit, LookupMiss, Keepalive, Verify, Cleanup, Dial, Handshake,
           InsertTheirs, InsertOurs, ExecStart, ExecDone, ExecDeadline, ExecKilled, Remove,
           GetJob, Snapshot, PeerFails, Reap, Tick
  <2> QED BY <2>1, <2>2, <2>3, <2>4
<1> QED BY <1>1, SshInvariant, PTL DEF Spec, JobStatusFinal

(***************************************************************************)
(* For any number of calls, identities and limits, however jobs, their     *)
(* cancellation and the pruning of the list interleave: a running job can  *)
(* be found by its id, and every open connection by its identity.          *)
(***************************************************************************)
THEOREM NothingIsForgotten == Spec => []NothingForgotten
<1>1. SshInv => NothingForgotten
  BY DEF SshInv, NothingForgotten
<1> QED BY <1>1, SshInvariant, PTL

\* The map is finite and within its limit.
Bounded == IsFiniteSet(Used(sessions)) /\ Cardinality(Used(sessions)) <= MaxSessions

\* Only an insertion adds a session, after it has made room for it.
LEMMA BoundStep == ASSUME SshInv, Bounded, [Next]_vars PROVE Bounded'
<1> USE DEF poolVars, reqVars, jobVars
<1>1. ASSUME Used(sessions)' \subseteq Used(sessions) PROVE Bounded'
  <2>1. IsFiniteSet(Used(sessions)') /\ Cardinality(Used(sessions)') <= Cardinality(Used(sessions))
    BY <1>1, FS_Subset DEF Bounded
  <2>2. Cardinality(Used(sessions)') \in Nat /\ Cardinality(Used(sessions)) \in Nat
    BY <2>1, FS_CardinalityType DEF Bounded
  <2> QED BY <2>1, <2>2, SshPoolAssumption DEF Bounded
<1>2. ASSUME UNCHANGED sessions PROVE Bounded'
  BY <1>1, <1>2 DEF Used
<1>3. ASSUME NEW r, sessions' = Without(sessions, r) PROVE Bounded'
  <2>1. Used(sessions)' \subseteq Used(sessions)
    BY <1>3 DEF Used, Without
  <2> QED BY <1>1, <2>1
<1>4. ASSUME NEW i \in Calls, InsertOurs(i) PROVE Bounded'
  <2>1. PICK r \in SUBSET Keys : /\ MakeRoom(sessions, r)
                                 /\ sessions' = [Without(sessions, r) EXCEPT ![key[i]] = i]
    BY <1>4 DEF InsertOurs
  <2>2. key[i] \in Keys /\ i # NoCall /\ key[i] \notin Used(sessions)
    BY <1>4, SshPoolAssumption DEF InsertOurs, SshInv, KeyInv, Keyed, Used
  <2> DEFINE U == Used(sessions)
             V == U \ r
  <2>3. Used(sessions)' = V \cup {key[i]}
    BY <2>1, <2>2 DEF Used, Without
  <2>4. IsFiniteSet(V) /\ Cardinality(V) < MaxSessions
    <3>1. CASE Cardinality(U) < MaxSessions
      <4>1. V = U
        BY <2>1, <3>1 DEF MakeRoom
      <4> QED BY <3>1, <4>1 DEF Bounded
    <3>2. CASE ~(Cardinality(U) < MaxSessions)
      <4>1. PICK k \in U : r = {k}
        BY <2>1, <3>2 DEF MakeRoom, Oldest
      <4>2. V = U \ {k} /\ IsFiniteSet(U)
        BY <4>1 DEF Bounded
      <4>3. IsFiniteSet(V) /\ Cardinality(V) = Cardinality(U) - 1
        BY <4>1, <4>2, FS_RemoveElement
      <4>4. Cardinality(U) \in Nat /\ Cardinality(U) <= MaxSessions
        BY <4>2, FS_CardinalityType DEF Bounded
      <4> QED BY <4>3, <4>4, SshPoolAssumption
    <3> QED BY <3>1, <3>2
  <2> HIDE DEF V
  <2>5. IsFiniteSet(V \cup {key[i]}) /\ Cardinality(V \cup {key[i]}) <= Cardinality(V) + 1
    <3>1. Cardinality(V) \in Nat
      BY <2>4, FS_CardinalityType
    <3>2. IsFiniteSet(V \cup {key[i]})
      BY <2>4, FS_AddElement
    <3>3. Cardinality(V \cup {key[i]}) = IF key[i] \in V THEN Cardinality(V) ELSE Cardinality(V) + 1
      BY <2>4, FS_AddElement, Zenon
    <3> QED BY <3>1, <3>2, <3>3
  <2>6. Cardinality(V) \in Nat /\ Cardinality(V \cup {key[i]}) \in Nat
    BY <2>4, <2>5, FS_CardinalityType
  <2>7. Cardinality(V \cup {key[i]}) <= MaxSessions
    BY <2>4, <2>5, <2>6, SshPoolAssumption
  <2> QED BY <2>3, <2>5, <2>7, Zenon DEF Bounded
<1>5. ASSUME NEW i \in Calls, LookupMiss(i) PROVE Bounded'
  <2>1. PICK r : sessions' = Without(sessions, r)
    BY <1>5 DEF LookupMiss
  <2> QED BY <1>3, <2>1
<1>6. ASSUME NEW i \in Calls, Cleanup(i) PROVE Bounded'
  <2>1. PICK d, r : sessions' = Without(Without(sessions, d), r)
    BY <1>6 DEF Cleanup
  <2>2. sessions' = Without(sessions, d \cup r)
    BY <2>1 DEF Without
  <2> QED BY <1>3, <2>2
<1>7. ASSUME NEW i \in Calls, Remove(i) PROVE Bounded'
  <2>1. PICK r : sessions' = Without(sessions, r)
    BY <1>7 DEF Remove
  <2> QED BY <1>3, <2>1
<1>8. ASSUME NEW k \in Keys, Reap(k) PROVE Bounded'
  <2>1. PICK r : sessions' = Without(sessions, r)
    BY <1>8 DEF Reap
  <2> QED BY <1>3, <2>1
<1>9. \/ UNCHANGED sessions
      \/ \E i \in Calls : InsertOurs(i) \/ LookupMiss(i) \/ Cleanup(i) \/ Remove(i)
      \/ \E k \in Keys : Reap(k)
  BY DEF Next, Handle, Begin, BeginJobOp, LookupHit, Keepalive, Verify, Dial, Handshake, InsertTheirs,
         ExecStart, ExecDone, ExecDeadline, ExecKilled, JobStart, GetJob, Cancel, Snapshot,
         JobEnd, PeerFails, Tick, vars
<1> QED BY <1>2, <1>4, <1>5, <1>6, <1>7, <1>8, <1>9

(***************************************************************************)
(* The requests, sessions, clients and jobs of the ssh tool keep their     *)
(* types: in particular no step follows a client or a job that is not one. *)
(***************************************************************************)
THEOREM SshTyped == Spec => []TypeOK
<1>1. SshInv => TypeOK
  BY DEF SshInv
<1> QED BY <1>1, SshInvariant, PTL

(***************************************************************************)
(* For any limit: the pool never holds more than maxSessions, although     *)
(* getOrCreate makes room before it dials, with the lock released, and     *)
(* others insert meanwhile.                                                *)
(***************************************************************************)
THEOREM SessionsAreBounded == Spec => []WithinMaxSessions
<1>1. Init => Bounded
  <2> SUFFICES ASSUME Init PROVE Bounded
    OBVIOUS
  <2>1. Used(sessions) = {}
    BY DEF Init, Used
  <2>2. IsFiniteSet({}) /\ Cardinality({}) = 0
    BY FS_EmptySet
  <2>3. IsFiniteSet(Used(sessions)) /\ Cardinality(Used(sessions)) = 0
    BY <2>1, <2>2, Zenon
  <2> QED BY <2>3, SshPoolAssumption DEF Bounded
<1>2. SshInv /\ Bounded /\ [Next]_vars => Bounded'
  BY BoundStep
<1>3. Bounded => WithinMaxSessions
  BY DEF Bounded, WithinMaxSessions
<1> QED BY <1>1, <1>2, <1>3, SshInvariant, PTL DEF Spec
=============================================================================
