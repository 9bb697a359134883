------------------------------- MODULE SshPool -------------------------------
(***************************************************************************)
(* The SSH connections of the ssh tool (tools/ssh): a pool with one client *)
(* per connection identity, the commands and background jobs that run on   *)
(* the clients, and a reaper.                                              *)
(*                                                                         *)
(* A call runs Handle.  p.mu, the lock of sshJobs and job.mu are held only *)
(* within one step; network requests (keepalive, dial, a new session, the  *)
(* command) are made with no lock held and are steps of their own.  A call *)
(* dials at most one client and starts at most one job, named after it.    *)
(***************************************************************************)
EXTENDS Naturals, FiniteSets

CONSTANTS Calls,       \* tool calls, the clients they dial, the jobs they start
          Keys,        \* connection identities (sessionKey)
          NoCall, NoKey,
          MaxSessions, \* maxSessions (20)
          IdleTimeout, \* defaultIdleTimeout (30 min), in ticks of the model
          Retention,   \* sshJobRetention (1 h), in ticks of the model
          MaxFaults    \* bound: peers that go silent or down

ASSUME SshPoolAssumption ==
    /\ MaxSessions \in Nat \ {0} /\ IdleTimeout \in Nat /\ Retention \in Nat
    /\ MaxFaults \in Nat /\ NoCall \notin Calls /\ NoKey \notin Keys

VARIABLES
    sessions, \* sessions[k]: the client p.sessions maps k to, or NoCall
    client,   \* none, open, or closed by the pool
    peer,     \* the other end: up, silent (half-open connection) or down
    idle,     \* idle[s]: time since the entry's lastUsed, capped
    pc, key, wants, \* where a call is, its identity, its operation
    got,      \* the client getOrCreate is probing for the call or gave it
    job,      \* job[j]: none, running, cancelled, completed or failed
    runs,     \* jobs whose goroutine is in session.Run
    age,      \* age[j]: time since finishedAt (not zero once job[j] # running)
    items,    \* the jobs in sshJobs.items
    jid,      \* the job a status, tail or cancel is about
    faults    \* peers that failed so far

poolVars == <<sessions, client, idle>>
reqVars  == <<key, wants, jid>>
jobVars  == <<job, runs, age, items>>
vars     == <<poolVars, peer, pc, reqVars, got, jobVars, faults>>

Steps    == {"idle", "lookup", "keepalive", "verify", "cleanup", "dial", "handshake",
             "insert", "use", "exec", "killing", "remove", "getjob", "cancel", "snapshot",
             "ok", "error"}
Ended    == {"ok", "error"}
PoolOps  == {"execute", "start", "disconnect"}
JobOps   == {"status", "cancel"}   \* tail is a status that prints more
Final    == {"cancelled", "completed", "failed"}

TypeOK ==
    /\ sessions \in [Keys -> Calls \cup {NoCall}]
    /\ client \in [Calls -> {"none", "open", "closed"}]
    /\ peer \in [Calls -> {"up", "silent", "down"}]
    /\ idle \in [Calls -> 0 .. IdleTimeout + 1]
    /\ pc \in [Calls -> Steps]
    /\ key \in [Calls -> Keys \cup {NoKey}]
    /\ wants \in [Calls -> PoolOps \cup JobOps]
    /\ got \in [Calls -> Calls \cup {NoCall}]
    /\ job \in [Calls -> {"none", "running"} \cup Final]
    /\ runs \in SUBSET Calls
    /\ age \in [Calls -> 0 .. Retention + 1]
    /\ items \in SUBSET Calls
    /\ jid \in [Calls -> Calls \cup {NoCall}]
    /\ faults \in 0 .. MaxFaults
    /\ \A i \in Calls :
          /\ pc[i] \in {"keepalive", "verify", "cleanup", "use", "exec", "killing"} => got[i] \in Calls
          /\ pc[i] \in {"getjob", "cancel", "snapshot"} => jid[i] \in Calls
          /\ i \in runs => got[i] \in Calls

Init ==
    /\ sessions = [k \in Keys |-> NoCall]
    /\ client = [s \in Calls |-> "none"]
    /\ peer = [s \in Calls |-> "up"]
    /\ idle = [s \in Calls |-> 0]
    /\ pc = [i \in Calls |-> "idle"]
    /\ key = [i \in Calls |-> NoKey]
    /\ wants = [i \in Calls |-> "execute"]
    /\ got = [i \in Calls |-> NoCall]
    /\ job = [j \in Calls |-> "none"]
    /\ runs = {}
    /\ age = [j \in Calls |-> 0]
    /\ items = {}
    /\ jid = [i \in Calls |-> NoCall]
    /\ faults = 0

Goto(i, step) == pc' = [pc EXCEPT ![i] = step]
\* A request on client s gets an answer; it fails; otherwise it blocks.
Answers(s)    == client[s] = "open" /\ peer[s] = "up"
Broken(s)     == client[s] = "closed" \/ peer[s] = "down"

-----------------------------------------------------------------------------
(***************************************************************************)
(* The map of sessions                                                     *)
(***************************************************************************)
Used(m)       == {k \in Keys : m[k] # NoCall}
Without(m, r) == [k \in Keys |-> IF k \in r THEN NoCall ELSE m[k]]
\* sessionEntry.close()
Close(S)      == client' = [s \in Calls |-> IF s \in S THEN "closed" ELSE client[s]]
Touch(s)      == idle' = [idle EXCEPT ![s] = 0]

\* evictOldestLocked: a least recently used session, in use or not.
Oldest(m) == {k \in Used(m) : \A j \in Used(m) : idle[m[j]] <= idle[m[k]]}

\* Mutant of MakeRoom: one session too many is allowed.
MakeRoom_OffByOne(m, r) == IF Cardinality(Used(m)) <= MaxSessions
                           THEN r = {} ELSE \E k \in Oldest(m) : r = {k}

\* The keys r that go to make room in m for one more session.
MakeRoom(m, r) == IF Cardinality(Used(m)) < MaxSessions
                  THEN r = {} ELSE \E k \in Oldest(m) : r = {k}

-----------------------------------------------------------------------------
(***************************************************************************)
(* Handle for execute, start and disconnect; getOrCreate                   *)
(***************************************************************************)
Begin(i, k, w) ==
    /\ pc[i] = "idle"
    /\ key' = [key EXCEPT ![i] = k]
    /\ wants' = [wants EXCEPT ![i] = w]
    /\ Goto(i, IF w = "disconnect" THEN "remove" ELSE "lookup")
    /\ UNCHANGED <<poolVars, peer, jid, got, jobVars, faults>>

LookupHit(i) ==
    /\ pc[i] = "lookup"
    /\ sessions[key[i]] # NoCall
    /\ got' = [got EXCEPT ![i] = sessions[key[i]]]
    /\ Goto(i, "keepalive")
    /\ UNCHANGED <<poolVars, peer, reqVars, jobVars, faults>>

LookupMiss(i) ==
    /\ pc[i] = "lookup"
    /\ sessions[key[i]] = NoCall
    /\ \E r \in SUBSET Keys : /\ MakeRoom(sessions, r)
                              /\ sessions' = Without(sessions, r)
                              /\ Close({sessions[k] : k \in r})
    /\ Goto(i, "dial")
    /\ UNCHANGED <<idle, peer, reqVars, got, jobVars, faults>>

\* client.SendRequest("keepalive@openssh.com"), with no lock and no deadline.
Keepalive(i) ==
    /\ pc[i] = "keepalive"
    /\ \/ Answers(got[i]) /\ Goto(i, "verify")
       \/ Broken(got[i]) /\ Goto(i, "cleanup")
    /\ UNCHANGED <<poolVars, peer, reqVars, got, jobVars, faults>>

\* Mutant of Verify: the entry is not compared with the probed client.
Verify_NoRecheck(i) ==
    /\ pc[i] = "verify"
    /\ Touch(got[i])
    /\ Goto(i, "use")
    /\ UNCHANGED <<sessions, client, peer, reqVars, got, jobVars, faults>>

\* The client is returned only if it is still the one in the map.
Verify(i) ==
    /\ pc[i] = "verify"
    /\ \/ sessions[key[i]] = got[i] /\ Touch(got[i]) /\ Goto(i, "use")
       \/ sessions[key[i]] # got[i] /\ Goto(i, "cleanup") /\ UNCHANGED idle
    /\ UNCHANGED <<sessions, client, peer, reqVars, got, jobVars, faults>>

\* Drop the dead client, unless the entry has been replaced; make room.
Cleanup(i) ==
    /\ pc[i] = "cleanup"
    /\ LET dead == IF sessions[key[i]] = got[i] THEN {key[i]} ELSE {}
           m    == Without(sessions, dead)
       IN  \E r \in SUBSET Keys : /\ MakeRoom(m, r)
                                  /\ sessions' = Without(m, r)
                                  /\ Close({sessions[k] : k \in dead \cup r})
    /\ got' = [got EXCEPT ![i] = NoCall]
    /\ Goto(i, "dial")
    /\ UNCHANGED <<idle, peer, reqVars, jobVars, faults>>

\* The TCP connection to the target or its jump host, within dialTimeout.
Dial(i) ==
    /\ pc[i] = "dial"
    /\ Goto(i, "handshake") \/ Goto(i, "error")
    /\ UNCHANGED <<poolVars, peer, reqVars, got, jobVars, faults>>

\* The handshake, and with a jump host its handshake and the tunnel before it:
\* they have no deadline, so a peer that goes silent holds the call.
Handshake(i) ==
    /\ pc[i] = "handshake"
    /\ \/ peer[i] = "up" /\ client' = [client EXCEPT ![i] = "open"] /\ Goto(i, "insert")
       \/ peer[i] # "silent" /\ Goto(i, "error") /\ UNCHANGED client
    /\ UNCHANGED <<sessions, idle, peer, reqVars, got, jobVars, faults>>

\* Mutant of InsertTheirs: our connection is forgotten, not closed.
InsertTheirs_KeepsOurs(i) ==
    /\ pc[i] = "insert"
    /\ sessions[key[i]] # NoCall
    /\ Touch(sessions[key[i]])
    /\ got' = [got EXCEPT ![i] = sessions[key[i]]]
    /\ Goto(i, "use")
    /\ UNCHANGED <<sessions, client, peer, reqVars, jobVars, faults>>

\* Another call won the race: use its client, unprobed, and discard ours.
InsertTheirs(i) ==
    /\ pc[i] = "insert"
    /\ sessions[key[i]] # NoCall
    /\ Close({i})
    /\ Touch(sessions[key[i]])
    /\ got' = [got EXCEPT ![i] = sessions[key[i]]]
    /\ Goto(i, "use")
    /\ UNCHANGED <<sessions, peer, reqVars, jobVars, faults>>

InsertOurs(i) ==
    /\ pc[i] = "insert"
    /\ sessions[key[i]] = NoCall
    /\ \E r \in SUBSET Keys : /\ MakeRoom(sessions, r)
                              /\ sessions' = [Without(sessions, r) EXCEPT ![key[i]] = i]
                              /\ Close({sessions[k] : k \in r})
    /\ Touch(i)
    /\ got' = [got EXCEPT ![i] = i]
    /\ Goto(i, "use")
    /\ UNCHANGED <<peer, reqVars, jobVars, faults>>

-----------------------------------------------------------------------------
(***************************************************************************)
(* executeCommand, and the pool.remove(key) that may follow it             *)
(***************************************************************************)

\* A request fails; isConnectionError takes the error for one of the connection,
\* or, since it goes by the text of the message, does not.
Fails(i) == Goto(i, "remove") \/ Goto(i, "error")

\* NewSession, which the peer may reject, and session.Run in a goroutine.
ExecStart(i) ==
    /\ pc[i] = "use" /\ wants[i] = "execute"
    /\ \/ Answers(got[i]) /\ Goto(i, "exec")
       \/ (Answers(got[i]) \/ Broken(got[i])) /\ Fails(i)
    /\ UNCHANGED <<poolVars, peer, reqVars, got, jobVars, faults>>

\* Run ends, with the command's exit status or with another error.
ExecDone(i) ==
    /\ pc[i] = "exec"
    /\ \/ Answers(got[i]) /\ Goto(i, "ok")
       \/ (Answers(got[i]) \/ Broken(got[i])) /\ Fails(i)
    /\ UNCHANGED <<poolVars, peer, reqVars, got, jobVars, faults>>

\* The deadline passes: Signal, session.Close() ...
ExecDeadline(i) ==
    /\ pc[i] = "exec"
    /\ Goto(i, "killing")
    /\ UNCHANGED <<poolVars, peer, reqVars, got, jobVars, faults>>

\* ... and <-done: Run returns when the peer, or a closed connection, ends it.
\* The error is the context's, which removes nothing from the pool.
ExecKilled(i) ==
    /\ pc[i] = "killing"
    /\ Answers(got[i]) \/ Broken(got[i])
    /\ Goto(i, "error")
    /\ UNCHANGED <<poolVars, peer, reqVars, got, jobVars, faults>>

\* remove(key), for a disconnect and after a connection error: whatever client
\* the map holds for the key is closed.
Remove(i) ==
    /\ pc[i] = "remove"
    /\ LET r == {key[i]} \cap Used(sessions)
       IN  /\ Close({sessions[k] : k \in r})
           /\ sessions' = Without(sessions, r)
    /\ Goto(i, IF wants[i] = "disconnect" THEN "ok" ELSE "error")
    /\ UNCHANGED <<idle, peer, reqVars, got, jobVars, faults>>

-----------------------------------------------------------------------------
(***************************************************************************)
(* Background jobs                                                         *)
(***************************************************************************)

\* Mutant of Expired: a zero finishedAt counts as a time long past.
Expired_NoZeroCheck == {j \in items : job[j] = "running" \/ age[j] > Retention}

\* What pruneSSHJobsLocked deletes.
Expired == {j \in items : job[j] # "running" /\ age[j] > Retention}

\* startSSHJob; a session that is not there or is rejected removes nothing from
\* the pool and registers no job.
JobStart(i) ==
    /\ pc[i] = "use" /\ wants[i] = "start"
    /\ \/ /\ Answers(got[i])
          /\ job' = [job EXCEPT ![i] = "running"]
          /\ runs' = runs \cup {i}
          /\ items' = (items \ Expired) \cup {i}
          /\ Goto(i, "ok")
       \/ /\ Answers(got[i]) \/ Broken(got[i])
          /\ Goto(i, "error")
          /\ UNCHANGED <<job, runs, items>>
    /\ UNCHANGED <<poolVars, peer, reqVars, got, age, faults>>

\* Mutant of JobEnd: a cancelled job is given the status of its command.
JobEnd_ForgetsCancel(j) ==
    /\ j \in runs
    /\ Answers(got[j]) \/ Broken(got[j])
    /\ \E status \in {"completed", "failed"} :
          /\ status = "completed" => Answers(got[j])
          /\ job' = [job EXCEPT ![j] = status]
    /\ runs' = runs \ {j}
    /\ age' = [age EXCEPT ![j] = 0]
    /\ UNCHANGED <<poolVars, peer, pc, reqVars, got, items, faults>>

\* session.Run returns in the goroutine of job j.
JobEnd(j) ==
    /\ j \in runs
    /\ Answers(got[j]) \/ Broken(got[j])
    /\ \E status \in {"completed", "failed"} :
          /\ status = "completed" => Answers(got[j])
          /\ job' = [job EXCEPT ![j] = IF @ = "cancelled" THEN @ ELSE status]
    /\ runs' = runs \ {j}
    /\ age' = [age EXCEPT ![j] = 0]
    /\ UNCHANGED <<poolVars, peer, pc, reqVars, got, items, faults>>

\* status, tail or cancel of a job whose id some call was given.
BeginJobOp(i, j, w) ==
    /\ pc[i] = "idle" /\ job[j] # "none"
    /\ wants' = [wants EXCEPT ![i] = w]
    /\ jid' = [jid EXCEPT ![i] = j]
    /\ Goto(i, "getjob")
    /\ UNCHANGED <<poolVars, peer, key, got, jobVars, faults>>

GetJob(i) ==
    /\ pc[i] = "getjob"
    /\ items' = items \ Expired
    /\ Goto(i, IF jid[i] \notin items' THEN "error"
               ELSE IF wants[i] = "cancel" THEN "cancel" ELSE "snapshot")
    /\ UNCHANGED <<poolVars, peer, reqVars, got, job, runs, age, faults>>

\* cancel() may find the job ended since it was looked up.  Signal and Close of
\* its session end Run if the peer still answers; the error of Close is returned,
\* though the job is cancelled by then.
Cancel(i) ==
    /\ pc[i] = "cancel"
    /\ \/ /\ job[jid[i]] = "running"
          /\ job' = [job EXCEPT ![jid[i]] = "cancelled"]
          /\ age' = [age EXCEPT ![jid[i]] = 0]
          /\ Goto(i, "snapshot") \/ Goto(i, "error")
       \/ /\ job[jid[i]] # "running"
          /\ Goto(i, "error")
          /\ UNCHANGED <<job, age>>
    /\ UNCHANGED <<poolVars, peer, reqVars, got, runs, items, faults>>

Snapshot(i) ==
    /\ pc[i] = "snapshot"
    /\ Goto(i, "ok")
    /\ UNCHANGED <<poolVars, peer, reqVars, got, jobVars, faults>>

-----------------------------------------------------------------------------
(***************************************************************************)
(* The reaper, time and the peers                                          *)
(***************************************************************************)

\* Mutant of Reap: the entry is deleted and its client left open.
Reap_NoClose(k) ==
    /\ sessions[k] # NoCall /\ idle[sessions[k]] > IdleTimeout
    /\ sessions' = Without(sessions, {k})
    /\ UNCHANGED <<client, idle, peer, pc, reqVars, got, jobVars, faults>>

Reap(k) ==
    /\ sessions[k] # NoCall /\ idle[sessions[k]] > IdleTimeout
    /\ Close({sessions[k]})
    /\ sessions' = Without(sessions, {k})
    /\ UNCHANGED <<idle, peer, pc, reqVars, got, jobVars, faults>>

Tick ==
    /\ idle' = [s \in Calls |-> IF client[s] = "open" /\ idle[s] <= IdleTimeout
                                THEN idle[s] + 1 ELSE idle[s]]
    /\ age' = [j \in Calls |-> IF job[j] \in Final /\ age[j] <= Retention
                               THEN age[j] + 1 ELSE age[j]]
    /\ <<idle, age>>' # <<idle, age>>
    /\ UNCHANGED <<sessions, client, peer, pc, reqVars, got, job, runs, items, faults>>

PeerFails(s) ==
    /\ client[s] = "open" \/ pc[s] = "handshake"
    /\ faults < MaxFaults
    /\ \E state \in {"silent", "down"} : /\ peer[s] # "down" /\ peer[s] # state
                                         /\ peer' = [peer EXCEPT ![s] = state]
    /\ faults' = faults + 1
    /\ UNCHANGED <<poolVars, pc, reqVars, got, jobVars>>

\* A step of a call that has begun.
Handle(i) ==
    \/ LookupHit(i) \/ LookupMiss(i) \/ Keepalive(i) \/ Verify(i) \/ Cleanup(i)
    \/ Dial(i) \/ Handshake(i) \/ InsertTheirs(i) \/ InsertOurs(i)
    \/ ExecStart(i) \/ ExecDone(i) \/ ExecDeadline(i) \/ ExecKilled(i) \/ Remove(i)
    \/ JobStart(i) \/ GetJob(i) \/ Cancel(i) \/ Snapshot(i)

Next ==
    \/ \E i \in Calls : \/ \E k \in Keys, w \in PoolOps : Begin(i, k, w)
                        \/ \E j \in Calls, w \in JobOps : BeginJobOp(i, j, w)
                        \/ Handle(i)
                        \/ JobEnd(i)
                        \/ PeerFails(i)
    \/ \E k \in Keys : Reap(k)
    \/ Tick

Spec == Init /\ [][Next]_vars

(***************************************************************************)
(* Goroutines run when they can, time passes and the reaper's ticker       *)
(* visits every entry.  A remote command need not end by itself, so a      *)
(* job's goroutine is only sure to return when its job was cancelled or    *)
(* its connection is gone; a silent peer may stay silent for ever.         *)
(***************************************************************************)
JobMustEnd(j) == JobEnd(j) /\ (job[j] = "cancelled" \/ Broken(got[j]))
Fairness == /\ \A i \in Calls : WF_vars(Handle(i)) /\ WF_vars(JobMustEnd(i))
            /\ \A k \in Keys : WF_vars(Reap(k))
            /\ WF_vars(Tick)
FairSpec == Spec /\ Fairness

-----------------------------------------------------------------------------
(***************************************************************************)
(* Properties                                                              *)
(***************************************************************************)

(***************************************************************************)
(* No connection leaks: an open client is in the pool, under the identity  *)
(* it was dialed for, or in the hand of the call that dialed it and is     *)
(* about to insert it; and the pool holds no client it has closed.  The    *)
(* dial runs outside p.mu, so two calls may dial for the same key.         *)
(***************************************************************************)
PoolOwnsClients ==
    /\ \A s \in Calls : client[s] = "open" => pc[s] = "insert" \/ sessions[key[s]] = s
    /\ \A k \in Used(sessions) : client[sessions[k]] = "open" /\ key[sessions[k]] = k

(***************************************************************************)
(* maxSessions bounds the pool although the capacity is checked before the *)
(* dial and other calls insert meanwhile.                                  *)
(***************************************************************************)
WithinMaxSessions == Cardinality(Used(sessions)) <= MaxSessions

(***************************************************************************)
(* "If another goroutine closed this client, we must not return it"        *)
(* (getOrCreate): the client a call is given is open at that moment, and   *)
(* belongs to the identity the call asked for.                             *)
(***************************************************************************)
GivesOpenClients == [][\A i \in Calls : pc'[i] = "use" /\ pc[i] # "use"
                          => client'[got'[i]] = "open" /\ key[got'[i]] = key[i]]_vars

(***************************************************************************)
(* The status of a job that has ended or was cancelled never changes,      *)
(* whichever of cancel() and the job's goroutine comes first.              *)
(***************************************************************************)
JobStatusFinal == [][\A j \in Calls : job[j] \in Final => job'[j] = job[j]]_vars

(***************************************************************************)
(* Nothing that runs is forgotten: beside the connections, a running job   *)
(* is found by its id whatever prunes the list (a job that still runs has  *)
(* no finishedAt, which is a time long ago).                               *)
(***************************************************************************)
RunningJobsListed == \A j \in Calls : job[j] = "running" => j \in items
NothingForgotten  == PoolOwnsClients /\ RunningJobsListed

(***************************************************************************)
(* A call ends even if its connection goes half-open and stays so: the     *)
(* keepalive, a new session and the wait after a deadline have no timeout  *)
(* of their own, and the reaper, which closes the client, ends them.  The  *)
(* one exception is a peer that goes silent before its handshake is done,  *)
(* when the pool has nothing to close; no other call waits for that one.   *)
(***************************************************************************)
Hangs(i) == pc[i] = "handshake" /\ peer[i] = "silent"
EveryCallEnds == \A i \in Calls : pc[i] # "idle" ~> pc[i] \in Ended \/ Hangs(i)

(***************************************************************************)
(* When the tool is no longer used every connection is closed, and no      *)
(* goroutine of a job outlives its connection, whatever calls still hang.  *)
(***************************************************************************)
Quiet == \A i \in Calls : pc[i] \in Ended \/ Hangs(i)
NothingLeftBehind == Quiet ~> (runs = {} /\ \A s \in Calls : client[s] # "open")

(***************************************************************************)
(* "Idle sessions expire after 30 minutes", and "For long commands, use    *)
(* background=true" (the tool's description): a session on which a job is  *)
(* running is not idle, and the reaper leaves it open.  (The reaper's is   *)
(* the only step that closes a client and is not a step of a call.)        *)
(***************************************************************************)
ReaperSparesJobs == [][pc' = pc => \A j \in runs :
                          job[j] = "running" /\ Answers(got[j])
                             => client'[got[j]] = "open"]_vars
=============================================================================
