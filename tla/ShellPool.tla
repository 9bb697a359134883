------------------------------ MODULE ShellPool ------------------------------
(***************************************************************************)
(* The persistent shells of the bash tool (tools/bash): a pool of shell    *)
(* processes, one per session id, shared by concurrent tool calls, and a   *)
(* reaper.                                                                 *)
(*                                                                         *)
(* A call runs Handle.  It holds p.mu (the pool) only within one step; it  *)
(* holds the mutex of a shell from the start of a command to its end.  The *)
(* reaper holds p.mu from its idle check of a shell to its TryLock, so the *)
(* steps that need p.mu wait for it, and the steps of commands do not.  A  *)
(* call starts at most one shell, which is named after it.                 *)
(***************************************************************************)
EXTENDS Naturals, FiniteSets

CONSTANTS Calls,        \* tool calls, and the shells they start
          Keys,         \* session ids
          NoCall, NoKey,
          MaxSessions,  \* maxSessions (5)
          IdleTimeout,  \* defaultIdleTimeout (30 min), in ticks of the model
          MaxExits      \* bound: shells that end by themselves

ASSUME PoolAssumption ==
    /\ MaxSessions \in Nat \ {0} /\ IdleTimeout \in Nat /\ MaxExits \in Nat
    /\ NoCall \notin Calls /\ NoKey \notin Keys

VARIABLES
    sessions, \* sessions[k]: the shell p.sessions maps k to, or NoCall
    shell,    \* none, live, exited (ended by itself, not waited for), closed
    idle,     \* idle[s]: time since lastUsed, capped above IdleTimeout
    mu,       \* mu[s]: the call that holds the mutex of s
    reaping,  \* the key the reaper found idle and is about to TryLock
    pc, key, wants, \* where a call is, its session id, and command or disconnect
    got,      \* the shell getOrCreate gave it
    victim,   \* the shell remove() took off the map for it
    exits     \* shells that ended by themselves so far

poolVars == <<sessions, shell, idle, mu>>
reqVars  == <<key, wants>>
vars     == <<poolVars, reaping, pc, reqVars, got, victim, exits>>

Steps  == {"idle", "lookup", "spawn", "insert", "got", "exec", "failed", "remove",
           "closing", "ok", "error"}
Ended  == {"ok", "error"}
MaxAge == IdleTimeout + 1

TypeOK ==
    /\ sessions \in [Keys -> Calls \cup {NoCall}]
    /\ shell \in [Calls -> {"none", "live", "exited", "closed"}]
    /\ idle \in [Calls -> 0 .. MaxAge]
    /\ mu \in [Calls -> Calls \cup {NoCall}]
    /\ reaping \in Keys \cup {NoKey}
    /\ pc \in [Calls -> Steps]
    /\ key \in [Calls -> Keys \cup {NoKey}]
    /\ wants \in [Calls -> {"command", "disconnect"}]
    /\ got \in [Calls -> Calls \cup {NoCall}]
    /\ victim \in [Calls -> Calls \cup {NoCall}]
    /\ exits \in 0 .. MaxExits
    /\ \A i \in Calls : /\ pc[i] \in {"got", "exec", "failed"} => got[i] \in Calls
                        /\ pc[i] = "closing" => victim[i] \in Calls

Init ==
    /\ sessions = [k \in Keys |-> NoCall]
    /\ shell = [s \in Calls |-> "none"]
    /\ idle = [s \in Calls |-> 0]
    /\ mu = [s \in Calls |-> NoCall]
    /\ reaping = NoKey
    /\ pc = [i \in Calls |-> "idle"]
    /\ key = [i \in Calls |-> NoKey]
    /\ wants = [i \in Calls |-> "command"]
    /\ got = [i \in Calls |-> NoCall]
    /\ victim = [i \in Calls |-> NoCall]
    /\ exits = 0

PoolUnlocked == reaping = NoKey
\* alive(): a process nobody waited for counts as running, even if it ended.
Alive(s)     == shell[s] # "closed"
Goto(i, step) == pc' = [pc EXCEPT ![i] = step]

-----------------------------------------------------------------------------
(***************************************************************************)
(* Handle: a command or a disconnect for a session id                      *)
(***************************************************************************)
Begin(i, k, w) ==
    /\ pc[i] = "idle"
    /\ key' = [key EXCEPT ![i] = k]
    /\ wants' = [wants EXCEPT ![i] = w]
    /\ Goto(i, IF w = "disconnect" THEN "remove" ELSE "lookup")
    /\ UNCHANGED <<poolVars, reaping, got, victim, exits>>

-----------------------------------------------------------------------------
(***************************************************************************)
(* getOrCreate                                                             *)
(***************************************************************************)

\* Mutant of Evictable: no TryLock.
Evictable_NoTryLock(m) == LET used == {k \in Keys : m[k] # NoCall}
                          IN  {k \in used : \A j \in used : idle[m[j]] <= idle[m[k]]}

\* The shells evictOldestLocked may close, given the map m: the least recently
\* used of those whose TryLock succeeds; none when all are busy.
Evictable(m) == LET free == {k \in Keys : m[k] # NoCall /\ mu[m[k]] = NoCall}
                IN  {k \in free : \A j \in free : idle[m[j]] <= idle[m[k]]}

\* Make room in the map m for one more (m itself when there is room or nothing
\* can be evicted), in r the keys that go.
MakeRoom(m, r) == IF Cardinality({k \in Keys : m[k] # NoCall}) < MaxSessions \/ Evictable(m) = {}
                  THEN r = {}
                  ELSE \E k \in Evictable(m) : r = {k}

Without(m, r)  == [k \in Keys |-> IF k \in r THEN NoCall ELSE m[k]]
Close(S)       == shell' = [s \in Calls |-> IF s \in S THEN "closed" ELSE shell[s]]

LookupHit(i) ==
    /\ pc[i] = "lookup" /\ PoolUnlocked
    /\ sessions[key[i]] # NoCall /\ Alive(sessions[key[i]])
    /\ got' = [got EXCEPT ![i] = sessions[key[i]]]
    /\ Goto(i, "got")
    /\ UNCHANGED <<poolVars, reaping, reqVars, victim, exits>>

\* No session, or a dead one that is dropped; evict before the spawn.
LookupMiss(i) ==
    /\ pc[i] = "lookup" /\ PoolUnlocked
    /\ sessions[key[i]] # NoCall => ~Alive(sessions[key[i]])
    /\ LET m == Without(sessions, {key[i]}) IN
         \E r \in SUBSET Keys :
            /\ MakeRoom(m, r)
            /\ sessions' = Without(m, r)
            /\ Close({m[k] : k \in r})
    /\ Goto(i, "spawn")
    /\ UNCHANGED <<idle, mu, reaping, reqVars, got, victim, exits>>

\* startShellSession, with no lock held.
Spawn(i) ==
    /\ pc[i] = "spawn"
    /\ \/ /\ shell' = [shell EXCEPT ![i] = "live"]
          /\ Goto(i, "insert")
       \/ /\ Goto(i, "error")
          /\ UNCHANGED shell
    /\ UNCHANGED <<sessions, idle, mu, reaping, reqVars, got, victim, exits>>

\* Mutant of InsertTheirs: our shell is dropped and not closed.
InsertTheirs_KeepsOurs(i) ==
    /\ pc[i] = "insert" /\ PoolUnlocked
    /\ sessions[key[i]] # NoCall
    /\ got' = [got EXCEPT ![i] = sessions[key[i]]]
    /\ Goto(i, "got")
    /\ UNCHANGED <<poolVars, reaping, reqVars, victim, exits>>

\* The double check found another call's shell: use it, discard ours.
InsertTheirs(i) ==
    /\ pc[i] = "insert" /\ PoolUnlocked
    /\ sessions[key[i]] # NoCall
    /\ got' = [got EXCEPT ![i] = sessions[key[i]]]
    /\ Close({i})
    /\ Goto(i, "got")
    /\ UNCHANGED <<sessions, idle, mu, reaping, reqVars, victim, exits>>

InsertOurs(i) ==
    /\ pc[i] = "insert" /\ PoolUnlocked
    /\ sessions[key[i]] = NoCall
    /\ \E r \in SUBSET Keys :
          /\ MakeRoom(sessions, r)
          /\ sessions' = [Without(sessions, r) EXCEPT ![key[i]] = i]
          /\ Close({sessions[k] : k \in r})
    /\ got' = [got EXCEPT ![i] = i]
    /\ Goto(i, "got")
    /\ UNCHANGED <<idle, mu, reaping, reqVars, victim, exits>>

-----------------------------------------------------------------------------
(***************************************************************************)
(* executeCommand                                                          *)
(***************************************************************************)

\* The mutex is ours and the shell is alive: the command is sent to it.
Start(i) ==
    /\ pc[i] = "got" /\ mu[got[i]] = NoCall /\ Alive(got[i])
    /\ mu' = [mu EXCEPT ![got[i]] = i]
    /\ idle' = [idle EXCEPT ![got[i]] = 0]
    /\ Goto(i, "exec")
    /\ UNCHANGED <<sessions, shell, reaping, reqVars, got, victim, exits>>

\* "shell session is dead"
StartDead(i) ==
    /\ pc[i] = "got" /\ mu[got[i]] = NoCall /\ ~Alive(got[i])
    /\ Goto(i, "failed")
    /\ UNCHANGED <<poolVars, reaping, reqVars, got, victim, exits>>

\* The sentinel line arrives.
Finish(i) ==
    /\ pc[i] = "exec" /\ shell[got[i]] = "live"
    /\ idle' = [idle EXCEPT ![got[i]] = 0]
    /\ mu' = [mu EXCEPT ![got[i]] = NoCall]
    /\ Goto(i, "ok")
    /\ UNCHANGED <<sessions, shell, reaping, reqVars, got, victim, exits>>

\* The shell has ended: the write or the read fails, and nothing closes it yet.
PipeError(i) ==
    /\ pc[i] = "exec" /\ shell[got[i]] = "exited"
    /\ mu' = [mu EXCEPT ![got[i]] = NoCall]
    /\ Goto(i, "failed")
    /\ UNCHANGED <<sessions, shell, idle, reaping, reqVars, got, victim, exits>>

\* Mutant of Abort: the shell's mutex is not released.
Abort_KeepsMutex(i) ==
    /\ pc[i] = "exec"
    /\ Close({got[i]})
    /\ Goto(i, "failed")
    /\ UNCHANGED <<sessions, idle, mu, reaping, reqVars, got, victim, exits>>

\* The deadline passes or the context is cancelled: the call closes the shell.
Abort(i) ==
    /\ pc[i] = "exec"
    /\ Close({got[i]})
    /\ mu' = [mu EXCEPT ![got[i]] = NoCall]
    /\ Goto(i, "failed")
    /\ UNCHANGED <<sessions, idle, reaping, reqVars, got, victim, exits>>

-----------------------------------------------------------------------------
(***************************************************************************)
(* remove: for a disconnect, and for every command that failed             *)
(***************************************************************************)
Removing(i) == pc[i] \in {"remove", "failed"}
Result(i)   == IF wants[i] = "disconnect" THEN "ok" ELSE "error"

RemoveMiss(i) ==
    /\ Removing(i) /\ PoolUnlocked
    /\ sessions[key[i]] = NoCall
    /\ Goto(i, Result(i))
    /\ UNCHANGED <<poolVars, reaping, reqVars, got, victim, exits>>

\* Whatever shell the map holds for the key is taken off it ...
RemoveEntry(i) ==
    /\ Removing(i) /\ PoolUnlocked
    /\ sessions[key[i]] # NoCall
    /\ victim' = [victim EXCEPT ![i] = sessions[key[i]]]
    /\ sessions' = [sessions EXCEPT ![key[i]] = NoCall]
    /\ Goto(i, "closing")
    /\ UNCHANGED <<shell, idle, mu, reaping, reqVars, got, exits>>

\* ... and closed once its command, if any, is done.
RemoveClose(i) ==
    /\ pc[i] = "closing" /\ mu[victim[i]] = NoCall
    /\ Close({victim[i]})
    /\ Goto(i, Result(i))
    /\ UNCHANGED <<sessions, idle, mu, reaping, reqVars, got, victim, exits>>

-----------------------------------------------------------------------------
(***************************************************************************)
(* The reaper, time, and shells that end by themselves                     *)
(***************************************************************************)
ReapCheck(k) ==
    /\ PoolUnlocked
    /\ sessions[k] # NoCall
    /\ idle[sessions[k]] > IdleTimeout \/ ~Alive(sessions[k])
    /\ reaping' = k
    /\ UNCHANGED <<poolVars, pc, reqVars, got, victim, exits>>

\* Mutant of ReapTryLock: the entry is deleted and the shell not closed.
ReapTryLock_NoClose ==
    /\ reaping # NoKey
    /\ sessions' = IF mu[sessions[reaping]] = NoCall
                   THEN [sessions EXCEPT ![reaping] = NoCall] ELSE sessions
    /\ reaping' = NoKey
    /\ UNCHANGED <<shell, idle, mu, pc, reqVars, got, victim, exits>>

ReapTryLock ==
    /\ reaping # NoKey
    /\ \/ /\ mu[sessions[reaping]] = NoCall
          /\ Close({sessions[reaping]})
          /\ sessions' = [sessions EXCEPT ![reaping] = NoCall]
       \/ /\ mu[sessions[reaping]] # NoCall
          /\ UNCHANGED <<sessions, shell>>
    /\ reaping' = NoKey
    /\ UNCHANGED <<idle, mu, pc, reqVars, got, victim, exits>>

Tick ==
    /\ idle' = [s \in Calls |-> IF shell[s] # "none" /\ idle[s] < MaxAge THEN idle[s] + 1 ELSE idle[s]]
    /\ idle' # idle
    /\ UNCHANGED <<sessions, shell, mu, reaping, pc, reqVars, got, victim, exits>>

ShellExit(s) ==
    /\ shell[s] = "live" /\ exits < MaxExits
    /\ shell' = [shell EXCEPT ![s] = "exited"]
    /\ exits' = exits + 1
    /\ UNCHANGED <<sessions, idle, mu, reaping, pc, reqVars, got, victim>>

\* A step of a call that has begun.
Handle(i) ==
    \/ LookupHit(i) \/ LookupMiss(i) \/ Spawn(i) \/ InsertTheirs(i) \/ InsertOurs(i)
    \/ Start(i) \/ StartDead(i) \/ Finish(i) \/ PipeError(i) \/ Abort(i)
    \/ RemoveMiss(i) \/ RemoveEntry(i) \/ RemoveClose(i)

Next ==
    \/ \E i \in Calls : \/ \E k \in Keys, w \in {"command", "disconnect"} : Begin(i, k, w)
                        \/ Handle(i)
                        \/ ShellExit(i)
    \/ \E k \in Keys : ReapCheck(k)
    \/ ReapTryLock
    \/ Tick

Spec == Init /\ [][Next]_vars

(***************************************************************************)
(* The goroutine of a call runs when it can (a command ends at its         *)
(* deadline at the latest), time passes, and the reaper's ticker visits    *)
(* every key of the map.                                                   *)
(***************************************************************************)
Fairness == /\ \A i \in Calls : WF_vars(Handle(i))
            /\ \A k \in Keys : WF_vars(ReapCheck(k))
            /\ WF_vars(ReapTryLock) /\ WF_vars(Tick)
FairSpec == Spec /\ Fairness

-----------------------------------------------------------------------------
(***************************************************************************)
(* Properties                                                              *)
(***************************************************************************)

(***************************************************************************)
(* No shell process leaks: whatever races between getOrCreate, remove and  *)
(* the reaper, a shell that was started and not closed is in the pool, or  *)
(* in the hand of the call that started it and is about to insert it, or   *)
(* of a call that took it off the pool and is about to close it.           *)
(***************************************************************************)
Owned(s) == \/ \E k \in Keys : sessions[k] = s
            \/ pc[s] = "insert"
            \/ \E i \in Calls : pc[i] = "closing" /\ victim[i] = s
NoOrphanShell == \A s \in Calls : shell[s] \in {"live", "exited"} => Owned(s)

(***************************************************************************)
(* evictOldestLocked, the reaper and remove() of other calls never close a *)
(* shell under a running command: the command's own call does it, if       *)
(* anybody does, and two commands never share a shell.                     *)
(***************************************************************************)
CommandsUndisturbed ==
    /\ \A i \in Calls : pc[i] = "exec" => Alive(got[i])
    /\ \A i, j \in Calls : pc[i] = "exec" /\ pc[j] = "exec" /\ got[i] = got[j] => i = j

(***************************************************************************)
(* A call ends, however many calls, evictions and disconnects compete with *)
(* it for the pool and for its shell.                                      *)
(***************************************************************************)
EveryCallEnds == \A i \in Calls : pc[i] = "lookup" \/ pc[i] = "remove" ~> pc[i] \in Ended

(***************************************************************************)
(* Once the tool is no longer used every shell is closed: also the ones    *)
(* that died, lost a race of getOrCreate, or exceed the limit.             *)
(***************************************************************************)
Quiet == \A i \in Calls : pc[i] \in Ended
NoShellLeftBehind == Quiet ~> (\A s \in Calls : shell[s] \in {"none", "closed"})

(***************************************************************************)
(* "If session died, remove it from pool" (handler.go): a failed command   *)
(* removes the shell it failed on, not a healthy one that another call has *)
(* started for the same session id meanwhile.                              *)
(***************************************************************************)
RemovesOnlyItsOwn == \A i \in Calls :
    pc[i] = "closing" /\ wants[i] = "command" => victim[i] = got[i]
=============================================================================
