----------------------------- MODULE DapSession -----------------------------
(***************************************************************************)
(* One session of the debug tool (tools/debug): the calls that talk to a   *)
(* debug adapter, the event loop that reads what the adapter sends, and    *)
(* the pool that closes the session.                                       *)
(*                                                                         *)
(* A call runs Handle.  Requests carry a number and are answered at any    *)
(* time, in any order, or never; the event loop hands an answer to the     *)
(* call that waits for its number and turns events into the state of the   *)
(* session, into the closing of initializedCh, and into a value of         *)
(* stoppedCh, a channel with room for one.  The mutexes are held within    *)
(* one step.  Time-outs may strike in any waiting step.  What operations   *)
(* print is left out, and so is the buffer of events (EventBuffer).        *)
(***************************************************************************)
EXTENDS Naturals, Sequences

CONSTANTS Calls,       \* tool calls, each made once
          MaxWire,     \* bound: messages of the adapter under way
          MaxFaults,   \* bound: crashes and stalls of the adapter
          MaxEvictions \* bound: evictions by launches of other sessions

ASSUME DapAssumption == MaxWire \in Nat /\ MaxFaults \in Nat /\ MaxEvictions \in Nat

VARIABLES
    pooled,    \* the session is in the pool
    closed,    \* close has run: done and the connection are closed
    link,      \* none, up, stuck (the adapter reads no more) or gone
    loop,      \* none, read, signal, exit, last or ended: where eventLoop is
    state,     \* session.state
    configDone,\* session.configDone
    gen,       \* how often restart has replaced initializedCh
    ready,     \* the generations of initializedCh that are closed
    stopped,   \* stoppedCh: none, stop (an event) or end (nil)
    seq,       \* the last request number given out
    pc, op, cmd, \* where a call is, its operation, the request it is about
    req,       \* the number of the request a call waits for
    chan,      \* the generation of initializedCh a call waits for
    ans,       \* the answer in the call's channel
    inbox,     \* requests the adapter has and has not answered
    wire,      \* what the adapter sent and the event loop has not read
    prog,      \* the debuggee: new, config, running, stopped or ended
    said,      \* the adapter has sent initialized since its last (re)start
    due,       \* (history) calls owed a stop that was signalled after their request
    faults, evictions

sessionVars == <<pooled, closed, state, configDone, gen, ready>>
callVars    == <<op, chan>>
requestVars == <<seq, cmd, req, ans>>
adapterVars == <<inbox, prog, said>>
boundVars   == <<faults, evictions>>
vars == <<sessionVars, link, loop, stopped, pc, callVars, requestVars, adapterVars,
          wire, due, boundVars>>

Ended   == {"ok", "error"}
Steps   == {"idle", "create", "check", "drain", "claim", "init", "mark", "send", "wait", "entered",
            "running", "stop", "rollback", "reset", "redrain", "remove"} \cup Ended
Ops     == {"none", "launch", "resume", "jump", "pause", "query", "inspect", "restart",
            "terminate", "disconnect"}
Cmds    == {"none", "initialize", "launch", "exceptions", "configDone", "resume",
            "pause", "query", "restart", "terminate", "disconnect"}
Starts  == {"configDone", "resume", "pause"}  \* requests that lead to a stop
None    == [seq |-> 0, ok |-> FALSE, by |-> "none"]
Answers == [seq : Nat, ok : BOOLEAN, by : Cmds]

TypeOK ==
    /\ pooled \in BOOLEAN /\ closed \in BOOLEAN /\ configDone \in BOOLEAN /\ said \in BOOLEAN
    /\ link \in {"none", "up", "stuck", "gone"}
    /\ loop \in {"none", "read", "signal", "exit", "last", "ended"}
    /\ state \in {"initializing", "running", "stopped", "exited", "terminated"}
    /\ stopped \in {"none", "stop", "end"}
    /\ gen \in Nat /\ seq \in Nat /\ ready \subseteq 0 .. gen
    /\ pc \in [Calls -> Steps] /\ op \in [Calls -> Ops] /\ cmd \in [Calls -> Cmds]
    /\ req \in [Calls -> 0 .. seq] /\ chan \in [Calls -> 0 .. gen]
    /\ ans \in [Calls -> Answers]
    /\ inbox \subseteq [seq : 1 .. seq, cmd : Cmds]
    /\ prog \in {"new", "config", "running", "stopped", "ended"}
    /\ due \subseteq Calls
    /\ faults \in 0 .. MaxFaults /\ evictions \in 0 .. MaxEvictions

\* before the session, or after the launch of an earlier call
Init ==
    /\ \/ /\ pooled = FALSE /\ link = "none" /\ loop = "none" /\ state = "initializing"
          /\ seq = 0 /\ prog = "new" /\ said = FALSE
       \/ /\ pooled = TRUE /\ link = "up" /\ loop = "read" /\ state = "stopped"
          /\ seq = 2 /\ prog = "config" /\ said \in BOOLEAN
    /\ ready = IF said THEN {0} ELSE {}
    /\ closed = FALSE /\ configDone = FALSE /\ gen = 0 /\ stopped = "none"
    /\ pc = [c \in Calls |-> "idle"] /\ op = [c \in Calls |-> "none"]
    /\ cmd = [c \in Calls |-> "none"] /\ req = [c \in Calls |-> 0]
    /\ chan = [c \in Calls |-> 0] /\ ans = [c \in Calls |-> None]
    /\ inbox = {} /\ wire = <<>> /\ due = {} /\ faults = 0 /\ evictions = 0

(***************************************************************************)
(* Handle: the operation of a call                                         *)
(***************************************************************************)
Goto(c, step) == pc' = [pc EXCEPT ![c] = step]

\* go on with a request
Ask(c, request) == Goto(c, "send") /\ cmd' = [cmd EXCEPT ![c] = request]

\* the call begins: pool.get has found the session
Enter(c, operation) ==
    /\ pc[c] = "idle" /\ pooled
    /\ op' = [op EXCEPT ![c] = operation]
    /\ UNCHANGED <<sessionVars, link, loop, stopped, chan, seq, req, ans, adapterVars,
                   wire, due, boundVars>>

NotFound(c) ==
    /\ pc[c] = "idle" /\ ~pooled /\ Goto(c, "error")
    /\ UNCHANGED <<sessionVars, link, loop, stopped, callVars, requestVars, adapterVars,
                   wire, due, boundVars>>

OpQuery(c, request) == Enter(c, request) /\ Ask(c, "query")

\* a rejection is an error of the call
SetBreakpoints(c)         == OpQuery(c, "query")
ExtendedBreakpoints(c)    == OpQuery(c, "query")
DataBreakpoints(c)        == OpQuery(c, "query")
Targets(c)                == OpQuery(c, "query")
SetVariable(c)            == OpQuery(c, "query")
Completions(c)            == OpQuery(c, "query")
SourcesAndModules(c)      == OpQuery(c, "query")
Disassemble(c)            == OpQuery(c, "query")
WriteMemory(c)            == OpQuery(c, "query")
ResolveAddress(c)         == OpQuery(c, "query")
Evaluate(c)               == OpQuery(c, "query")
\* a rejection is printed as an unavailable result
ThreadsAndStack(c)        == OpQuery(c, "inspect")
Variables(c)              == OpQuery(c, "inspect")
CancelAndThreads(c)       == OpQuery(c, "inspect")

\* execution control: checkSessionAlive comes first
Continue(c)  == Enter(c, "resume") /\ Goto(c, "check") /\ UNCHANGED cmd
StepOperation(c) == Enter(c, "resume") /\ Goto(c, "check") /\ UNCHANGED cmd
Jump(c)      == Enter(c, "jump") /\ Goto(c, "check") /\ UNCHANGED cmd
Pause(c)     == Enter(c, "pause") /\ Goto(c, "check") /\ UNCHANGED cmd

Restart(c)    == Enter(c, "restart") /\ Ask(c, "restart")
Terminate(c)  == Enter(c, "terminate") /\ Ask(c, "terminate")
Disconnect(c) == Enter(c, "disconnect") /\ Ask(c, "disconnect")

\* status reads the state and drains the buffer of events
Status(c) == Enter(c, "inspect") /\ Goto(c, "ok") /\ UNCHANGED cmd

\* the input is not what the operation needs
Refused(c) ==
    /\ pc[c] = "idle" /\ Goto(c, "error")
    /\ UNCHANGED <<sessionVars, link, loop, stopped, callVars, requestVars, adapterVars,
                   wire, due, boundVars>>

\* opLaunch and opAttach: the id is free when they look
Begin(c) ==
    /\ pc[c] = "idle" /\ Goto(c, IF pooled THEN "error" ELSE "create")
    /\ op' = [op EXCEPT ![c] = "launch"]
    /\ UNCHANGED <<sessionVars, link, loop, stopped, chan, requestVars, adapterVars, wire, due,
                   boundVars>>

Launch(c) == Begin(c)
Attach(c) == Begin(c)

\* the adapter is started or connected to, its event loop started, the session
\* added to the pool
Create(c) ==
    /\ pc[c] = "create" /\ link = "none"
    /\ link' = "up" /\ loop' = "read" /\ pooled' = TRUE /\ Ask(c, "initialize")
    /\ UNCHANGED <<closed, state, configDone, gen, ready, stopped, callVars, seq, req, ans,
                   adapterVars, wire, due, boundVars>>

\* no adapter, or the id is taken by now and the adapter is closed again; a
\* second session under the id of one that was closed is not followed further
CreateFails(c) ==
    /\ pc[c] = "create" /\ Goto(c, "error")
    /\ UNCHANGED <<sessionVars, link, loop, stopped, callVars, requestVars, adapterVars,
                   wire, due, boundVars>>

(***************************************************************************)
(* Requests                                                                *)
(***************************************************************************)
\* where an operation goes on when its request could not be sent or timed out
AfterFailure(c) ==
    CASE op[c] \in {"launch", "disconnect"}        -> "remove"
      [] cmd[c] \in {"exceptions", "configDone"}   -> "rollback"
      [] op[c] = "terminate" /\ pc[c] = "wait"     -> "ok"
      [] OTHER                                     -> "error"

\* nextSeq forgets the number it gave out
SendRequest_SameSeq(c) ==
    /\ pc[c] = "send" /\ link \in {"up", "gone"} /\ ~closed
    /\ seq' = IF cmd[c] \in {"query", "pause"} THEN seq ELSE seq + 1
    /\ req' = [req EXCEPT ![c] = seq + 1]
    /\ ans' = [ans EXCEPT ![c] = None] /\ Goto(c, "wait")
    /\ inbox' = IF link = "up" THEN inbox \cup {[seq |-> seq + 1, cmd |-> cmd[c]]} ELSE inbox
    /\ due' = due \ {c}
    /\ UNCHANGED <<sessionVars, link, loop, stopped, callVars, cmd, prog, said, wire, boundVars>>

\* nextSeq, the entry of the pending map, and the write; the peer of a broken
\* connection loses the request
SendRequest(c) ==
    /\ pc[c] = "send" /\ link \in {"up", "gone"} /\ ~closed
    /\ seq' = seq + 1 /\ req' = [req EXCEPT ![c] = seq + 1]
    /\ ans' = [ans EXCEPT ![c] = None] /\ Goto(c, "wait")
    /\ inbox' = IF link = "up" THEN inbox \cup {[seq |-> seq + 1, cmd |-> cmd[c]]} ELSE inbox
    /\ due' = due \ {c}
    /\ UNCHANGED <<sessionVars, link, loop, stopped, callVars, cmd, prog, said, wire, boundVars>>

\* the write fails; on a stuck adapter it blocks until the connection is closed
SendFails(c) ==
    /\ pc[c] = "send" /\ (link = "gone" \/ closed)
    /\ Goto(c, AfterFailure(c))
    /\ UNCHANGED <<sessionVars, link, loop, stopped, callVars, requestVars, adapterVars,
                   wire, due, boundVars>>

\* where an operation goes on with the answer, and with which request
AfterAnswer(c) ==
    CASE cmd[c] = "initialize" -> IF ans[c].ok THEN <<"send", "launch">> ELSE <<"remove", cmd[c]>>
      [] cmd[c] = "launch"     -> IF ans[c].ok THEN <<"entered", cmd[c]>> ELSE <<"remove", cmd[c]>>
      [] cmd[c] = "exceptions" -> <<"send", "configDone">>
      [] cmd[c] = "configDone" -> <<"running", cmd[c]>>
      [] cmd[c] \in {"resume", "pause"} -> <<"stop", cmd[c]>>
      [] cmd[c] = "restart"    -> <<"reset", cmd[c]>>
      [] cmd[c] = "disconnect" -> <<"remove", cmd[c]>>
      [] cmd[c] = "query" /\ op[c] = "query" /\ ~ans[c].ok -> <<"error", cmd[c]>>
      [] OTHER                 -> <<"ok", cmd[c]>>

Receive(c) ==
    /\ pc[c] = "wait" /\ ans[c] # None
    /\ Goto(c, AfterAnswer(c)[1]) /\ cmd' = [cmd EXCEPT ![c] = AfterAnswer(c)[2]]
    /\ ans' = [ans EXCEPT ![c] = None]
    /\ UNCHANGED <<sessionVars, link, loop, stopped, callVars, seq, req, adapterVars,
                   wire, due, boundVars>>

\* the select of opLaunch: the initialized event instead of an answer
LaunchInitialized(c) ==
    /\ pc[c] = "wait" /\ cmd[c] = "launch" /\ gen \in ready /\ Goto(c, "entered")
    /\ UNCHANGED <<sessionVars, link, loop, stopped, callVars, requestVars, adapterVars,
                   wire, due, boundVars>>

\* the select of opTerminate: done instead of an answer
TerminateDone(c) ==
    /\ pc[c] = "wait" /\ op[c] = "terminate" /\ closed /\ Goto(c, "ok")
    /\ UNCHANGED <<sessionVars, link, loop, stopped, callVars, requestVars, adapterVars,
                   wire, due, boundVars>>

Timeout(c) ==
    /\ pc[c] = "wait" /\ Goto(c, AfterFailure(c)) /\ due' = due \ {c}
    /\ UNCHANGED <<sessionVars, link, loop, stopped, callVars, requestVars, adapterVars,
                   wire, boundVars>>

(***************************************************************************)
(* The steps of launch, configuration and execution control                *)
(***************************************************************************)
SetState(c, value, step) ==
    /\ state' = value /\ Goto(c, step)
    /\ UNCHANGED <<pooled, closed, configDone, gen, ready, link, loop, stopped, callVars,
                   requestVars, adapterVars, wire, due, boundVars>>

Entered(c) == pc[c] = "entered" /\ SetState(c, "stopped", "ok")

CheckSessionAlive(c) ==
    /\ pc[c] = "check"
    /\ Goto(c, IF state \in {"terminated", "exited"} THEN "error" ELSE "drain")
    /\ UNCHANGED <<sessionVars, link, loop, stopped, callVars, requestVars, adapterVars,
                   wire, due, boundVars>>

\* take a stale stop out of stoppedCh; what others were owed is gone with it
TakeStop(c) == stopped' = "none" /\ due' = IF stopped = "none" THEN due ELSE due \cap {c}

\* the drain, and the look at configDone that follows it
Drain(c) ==
    /\ pc[c] = "drain" /\ TakeStop(c)
    /\ \/ op[c] = "resume" /\ ~configDone /\ Goto(c, "claim") /\ UNCHANGED cmd
       \/ op[c] = "resume" /\ configDone /\ Goto(c, "mark") /\ UNCHANGED cmd
       \/ op[c] = "jump" /\ Goto(c, "mark") /\ UNCHANGED cmd
       \/ op[c] = "pause" /\ Ask(c, "pause")
    /\ UNCHANGED <<sessionVars, link, loop, callVars, seq, req, ans, adapterVars, wire, boundVars>>

\* the normal continue: running is noted before the request is sent
MarkRunning(c) ==
    /\ pc[c] = "mark" /\ state' = "running" /\ Ask(c, "resume")
    /\ UNCHANGED <<pooled, closed, configDone, gen, ready, link, loop, stopped, callVars, seq,
                   req, ans, adapterVars, wire, due, boundVars>>

\* the check is the one made before, in opContinue
Claim_NoRecheck(c) ==
    /\ pc[c] = "claim" /\ configDone' = TRUE
    /\ chan' = [chan EXCEPT ![c] = gen] /\ Goto(c, "init")
    /\ UNCHANGED <<pooled, closed, state, gen, ready, link, loop, stopped, op, requestVars,
                   adapterVars, wire, due, boundVars>>

\* sendConfigurationDoneIfNeeded: check and set configDone under session.mu
Claim(c) ==
    /\ pc[c] = "claim" /\ configDone' = TRUE
    /\ chan' = [chan EXCEPT ![c] = gen]
    /\ Goto(c, IF configDone THEN "running" ELSE "init")
    /\ UNCHANGED <<pooled, closed, state, gen, ready, link, loop, stopped, op, requestVars,
                   adapterVars, wire, due, boundVars>>

AwaitInitialized(c) ==
    /\ pc[c] = "init"
    /\ \/ chan[c] \in ready /\ Ask(c, "exceptions")
       \/ Goto(c, "rollback") /\ UNCHANGED cmd
    /\ UNCHANGED <<sessionVars, link, loop, stopped, callVars, seq, req, ans, adapterVars,
                   wire, due, boundVars>>

\* configuration failed: let the next continue try again
Rollback(c) ==
    /\ pc[c] = "rollback" /\ configDone' = FALSE /\ Goto(c, "error")
    /\ UNCHANGED <<pooled, closed, state, gen, ready, link, loop, stopped, callVars,
                   requestVars, adapterVars, wire, due, boundVars>>

\* configurationDone has started the program
Running(c) == pc[c] = "running" /\ SetState(c, "running", "stop")

\* waitForStopped: a stop, the end of the session, or the time-out
WaitForStopped(c) ==
    /\ pc[c] = "stop" /\ Goto(c, "ok")
    /\ \/ stopped # "none" /\ stopped' = "none" /\ due' = {}
       \/ closed /\ due' = due \ {c} /\ UNCHANGED stopped
       \/ due' = due \ {c} /\ UNCHANGED stopped
    /\ UNCHANGED <<sessionVars, link, loop, callVars, requestVars, adapterVars, wire, boundVars>>

\* opRestart after the answer: a new configuration cycle ...
Reset(c) ==
    /\ pc[c] = "reset" /\ Goto(c, "redrain")
    /\ configDone' = FALSE /\ state' = "stopped" /\ gen' = gen + 1
    /\ UNCHANGED <<pooled, closed, ready, link, loop, stopped, callVars, requestVars,
                   adapterVars, wire, due, boundVars>>

\* ... and the stop of the previous run is dropped
Redrain(c) ==
    /\ pc[c] = "redrain" /\ TakeStop(c) /\ Goto(c, "ok")
    /\ UNCHANGED <<sessionVars, link, loop, callVars, requestVars, adapterVars, wire, boundVars>>

(***************************************************************************)
(* The pool closes the session                                             *)
(***************************************************************************)
\* what is under way in either direction is lost
Close == closed' = TRUE /\ link' = "gone" /\ pooled' = FALSE /\ inbox' = {} /\ wire' = <<>>

Remove(c) ==
    /\ pc[c] = "remove"
    /\ Goto(c, IF op[c] = "disconnect" THEN "ok" ELSE "error")
    /\ \/ pooled /\ Close
       \/ ~pooled /\ UNCHANGED <<pooled, closed, link, inbox, wire>>
    /\ UNCHANGED <<state, configDone, gen, ready, loop, stopped, callVars, requestVars,
                   prog, said, due, boundVars>>

\* evictOldestLocked on behalf of the launch of another session
Evict ==
    /\ pooled /\ evictions < MaxEvictions /\ evictions' = evictions + 1 /\ Close
    /\ UNCHANGED <<state, configDone, gen, ready, loop, stopped, pc, callVars, requestVars,
                   prog, said, due, faults>>

\* the reaper: nobody has used the session for 30 minutes, longer than any
\* time-out, so the only calls left are those whose write blocks
Reap ==
    /\ pooled /\ Close
    /\ \A c \in Calls : pc[c] \in {"idle"} \cup Ended \/ (pc[c] = "send" /\ link = "stuck")
    /\ UNCHANGED <<state, configDone, gen, ready, loop, stopped, pc, callVars, requestVars,
                   prog, said, due, boundVars>>

(***************************************************************************)
(* eventLoop                                                               *)
(***************************************************************************)
\* a message without a request number
Event(name) == [seq |-> 0, ok |-> TRUE, by |-> name]

\* deliverResponse: to the call that waits for this number, if there is one
Deliver(m) ==
    ans' = [c \in Calls |->
              IF pc[c] = "wait" /\ req[c] = m.seq /\ ans[c] = None THEN m ELSE ans[c]]

ReadResponse ==
    /\ loop = "read" /\ ~closed /\ wire # <<>> /\ Head(wire).seq # 0
    /\ Deliver(Head(wire)) /\ wire' = Tail(wire)
    /\ UNCHANGED <<sessionVars, link, loop, stopped, pc, callVars, seq, cmd, req,
                   adapterVars, due, boundVars>>

ReadEvent ==
    /\ loop = "read" /\ ~closed /\ wire # <<>> /\ Head(wire).seq = 0 /\ wire' = Tail(wire)
    /\ LET e == Head(wire).by IN
         \/ e = "initialized" /\ ready' = ready \cup {gen} /\ UNCHANGED <<state, loop>>
         \/ e = "stopped" /\ state' = "stopped" /\ loop' = "signal" /\ UNCHANGED ready
         \/ e = "continued" /\ state' = "running" /\ UNCHANGED <<loop, ready>>
         \/ e = "exited" /\ state' = "exited" /\ UNCHANGED <<loop, ready>>
         \/ e = "terminated" /\ state' = "terminated" /\ loop' = "exit" /\ UNCHANGED ready
    /\ UNCHANGED <<pooled, closed, configDone, gen, link, stopped, pc, callVars,
                   requestVars, adapterVars, due, boundVars>>

\* a reverse request is answered by the loop itself, under a number of its own;
\* on a stuck adapter the loop blocks in the write
Reverse(name) ==
    /\ loop = "read" /\ ~closed /\ wire # <<>> /\ Head(wire) = Event(name)
    /\ link # "stuck" /\ wire' = Tail(wire) /\ seq' = seq + 1
    /\ UNCHANGED <<sessionVars, link, loop, stopped, pc, callVars, cmd, req, ans, adapterVars,
                   due, boundVars>>

TryHandleReverseRequest == Reverse("handshake")
HandleStandardReverseRequest == Reverse("runInTerminal")

\* the connection is closed or broken
ReadFails ==
    /\ loop = "read" /\ (closed \/ (link = "gone" /\ wire = <<>>)) /\ loop' = "exit"
    /\ UNCHANGED <<sessionVars, link, stopped, pc, callVars, requestVars, adapterVars, wire,
                   due, boundVars>>

\* the deferred function of eventLoop
LoopExit ==
    /\ loop = "exit" /\ state' = "terminated" /\ loop' = "last"
    /\ UNCHANGED <<pooled, closed, configDone, gen, ready, link, stopped, pc, callVars,
                   requestVars, adapterVars, wire, due, boundVars>>

\* a call that has sent what leads to a stop, and has not returned
Waiting(c) == cmd[c] \in Starts /\ pc[c] \in {"wait", "running", "stop"}

\* a send that succeeds only if somebody waits already
SignalStopped_Unbuffered ==
    /\ loop \in {"signal", "last"}
    /\ stopped' = IF \E c \in Calls : pc[c] = "stop"
                  THEN IF loop = "signal" THEN "stop" ELSE "end"
                  ELSE stopped
    /\ loop' = IF loop = "signal" THEN "read" ELSE "ended"
    /\ due' = due \cup {c \in Calls : Waiting(c)}
    /\ UNCHANGED <<sessionVars, link, pc, callVars, requestVars, adapterVars, wire, boundVars>>

\* signalStopped: a send that does not block
SignalStopped ==
    /\ loop \in {"signal", "last"}
    /\ stopped' = IF stopped # "none" THEN stopped ELSE IF loop = "signal" THEN "stop" ELSE "end"
    /\ loop' = IF loop = "signal" THEN "read" ELSE "ended"
    /\ due' = due \cup {c \in Calls : Waiting(c)}
    /\ UNCHANGED <<sessionVars, link, pc, callVars, requestVars, adapterVars, wire, boundVars>>

(***************************************************************************)
(* The adapter (external): the Debug Adapter Protocol as the tool uses it  *)
(***************************************************************************)
Response(r, ok) == [seq |-> r.seq, ok |-> ok, by |-> r.cmd]

\* of the others the tool ignores whether they succeeded
Outcomes(request) == IF request \in {"initialize", "launch", "query"} THEN BOOLEAN ELSE {FALSE}

Serve(r) ==
    /\ link = "up" /\ Len(wire) < MaxWire /\ r \in inbox /\ inbox' = inbox \ {r}
    /\ \/ /\ prog' = prog /\ said' = said  \* refused, or nothing to do
          /\ r.cmd \notin {"configDone", "terminate", "disconnect"}
          /\ \E ok \in Outcomes(r.cmd) : wire' = Append(wire, Response(r, ok))
       \/ /\ r.cmd = "initialize" /\ prog' = prog /\ said' = said
          /\ wire' = wire \o <<Event("handshake"), Response(r, TRUE)>>
       \/ /\ r.cmd = "launch" /\ prog = "new" /\ prog' = "config" /\ said' = said
          /\ \E ask \in {<<>>, <<Event("runInTerminal")>>} :
                wire' = wire \o ask \o <<Response(r, TRUE)>>
       \/ /\ r.cmd = "configDone" /\ said' = said
          /\ prog' = IF prog \in {"new", "config"} THEN "running" ELSE prog
          /\ wire' = Append(wire, Response(r, TRUE))
       \/ /\ r.cmd = "resume" /\ prog = "stopped" /\ prog' = "running" /\ said' = said
          /\ wire' = wire \o <<Event("continued"), Response(r, TRUE)>>
       \/ /\ r.cmd = "restart" /\ prog \in {"running", "stopped"} /\ prog' = "config"
          /\ said' = FALSE /\ wire' = Append(wire, Response(r, TRUE))
       \/ /\ r.cmd \in {"terminate", "disconnect"} /\ prog' = "ended" /\ said' = said
          /\ wire' = wire \o <<Response(r, TRUE), Event("terminated")>>
    /\ UNCHANGED <<sessionVars, link, loop, stopped, pc, callVars, requestVars, due, boundVars>>

Announce ==
    /\ link = "up" /\ Len(wire) < MaxWire /\ ~said /\ prog \in {"new", "config"} /\ seq > 0
    /\ said' = TRUE /\ wire' = Append(wire, Event("initialized"))
    /\ UNCHANGED <<sessionVars, link, loop, stopped, pc, callVars, requestVars, inbox, prog,
                   due, boundVars>>

Stops ==
    /\ link = "up" /\ Len(wire) < MaxWire /\ prog = "running"
    /\ \/ prog' = "stopped" /\ wire' = Append(wire, Event("stopped"))
       \/ prog' = "ended" /\ wire' = wire \o <<Event("exited"), Event("terminated")>>
    /\ UNCHANGED <<sessionVars, link, loop, stopped, pc, callVars, requestVars, inbox, said,
                   due, boundVars>>

Breaks ==
    /\ link = "up" /\ faults < MaxFaults /\ faults' = faults + 1
    /\ link' \in {"stuck", "gone"} /\ inbox' = {}
    /\ UNCHANGED <<sessionVars, loop, stopped, pc, callVars, requestVars, prog, said, wire,
                   due, evictions>>

-----------------------------------------------------------------------------
Operation(c) ==
    \/ SetBreakpoints(c) \/ ExtendedBreakpoints(c) \/ DataBreakpoints(c) \/ Targets(c)
    \/ SetVariable(c) \/ Completions(c) \/ SourcesAndModules(c) \/ Disassemble(c)
    \/ WriteMemory(c) \/ ResolveAddress(c) \/ Evaluate(c) \/ ThreadsAndStack(c)
    \/ Variables(c) \/ CancelAndThreads(c) \/ Continue(c) \/ StepOperation(c) \/ Jump(c)
    \/ Pause(c) \/ Restart(c) \/ Terminate(c) \/ Disconnect(c) \/ Status(c) \/ Launch(c) \/ Attach(c)
    \/ Refused(c) \/ NotFound(c)

Progress(c) ==
    \/ Create(c) \/ CreateFails(c) \/ SendRequest(c) \/ SendFails(c) \/ Receive(c) \/ LaunchInitialized(c)
    \/ TerminateDone(c) \/ Timeout(c) \/ Entered(c) \/ CheckSessionAlive(c) \/ Drain(c)
    \/ MarkRunning(c) \/ Claim(c) \/ AwaitInitialized(c) \/ Rollback(c) \/ Running(c)
    \/ WaitForStopped(c) \/ Reset(c) \/ Redrain(c) \/ Remove(c)

Loop    == ReadResponse \/ ReadEvent \/ TryHandleReverseRequest
           \/ HandleStandardReverseRequest \/ ReadFails \/ LoopExit \/ SignalStopped
Adapter == (\E r \in inbox : Serve(r)) \/ Announce \/ Stops \/ Breaks
Next    == (\E c \in Calls : Operation(c) \/ Progress(c)) \/ Evict \/ Reap \/ Loop \/ Adapter

Spec == Init /\ [][Next]_vars
-----------------------------------------------------------------------------
\* sendRequest and deliverResponse: what a call takes for the answer to its
\* request is the answer to its request, whatever timed out before, and
\* whichever order the adapter answers in.
AnswersMatch ==
    \A c \in Calls : pc[c] = "wait" /\ ans[c] # None => ans[c].seq = req[c] /\ ans[c].by = cmd[c]

Configuring(c) ==
    pc[c] = "init" \/ (pc[c] \in {"send", "wait"} /\ cmd[c] \in {"exceptions", "configDone"})

\* sendConfigurationDoneIfNeeded ("to prevent double-send when two goroutines
\* call continue/step concurrently"): until a restart begins a new cycle, at
\* most one call at a time is configuring, and none starts to while an earlier
\* one has configured the adapter and returned or waits for the first stop.
ConfigOnce ==
    gen = 0 => \A c, d \in Calls :
        Configuring(c) /\ d # c => ~Configuring(d) /\ ~(pc[d] \in {"running", "stop", "ok"}
                                                        /\ cmd[d] = "configDone")

\* drain, sendRequest, waitForStopped: a stop signalled after a call has sent
\* its request is not lost: unless another call takes it, the call finds it in
\* the channel when it comes to wait.
NoLostStop == \A c \in due : stopped # "none"
=============================================================================
