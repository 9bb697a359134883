-------------------------- MODULE DapSessionProofs --------------------------
(***************************************************************************)
(* Proofs about DapSession for any number of calls and any bounds on the   *)
(* messages under way, the faults and the evictions.                       *)
(***************************************************************************)
EXTENDS DapSession, SequenceTheorems, TLAPS

\* What the wire carries: answers, and events under the number 0.
Events  == {"handshake", "runInTerminal", "initialized", "continued", "stopped", "exited", "terminated"}
Message == [seq : Nat, ok : BOOLEAN, by : Cmds \cup Events]
Typed ==
    /\ pc \in [Calls -> Steps] /\ op \in [Calls -> Ops] /\ cmd \in [Calls -> Cmds]
    /\ req \in [Calls -> Nat] /\ ans \in [Calls -> Message] /\ seq \in Nat /\ gen \in Nat
    /\ configDone \in BOOLEAN /\ stopped \in {"none", "stop", "end"} /\ due \subseteq Calls

\* Which requests an operation makes, and where it has made none yet.
OpInv(c) ==
    /\ pc[c] \in {"idle", "create", "check", "drain", "claim", "init", "mark"} => cmd[c] = "none"
    /\ pc[c] \in {"claim", "init", "rollback"} \/ cmd[c] \in {"exceptions", "configDone"} => op[c] = "resume"
    /\ op[c] = "terminate" => cmd[c] = "terminate"
    /\ pc[c] \in {"reset", "redrain"} => cmd[c] = "restart"
    /\ pc[c] = "entered" => cmd[c] = "launch"

\* A number stands for one request: what the adapter still has to answer, and
\* what it has answered, under the number a call waits for is that call's request.
Fits(n, request) ==
    n \in 1 .. seq /\ \A c \in Calls : pc[c] = "wait" /\ req[c] = n => request = cmd[c]
Known == {m \in Message : m.seq # 0 => Fits(m.seq, m.by)}
AnswerInv ==
    /\ wire \in Seq(Known)
    /\ \A r \in inbox : r.seq \in Nat /\ r.cmd \in Cmds /\ Fits(r.seq, r.cmd)
    /\ \A c \in Calls : pc[c] = "wait" => req[c] \in 1 .. seq
    /\ AnswersMatch

\* Before the first restart one call at most has, or has had, the configuration
\* in hand, and as long as there is one the flag is set.
Holder(c) ==
    \/ Configuring(c) \/ pc[c] = "rollback"
    \/ pc[c] \in {"running", "stop", "ok"} /\ cmd[c] = "configDone"
ConfigInv ==
    gen = 0 => \A c \in Calls : Holder(c) => configDone /\ \A d \in Calls \ {c} : ~Holder(d)

\* Only a call that has sent what leads to a stop is owed one.
StopInv == NoLostStop /\ \A c \in due : Waiting(c)

DapInv == Typed /\ (\A c \in Calls : OpInv(c)) /\ AnswerInv /\ ConfigInv /\ StopInv

-----------------------------------------------------------------------------
\* Sequences over a set that grows.
LEMMA SeqMono == ASSUME NEW S, NEW T, S \subseteq T, NEW s \in Seq(S) PROVE s \in Seq(T)
  BY SeqDef
LEMMA LongerSeqs ==
    ASSUME NEW S, NEW s \in Seq(S), NEW a \in S, NEW b \in S
    PROVE  /\ Append(s, a) \in Seq(S) /\ s \o <<a, b>> \in Seq(S)
           /\ (s \o <<>>) \o <<b>> \in Seq(S) /\ (s \o <<a>>) \o <<b>> \in Seq(S)
<1>1. <<>> \in Seq(S) /\ <<a>> \in Seq(S) /\ <<b>> \in Seq(S) /\ <<a, b>> \in Seq(S)
  OBVIOUS
<1>2. s \o <<>> \in Seq(S) /\ s \o <<a>> \in Seq(S) /\ s \o <<a, b>> \in Seq(S)
  BY <1>1, ConcatProperties
<1>3. (s \o <<>>) \o <<b>> \in Seq(S) /\ (s \o <<a>>) \o <<b>> \in Seq(S)
  BY <1>1, <1>2, ConcatProperties
<1> QED BY <1>2, <1>3, AppendProperties

\* No call has begun, nothing is under way.
LEMMA InitOK == Init => DapInv
<1> SUFFICES ASSUME Init PROVE DapInv
  OBVIOUS
<1>1. Typed
  <2>1. None \in Message /\ "idle" \in Steps /\ "none" \in Ops /\ "none" \in Cmds
    BY DEF None, Message, Steps, Ops, Cmds
  <2>2. seq \in {0, 2} /\ gen = 0 /\ stopped = "none" /\ due = {}
    BY DEF Init
  <2>4. configDone \in BOOLEAN
    BY Zenon DEF Init
  <2>3. /\ pc \in [Calls -> Steps] /\ op \in [Calls -> Ops] /\ cmd \in [Calls -> Cmds]
        /\ req \in [Calls -> Nat] /\ ans \in [Calls -> Message]
    BY <2>1 DEF Init
  <2> QED BY <2>2, <2>3, <2>4 DEF Typed
<1>2. AnswerInv
  BY DEF Init, AnswerInv, AnswersMatch
<1>3. \A c \in Calls : OpInv(c)
  BY DEF Init, OpInv
<1>4. ConfigInv /\ StopInv
  BY DEF Init, ConfigInv, Holder, Configuring, StopInv, NoLostStop
<1> QED BY <1>1, <1>2, <1>3, <1>4 DEF DapInv

\* The answers stay right when no call begins to wait and the numbers given out
\* are not forgotten.
LEMMA AnswersKept ==
    ASSUME AnswerInv, Typed, Typed', seq' \in Nat, seq <= seq',
           \A c \in Calls : pc'[c] = "wait" =>
               pc[c] = "wait" /\ cmd'[c] = cmd[c] /\ req'[c] = req[c] /\ ans'[c] = ans[c],
           wire' \in {wire, <<>>}, inbox' \subseteq inbox
    PROVE  AnswerInv'
<1>1. \A n, request : Fits(n, request) => Fits(n, request)'
  BY DEF Fits, Typed
<1>2. Known \subseteq Known'
  BY <1>1 DEF Known
<1>3. wire' \in Seq(Known')
  <2>1. wire \in Seq(Known') /\ <<>> \in Seq(Known')
    BY <1>2, SeqMono DEF AnswerInv
  <2> QED BY <2>1
<1>4. \A r \in inbox' : r.seq \in Nat /\ r.cmd \in Cmds /\ Fits(r.seq, r.cmd)'
  BY <1>1 DEF AnswerInv
<1>5. \A c \in Calls : pc'[c] = "wait" => req'[c] \in 1 .. seq'
  BY DEF AnswerInv, Typed
<1>6. AnswersMatch'
  BY DEF AnswerInv, AnswersMatch
<1> QED BY <1>3, <1>4, <1>5, <1>6 DEF AnswerInv

\* A step of call c that neither sends a request nor touches the connection or
\* the configuration.
Others(c) ==
    \A d \in Calls \ {c} : /\ pc'[d] = pc[d] /\ op'[d] = op[d] /\ cmd'[d] = cmd[d]
                           /\ req'[d] = req[d] /\ ans'[d] = ans[d]
LEMMA OneCall ==
    ASSUME DapInv, NEW c \in Calls, Typed', Others(c), OpInv(c)', Holder(c)' => Holder(c),
           pc'[c] # "wait", UNCHANGED <<wire, inbox, seq, gen, configDone>>,
           due' \subseteq due, c \in due' => Waiting(c)', stopped' = stopped \/ due' = {}
    PROVE  DapInv'
<1>1. \A d \in Calls : OpInv(d)'
  BY DEF DapInv, Others, OpInv
<1>2. AnswerInv'
  <2>1. seq \in Nat /\ seq <= seq'
    BY DEF DapInv, Typed
  <2> QED BY <2>1, AnswersKept DEF DapInv, Others
<1>3. ConfigInv'
  <2>1. \A d \in Calls : Holder(d)' => Holder(d)
    BY DEF Others, Holder, Configuring
  <2> QED BY <2>1 DEF DapInv, ConfigInv
<1>4. StopInv'
  <2>1. \A d \in Calls \ {c} : Waiting(d)' <=> Waiting(d)
    BY DEF Others, Waiting
  <2> QED BY <2>1 DEF DapInv, StopInv, NoLostStop, Typed
<1> QED BY <1>1, <1>2, <1>3, <1>4 DEF DapInv

\* A step of the event loop, the pool or the adapter that adds nothing to what
\* is under way and owes nobody a stop.
LEMMA NoCall ==
    ASSUME DapInv, UNCHANGED <<pc, op, cmd, req, ans, gen, configDone, stopped, due>>,
           seq' \in Nat, seq <= seq', wire' \in {wire, <<>>}, inbox' \subseteq inbox
    PROVE  DapInv'
<1>1. Typed' /\ \A d \in Calls : OpInv(d)'
  BY DEF DapInv, Typed, OpInv
<1>2. AnswerInv'
  BY <1>1, AnswersKept DEF DapInv
<1>3. ConfigInv' /\ StopInv'
  BY DEF DapInv, ConfigInv, Holder, Configuring, StopInv, NoLostStop, Waiting
<1> QED BY <1>1, <1>2, <1>3 DEF DapInv
-----------------------------------------------------------------------------
\* The operations begin: with a request, or with a look at the session.
LEMMA OperationStep == ASSUME DapInv, NEW c \in Calls, Operation(c) PROVE DapInv'
<1>1. /\ pc[c] = "idle" /\ OpInv(c) /\ Typed /\ op[c] # "terminate" /\ c \notin due /\ cmd[c] = "none"
  <2>1. pc[c] = "idle"
    BY DEF Operation, SetBreakpoints, ExtendedBreakpoints, DataBreakpoints, Targets, SetVariable,
           Completions, SourcesAndModules, Disassemble, WriteMemory, ResolveAddress, Evaluate,
           ThreadsAndStack, Variables, CancelAndThreads, Continue, StepOperation, Jump, Pause, Restart,
           Terminate, Disconnect, Status, Launch, Attach, Begin, Refused, NotFound, OpQuery, Enter
  <2> QED BY <2>1 DEF DapInv, OpInv, StopInv, Waiting
<1> DEFINE Same == UNCHANGED <<configDone, gen, stopped, seq, req, ans, inbox, wire, due>>
           Moves(s, o, q) == /\ pc' = [pc EXCEPT ![c] = s] /\ op' = [op EXCEPT ![c] = o]
                             /\ cmd' = [cmd EXCEPT ![c] = q] /\ Same
<1>2. ASSUME NEW s \in {"check", "create", "error", "ok"}, NEW o \in Ops \ {"terminate"}, Moves(s, o, "none")
      PROVE  DapInv'
  <2>1. Typed' /\ Others(c) /\ pc'[c] = s /\ op'[c] = o /\ cmd'[c] = "none"
    BY <1>1, <1>2 DEF Typed, Others, Steps, Ended, Cmds
  <2>2. OpInv(c)' /\ ~Holder(c)'
    BY <2>1 DEF OpInv, Holder, Configuring
  <2> QED BY <1>1, <1>2, <2>1, <2>2, OneCall
<1>3. ASSUME NEW q \in {"query", "restart", "terminate", "disconnect"}, NEW o \in Ops,
             o = "terminate" => q = "terminate", Moves("send", o, q)
      PROVE  DapInv'
  <2>1. Typed' /\ Others(c) /\ pc'[c] = "send" /\ op'[c] = o /\ cmd'[c] = q
    BY <1>1, <1>3 DEF Typed, Others, Steps, Cmds
  <2>2. OpInv(c)' /\ ~Holder(c)'
    BY <1>3, <2>1 DEF OpInv, Holder, Configuring
  <2> QED BY <1>1, <1>3, <2>1, <2>2, OneCall
<1>4. CASE \E o \in {"query", "inspect"} : OpQuery(c, o)
  <2>1. PICK o \in {"query", "inspect"} : Moves("send", o, "query")
    BY <1>4 DEF OpQuery, Enter, Ask, Goto, sessionVars, adapterVars
  <2> HIDE DEF Moves
  <2> QED BY <1>3, <2>1 DEF Ops
<1>5. CASE Continue(c) \/ StepOperation(c) \/ Jump(c) \/ Pause(c) \/ Status(c)
  <2>1. PICK o \in {"resume", "jump", "pause", "inspect"}, s \in {"check", "ok"} :
           Enter(c, o) /\ Goto(c, s) /\ UNCHANGED cmd
    BY <1>5 DEF Continue, StepOperation, Jump, Pause, Status
  <2>2. Moves(s, o, "none")
    BY <1>1, <2>1 DEF Enter, Goto, sessionVars, adapterVars, Typed
  <2> HIDE DEF Moves
  <2> QED BY <1>2, <2>2 DEF Ops
<1>6. CASE Restart(c) \/ Terminate(c) \/ Disconnect(c)
  <2>1. PICK o \in {"restart", "terminate", "disconnect"} : Moves("send", o, o)
    BY <1>6 DEF Restart, Terminate, Disconnect, Enter, Ask, Goto, sessionVars, adapterVars
  <2> HIDE DEF Moves
  <2> QED BY <1>3, <2>1 DEF Ops
<1>7. CASE Begin(c) \/ Refused(c) \/ NotFound(c)
  <2>1. PICK s \in {"create", "error"}, o \in {"launch", op[c]} : Moves(s, o, "none")
    BY <1>1, <1>7 DEF Begin, Refused, NotFound, Goto, sessionVars, adapterVars, callVars, requestVars, Typed
  <2> HIDE DEF Moves
  <2>2. o \in Ops \ {"terminate"}
    BY <1>1 DEF Typed, Ops
  <2> QED BY <1>2, <2>1, <2>2
<1> QED
  BY <1>4, <1>5, <1>6, <1>7
     DEF Operation, SetBreakpoints, ExtendedBreakpoints, DataBreakpoints, Targets, SetVariable,
         Completions, SourcesAndModules, Disassemble, WriteMemory, ResolveAddress, Evaluate,
         ThreadsAndStack, Variables, CancelAndThreads, Launch, Attach
-----------------------------------------------------------------------------
\* The steps of a call that send nothing and leave the configuration alone.
LEMMA CreateStep == ASSUME DapInv, NEW c \in Calls, Create(c) \/ CreateFails(c) PROVE DapInv'
<1>1. Typed /\ OpInv(c) /\ pc[c] = "create" /\ c \notin due /\ cmd[c] = "none"
  BY DEF DapInv, OpInv, StopInv, Waiting, Create, CreateFails
<1>2. /\ Typed' /\ Others(c) /\ pc'[c] \in {"send", "error"} /\ op'[c] = op[c]
      /\ cmd'[c] \in {"none", "initialize"}
  BY <1>1 DEF Create, CreateFails, Ask, Goto, callVars, requestVars, sessionVars, Typed, Others, Steps, Ended, Cmds
<1>3. OpInv(c)' /\ ~Holder(c)'
  <2>1. op[c] # "terminate"
    BY <1>1 DEF OpInv
  <2> QED BY <1>2, <2>1 DEF OpInv, Holder, Configuring
<1> QED
  BY <1>1, <1>2, <1>3, OneCall DEF Create, CreateFails, sessionVars, adapterVars, requestVars

\* A request that cannot be sent or is not answered in time.
LEMMA FailureStep == ASSUME DapInv, NEW c \in Calls, SendFails(c) \/ Timeout(c) PROVE DapInv'
<1>1. Typed /\ OpInv(c) /\ pc[c] \in {"send", "wait"} /\ (pc[c] = "send" => c \notin due)
  BY DEF DapInv, StopInv, Waiting, SendFails, Timeout
<1>2. /\ Typed' /\ Others(c) /\ pc'[c] = AfterFailure(c) /\ op'[c] = op[c] /\ cmd'[c] = cmd[c]
      /\ c \notin due' /\ due' \subseteq due
  <2>1. AfterFailure(c) \in Steps
    BY DEF AfterFailure, Steps, Ended
  <2> QED
    BY <1>1, <2>1 DEF SendFails, Timeout, Goto, callVars, requestVars, sessionVars, Typed, Others
<1>3. pc'[c] \in {"remove", "rollback", "ok", "error"}
  BY <1>2 DEF AfterFailure
<1>4. pc'[c] = "rollback" => Configuring(c) /\ cmd[c] \in {"exceptions", "configDone"}
  BY <1>1, <1>2 DEF AfterFailure, Configuring
<1>5. pc'[c] = "ok" => op[c] = "terminate"
  BY <1>2 DEF AfterFailure
<1>6. OpInv(c)' /\ (Holder(c)' => Holder(c))
  BY <1>1, <1>2, <1>3, <1>4, <1>5 DEF OpInv, Holder, Configuring
<1> QED
  BY <1>1, <1>2, <1>3, <1>6, OneCall DEF SendFails, Timeout, sessionVars, adapterVars, requestVars

\* An answer is taken, and the operation goes on.
LEMMA ReceiveStep == ASSUME DapInv, NEW c \in Calls, Receive(c) PROVE DapInv'
<1>1. Typed /\ OpInv(c) /\ pc[c] = "wait" /\ (c \in due => cmd[c] \in Starts)
  BY DEF DapInv, StopInv, Waiting, Receive
<1> DEFINE s == AfterAnswer(c)[1]
           q == AfterAnswer(c)[2]
<1>2. \/ cmd[c] = "initialize" /\ s \in {"send", "remove"} /\ q \in {"initialize", "launch"}
      \/ cmd[c] = "launch" /\ s \in {"entered", "remove"} /\ q = "launch"
      \/ cmd[c] = "exceptions" /\ s = "send" /\ q = "configDone"
      \/ cmd[c] = "configDone" /\ s = "running" /\ q = "configDone"
      \/ cmd[c] \in {"resume", "pause"} /\ s = "stop" /\ q = cmd[c]
      \/ cmd[c] = "restart" /\ s = "reset" /\ q = "restart"
      \/ cmd[c] = "disconnect" /\ s = "remove" /\ q = "disconnect"
      \/ cmd[c] \in {"none", "query", "terminate"} /\ s \in {"ok", "error"} /\ q = cmd[c]
  <2>1. cmd[c] \in Cmds
    BY <1>1 DEF Typed
  <2> QED BY <2>1 DEF AfterAnswer, Cmds
<1> HIDE DEF s, q
<1>3. s \in Steps /\ q \in Cmds /\ s # "wait"
  BY <1>2 DEF Steps, Ended, Cmds
<1>4. pc' = [pc EXCEPT ![c] = s] /\ cmd' = [cmd EXCEPT ![c] = q] /\ ans' = [ans EXCEPT ![c] = None]
  BY DEF Receive, Goto, s, q
<1>5. /\ Typed' /\ Others(c) /\ pc'[c] = s /\ op'[c] = op[c] /\ cmd'[c] = q
  <2>1. None \in Message
    BY DEF None, Message, Cmds
  <2> QED BY <1>1, <1>3, <1>4, <2>1 DEF Receive, callVars, sessionVars, Typed, Others
<1>6. OpInv(c)'
  BY <1>1, <1>2, <1>5 DEF OpInv
<1>7. Holder(c)' => Holder(c)
  BY <1>1, <1>2, <1>5 DEF Holder, Configuring
<1>8. c \in due => Waiting(c)'
  BY <1>1, <1>2, <1>5 DEF Waiting, Starts
<1> QED
  BY <1>3, <1>5, <1>6, <1>7, <1>8, OneCall DEF Receive, sessionVars, adapterVars

\* The steps that only move a call, whose request leads to no stop.
LEMMA MoveStep ==
    ASSUME DapInv, NEW c \in Calls,
           LaunchInitialized(c) \/ TerminateDone(c) \/ Entered(c) \/ CheckSessionAlive(c)
    PROVE  DapInv'
<1>1. /\ Typed /\ OpInv(c) /\ c \notin due
      /\ \/ pc[c] \in {"wait", "entered"} /\ cmd[c] \in {"launch", "terminate"}
         \/ pc[c] = "check" /\ cmd[c] = "none"
  BY DEF DapInv, OpInv, StopInv, Waiting, Starts, LaunchInitialized, TerminateDone, Entered, CheckSessionAlive
<1>2. PICK s \in {"entered", "ok", "error", "drain"} :
         /\ pc' = [pc EXCEPT ![c] = s]
         /\ s = "drain" => cmd[c] = "none"
         /\ s = "entered" => cmd[c] = "launch"
  BY <1>1 DEF LaunchInitialized, TerminateDone, Entered, SetState, CheckSessionAlive, Goto
<1>3. Typed' /\ Others(c) /\ pc'[c] = s /\ op'[c] = op[c] /\ cmd'[c] = cmd[c]
  BY <1>1, <1>2 DEF LaunchInitialized, TerminateDone, Entered, SetState, CheckSessionAlive, callVars,
                    requestVars, sessionVars, Typed, Others, Steps, Ended
<1>4. OpInv(c)' /\ ~Holder(c)'
  BY <1>1, <1>2, <1>3 DEF OpInv, Holder, Configuring
<1> QED
  BY <1>1, <1>3, <1>4, OneCall
     DEF LaunchInitialized, TerminateDone, Entered, SetState, CheckSessionAlive, sessionVars,
         adapterVars, requestVars

\* The drains: what is taken out of stoppedCh was owed to nobody, or to others
\* who lose it.
LEMMA DrainStep == ASSUME DapInv, NEW c \in Calls, Drain(c) \/ Redrain(c) PROVE DapInv'
<1>1. /\ Typed /\ OpInv(c) /\ c \notin due /\ (stopped = "none" => due = {})
      /\ \/ pc[c] = "drain" /\ cmd[c] = "none" /\ Drain(c)
         \/ pc[c] = "redrain" /\ cmd[c] = "restart" /\ Redrain(c)
  BY DEF DapInv, OpInv, StopInv, NoLostStop, Waiting, Drain, Redrain
<1>2. due' = {}
  BY <1>1 DEF Drain, Redrain, TakeStop
<1>3. PICK s \in {"claim", "mark", "send", "ok"}, q \in {cmd[c], "pause"} :
         /\ pc' = [pc EXCEPT ![c] = s] /\ cmd' = [cmd EXCEPT ![c] = q]
         /\ s # "ok" => cmd[c] = "none" /\ op[c] # "terminate"
         /\ s = "claim" => op[c] = "resume"
         /\ q = "pause" <=> s = "send"
  <2>1. cmd = [cmd EXCEPT ![c] = cmd[c]]
    BY <1>1 DEF Typed
  <2>2. CASE Redrain(c)
    BY <1>1, <2>1, <2>2 DEF Redrain, Goto, requestVars
  <2>3. CASE Drain(c)
    BY <1>1, <2>1, <2>3 DEF Drain, Goto, Ask, OpInv
  <2> QED BY <1>1, <2>2, <2>3
<1>4. Typed' /\ Others(c) /\ pc'[c] = s /\ op'[c] = op[c] /\ cmd'[c] = q
  <2>1. q \in Cmds
    BY <1>1 DEF Typed, Cmds
  <2>2. s \in Steps
    BY DEF Steps, Ended
  <2>3. stopped' = "none"
    BY <1>1 DEF Drain, Redrain, TakeStop
  <2> QED BY <1>1, <1>2, <1>3, <2>1, <2>2, <2>3 DEF Drain, Redrain, callVars, requestVars, sessionVars, Typed, Others
<1>5. OpInv(c)' /\ ~Holder(c)'
  BY <1>1, <1>3, <1>4 DEF OpInv, Holder, Configuring
<1> QED
  BY <1>1, <1>2, <1>4, <1>5, OneCall DEF Drain, Redrain, sessionVars, adapterVars, requestVars

\* Going on to run the program, and waiting for its stop.
LEMMA RunStep ==
    ASSUME DapInv, NEW c \in Calls, MarkRunning(c) \/ Running(c) \/ WaitForStopped(c)
    PROVE  DapInv'
<1>1. Typed /\ OpInv(c)
  BY DEF DapInv
<1>2. CASE MarkRunning(c)
  <2>1. pc[c] = "mark" /\ cmd[c] = "none" /\ op[c] # "terminate" /\ c \notin due
    BY <1>1, <1>2 DEF MarkRunning, OpInv, DapInv, StopInv, Waiting
  <2>2. Typed' /\ Others(c) /\ pc'[c] = "send" /\ op'[c] = op[c] /\ cmd'[c] = "resume"
    BY <1>1, <1>2 DEF MarkRunning, Ask, Goto, callVars, Typed, Others, Steps, Cmds
  <2>3. OpInv(c)' /\ ~Holder(c)'
    BY <1>1, <2>1, <2>2 DEF OpInv, Holder, Configuring
  <2> QED BY <1>2, <2>1, <2>2, <2>3, OneCall DEF MarkRunning, adapterVars
<1>3. CASE Running(c)
  <2>1. Typed' /\ Others(c) /\ pc[c] = "running" /\ pc'[c] = "stop" /\ op'[c] = op[c] /\ cmd'[c] = cmd[c]
    BY <1>1, <1>3 DEF Running, SetState, Goto, callVars, requestVars, Typed, Others, Steps
  <2>2. OpInv(c)' /\ (Holder(c)' => Holder(c)) /\ (c \in due => Waiting(c)')
    BY <1>1, <2>1 DEF OpInv, Holder, Configuring, DapInv, StopInv, Waiting
  <2> QED BY <1>3, <2>1, <2>2, OneCall DEF Running, SetState, adapterVars, requestVars
<1>4. CASE WaitForStopped(c)
  <2>1. /\ Typed' /\ Others(c) /\ pc[c] = "stop" /\ pc'[c] = "ok" /\ op'[c] = op[c] /\ cmd'[c] = cmd[c]
        /\ c \notin due' /\ due' \subseteq due /\ (stopped' = stopped \/ due' = {})
    BY <1>1, <1>4 DEF WaitForStopped, Goto, sessionVars, callVars, requestVars, Typed, Others, Steps, Ended
  <2>2. OpInv(c)' /\ (Holder(c)' => Holder(c))
    BY <1>1, <2>1 DEF OpInv, Holder, Configuring
  <2> QED BY <1>4, <2>1, <2>2, OneCall DEF WaitForStopped, sessionVars, adapterVars, requestVars
<1> QED BY <1>2, <1>3, <1>4
-----------------------------------------------------------------------------
\* The configuration: it is claimed by one call, given back when it fails, and
\* begins anew with a restart.
LEMMA ClaimStep == ASSUME DapInv, NEW c \in Calls, Claim(c) PROVE DapInv'
<1>1. Typed /\ OpInv(c) /\ pc[c] = "claim" /\ cmd[c] = "none" /\ op[c] = "resume" /\ c \notin due
  BY DEF DapInv, OpInv, StopInv, Waiting, Claim
<1>2. /\ Typed' /\ Others(c) /\ pc'[c] = (IF configDone THEN "running" ELSE "init")
      /\ op'[c] = op[c] /\ cmd'[c] = cmd[c]
  <2>1. configDone' \in BOOLEAN
    BY DEF Claim
  <2> QED BY <1>1, <2>1 DEF Claim, Goto, requestVars, Typed, Others, Steps
<1>3. CASE configDone
  <2>1. OpInv(c)' /\ ~Holder(c)'
    BY <1>1, <1>2, <1>3 DEF OpInv, Holder, Configuring
  <2>2. configDone' = configDone
    BY <1>1, <1>3 DEF Claim, Typed
  <2> QED BY <1>1, <1>2, <1>3, <2>1, <2>2, OneCall DEF Claim, adapterVars, requestVars
<1>4. CASE ~configDone
  <2>1. \A d \in Calls : OpInv(d)'
    BY <1>1, <1>2, <1>4 DEF DapInv, OpInv, Others
  <2>2. AnswerInv'
    <3>1. seq' \in Nat /\ seq <= seq' /\ pc'[c] # "wait"
      BY <1>1, <1>2, <1>4 DEF Claim, requestVars, Typed
    <3> QED BY <1>2, <3>1, AnswersKept DEF DapInv, Others, Claim, adapterVars
  <2>3. ConfigInv'
    <3>1. gen = 0 => \A d \in Calls : ~Holder(d)
      BY <1>4 DEF DapInv, ConfigInv
    <3>2. gen = 0 => \A d \in Calls \ {c} : ~Holder(d)'
      BY <1>2, <3>1 DEF Others, Holder, Configuring
    <3>3. gen' = gen /\ configDone'
      BY DEF Claim
    <3> QED BY <3>2, <3>3 DEF ConfigInv
  <2>4. StopInv'
    BY <1>1, <1>2 DEF Claim, DapInv, StopInv, NoLostStop, Waiting, Others, Typed
  <2> QED BY <1>2, <2>1, <2>2, <2>3, <2>4 DEF DapInv
<1> QED BY <1>3, <1>4

LEMMA AwaitInitializedStep == ASSUME DapInv, NEW c \in Calls, AwaitInitialized(c) PROVE DapInv'
<1>1. Typed /\ OpInv(c) /\ pc[c] = "init" /\ cmd[c] = "none" /\ op[c] = "resume" /\ c \notin due
  BY DEF DapInv, OpInv, StopInv, Waiting, AwaitInitialized
<1>2. /\ Typed' /\ Others(c) /\ op'[c] = op[c]
      /\ \/ pc'[c] = "send" /\ cmd'[c] = "exceptions"
         \/ pc'[c] = "rollback" /\ cmd'[c] = "none"
  BY <1>1 DEF AwaitInitialized, Ask, Goto, callVars, sessionVars, Typed, Others, Steps, Cmds
<1>3. OpInv(c)' /\ Holder(c)
  BY <1>1, <1>2 DEF OpInv, Holder, Configuring
<1> QED BY <1>1, <1>2, <1>3, OneCall DEF AwaitInitialized, sessionVars, adapterVars

LEMMA RollbackStep == ASSUME DapInv, NEW c \in Calls, Rollback(c) PROVE DapInv'
<1>1. Typed /\ OpInv(c) /\ pc[c] = "rollback" /\ c \notin due
  BY DEF DapInv, StopInv, Waiting, Rollback
<1>2. Typed' /\ Others(c) /\ pc'[c] = "error" /\ op'[c] = op[c] /\ cmd'[c] = cmd[c]
  <2>1. configDone' \in BOOLEAN
    BY DEF Rollback
  <2> QED BY <1>1, <2>1 DEF Rollback, Goto, callVars, requestVars, Typed, Others, Steps, Ended
<1>3. \A d \in Calls : OpInv(d)'
  BY <1>1, <1>2 DEF DapInv, OpInv, Others
<1>4. AnswerInv'
  <2>1. seq' \in Nat /\ seq <= seq'
    BY <1>1 DEF Rollback, requestVars, Typed
  <2> QED BY <1>2, <2>1, AnswersKept DEF DapInv, Others, Rollback, adapterVars
<1>5. ConfigInv'
  <2>1. gen = 0 => \A d \in Calls \ {c} : ~Holder(d)
    BY <1>1 DEF DapInv, ConfigInv, Holder
  <2>2. gen = 0 => \A d \in Calls : ~Holder(d)'
    BY <1>2, <2>1 DEF Others, Holder, Configuring
  <2> QED BY <2>2 DEF ConfigInv, Rollback
<1>6. StopInv'
  BY <1>1, <1>2 DEF Rollback, DapInv, StopInv, NoLostStop, Waiting, Others, Typed
<1> QED BY <1>2, <1>3, <1>4, <1>5, <1>6 DEF DapInv

LEMMA ResetStep == ASSUME DapInv, NEW c \in Calls, Reset(c) PROVE DapInv'
<1>1. Typed /\ OpInv(c) /\ pc[c] = "reset" /\ c \notin due
  BY DEF DapInv, StopInv, Waiting, Reset
<1>2. Typed' /\ Others(c) /\ pc'[c] = "redrain" /\ op'[c] = op[c] /\ cmd'[c] = cmd[c]
  <2>1. configDone' \in BOOLEAN
    BY DEF Reset
  <2>2. gen' \in Nat
    BY <1>1 DEF Reset, Typed
  <2> QED BY <1>1, <2>1, <2>2 DEF Reset, Goto, callVars, requestVars, Typed, Others, Steps
<1>3. \A d \in Calls : OpInv(d)'
  BY <1>1, <1>2 DEF DapInv, OpInv, Others
<1>4. AnswerInv'
  <2>1. seq' \in Nat /\ seq <= seq'
    BY <1>1 DEF Reset, requestVars, Typed
  <2> QED BY <1>2, <2>1, AnswersKept DEF DapInv, Others, Reset, adapterVars
<1>5. ConfigInv'
  BY <1>1 DEF ConfigInv, Reset, Typed
<1>6. StopInv'
  BY <1>1, <1>2 DEF Reset, DapInv, StopInv, NoLostStop, Waiting, Others, Typed
<1> QED BY <1>2, <1>3, <1>4, <1>5, <1>6 DEF DapInv

-----------------------------------------------------------------------------
\* A request is sent under a number that nobody has had.
LEMMA SendRequestStep == ASSUME DapInv, NEW c \in Calls, SendRequest(c) PROVE DapInv'
<1>1. Typed /\ OpInv(c) /\ pc[c] = "send" /\ cmd[c] \in Cmds
  BY DEF DapInv, Typed, SendRequest
<1>2. /\ seq' = seq + 1 /\ req' = [req EXCEPT ![c] = seq + 1] /\ ans' = [ans EXCEPT ![c] = None]
      /\ pc' = [pc EXCEPT ![c] = "wait"] /\ due' = due \ {c} /\ wire' = wire
      /\ inbox' \subseteq inbox \cup {[seq |-> seq + 1, cmd |-> cmd[c]]}
      /\ UNCHANGED <<op, cmd, configDone, gen, stopped>>
  BY DEF SendRequest, Goto, sessionVars, callVars
<1>3. Typed'
  <2>1. None \in Message /\ "wait" \in Steps
    BY DEF None, Message, Cmds, Steps
  <2> QED BY <1>1, <1>2, <2>1 DEF Typed
<1>4. \A d \in Calls \ {c} : pc'[d] = pc[d] /\ req'[d] = req[d] /\ ans'[d] = ans[d]
  BY <1>1, <1>2 DEF Typed
<1>5. pc'[c] = "wait" /\ req'[c] = seq + 1 /\ ans'[c] = None /\ seq \in Nat
  BY <1>1, <1>2 DEF Typed
<1>6. \A d \in Calls : OpInv(d)'
  BY <1>1, <1>2, <1>4, <1>5 DEF DapInv, OpInv
<1>7. AnswerInv'
  <2>1. \A n, request : Fits(n, request) => Fits(n, request)'
    BY <1>2, <1>4, <1>5 DEF Fits
  <2>2. wire' \in Seq(Known')
    <3>1. Known \subseteq Known'
      BY <2>1 DEF Known
    <3> QED BY <1>2, <3>1, SeqMono DEF DapInv, AnswerInv
  <2>3. \A r \in inbox' : r.seq \in Nat /\ r.cmd \in Cmds /\ Fits(r.seq, r.cmd)'
    <3>1. \A r \in inbox : r.seq \in Nat /\ r.cmd \in Cmds /\ Fits(r.seq, r.cmd)'
      BY <2>1 DEF DapInv, AnswerInv
    <3>2. \A d \in Calls \ {c} : pc'[d] = "wait" => req'[d] # seq + 1
      BY <1>4, <1>5 DEF DapInv, AnswerInv, Typed
    <3>3. ASSUME NEW n, NEW request, n = seq + 1, request = cmd[c]
          PROVE  n \in Nat /\ request \in Cmds /\ Fits(n, request)'
      BY <1>1, <1>2, <1>5, <3>2, <3>3 DEF Fits
    <3>4. ASSUME NEW r \in inbox', r \notin inbox PROVE r.seq = seq + 1 /\ r.cmd = cmd[c]
      BY <1>2, <3>4
    <3> QED BY <3>1, <3>3, <3>4
  <2>4. \A d \in Calls : pc'[d] = "wait" => req'[d] \in 1 .. seq'
    BY <1>2, <1>4, <1>5 DEF DapInv, AnswerInv, Typed
  <2>5. AnswersMatch'
    BY <1>2, <1>4, <1>5 DEF DapInv, AnswerInv, AnswersMatch, None
  <2> QED BY <2>2, <2>3, <2>4, <2>5 DEF AnswerInv
<1>8. ConfigInv'
  <2>1. \A d \in Calls : Holder(d)' => Holder(d)
    BY <1>1, <1>2, <1>4, <1>5 DEF Holder, Configuring
  <2> QED BY <1>2, <2>1 DEF DapInv, ConfigInv
<1>9. StopInv'
  BY <1>2, <1>4 DEF DapInv, StopInv, NoLostStop, Waiting, Typed
<1> QED BY <1>3, <1>6, <1>7, <1>8, <1>9 DEF DapInv

\* The session is closed by a call: what is under way is lost.
LEMMA RemoveStep == ASSUME DapInv, NEW c \in Calls, Remove(c) PROVE DapInv'
<1>1. Typed /\ OpInv(c) /\ pc[c] = "remove" /\ c \notin due
  BY DEF DapInv, StopInv, Waiting, Remove
<1>2. /\ Typed' /\ Others(c) /\ pc'[c] = (IF op[c] = "disconnect" THEN "ok" ELSE "error")
      /\ op'[c] = op[c] /\ cmd'[c] = cmd[c]
  BY <1>1 DEF Remove, Goto, callVars, requestVars, Typed, Others, Steps, Ended
<1>3. OpInv(c)' /\ ~Holder(c)'
  BY <1>1, <1>2 DEF OpInv, Holder, Configuring
<1>4. \A d \in Calls : OpInv(d)'
  BY <1>2, <1>3 DEF DapInv, OpInv, Others
<1>5. AnswerInv'
  <2>1. seq' \in Nat /\ seq <= seq' /\ wire' \in {wire, <<>>} /\ inbox' \subseteq inbox /\ pc'[c] # "wait"
    BY <1>1, <1>2 DEF Remove, Close, requestVars, Typed
  <2> QED BY <1>2, <2>1, AnswersKept DEF DapInv, Others
<1>6. ConfigInv'
  <2>1. \A d \in Calls : Holder(d)' => Holder(d)
    BY <1>2, <1>3 DEF Others, Holder, Configuring
  <2> QED BY <2>1 DEF DapInv, ConfigInv, Remove
<1>7. StopInv'
  BY <1>1, <1>2 DEF Remove, DapInv, StopInv, NoLostStop, Waiting, Others, Typed
<1> QED BY <1>2, <1>4, <1>5, <1>6, <1>7 DEF DapInv

-----------------------------------------------------------------------------
\* The event loop hands an answer to the call whose number it has.
LEMMA ReadResponseStep == ASSUME DapInv, ReadResponse PROVE DapInv'
<1> DEFINE m == Head(wire)
<1>1. wire \in Seq(Known) /\ wire # <<>> /\ Typed /\ m.seq # 0
  BY DEF DapInv, AnswerInv, ReadResponse
<1>2. m \in Known /\ Tail(wire) \in Seq(Known)
  BY <1>1, HeadTailProperties
<1>3. m \in Message /\ Fits(m.seq, m.by)
  BY <1>1, <1>2 DEF Known
<1> HIDE DEF m
<1>4. /\ ans' = [c \in Calls |-> IF pc[c] = "wait" /\ req[c] = m.seq /\ ans[c] = None THEN m ELSE ans[c]]
      /\ wire' = Tail(wire)
      /\ UNCHANGED <<configDone, gen, stopped, pc, op, seq, cmd, req, inbox, due>>
  BY DEF ReadResponse, Deliver, sessionVars, callVars, adapterVars, m
<1>5. Typed'
  BY <1>1, <1>3, <1>4 DEF Typed
<1>6. (\A c \in Calls : OpInv(c)') /\ ConfigInv' /\ StopInv'
  BY <1>4 DEF DapInv, OpInv, ConfigInv, Holder, Configuring, StopInv, NoLostStop, Waiting
<1>7. AnswerInv'
  <2>1. \A n, request : Fits(n, request)' <=> Fits(n, request)
    BY <1>4 DEF Fits
  <2>2. Known' = Known
    BY <2>1 DEF Known
  <2>3. AnswersMatch'
    BY <1>3, <1>4 DEF DapInv, AnswerInv, AnswersMatch, Fits
  <2> QED BY <1>2, <1>4, <2>1, <2>2, <2>3 DEF DapInv, AnswerInv
<1> QED BY <1>5, <1>6, <1>7 DEF DapInv

\* Messages are read that are no answers; the loop ends.
LEMMA ReadEventStep ==
    ASSUME DapInv,
           ReadEvent \/ TryHandleReverseRequest \/ HandleStandardReverseRequest \/ ReadFails \/ LoopExit
    PROVE  DapInv'
<1>1. Typed /\ wire \in Seq(Known)
  BY DEF DapInv, AnswerInv
<1>2. /\ UNCHANGED <<pc, op, cmd, req, ans, gen, configDone, stopped, due, inbox>>
      /\ seq' \in {seq, seq + 1} /\ (wire' = wire \/ (wire # <<>> /\ wire' = Tail(wire)))
  <2>1. CASE ReadEvent
    BY <2>1 DEF ReadEvent, sessionVars, callVars, requestVars, adapterVars
  <2>2. CASE TryHandleReverseRequest \/ HandleStandardReverseRequest
    BY <2>2 DEF TryHandleReverseRequest, HandleStandardReverseRequest, Reverse, sessionVars, callVars, adapterVars
  <2>3. CASE ReadFails \/ LoopExit
    <3>1. /\ UNCHANGED <<pc, op, cmd, req, ans, gen, configDone, stopped, due, inbox>>
          /\ seq' = seq /\ wire' = wire
      BY <2>3 DEF ReadFails, LoopExit, sessionVars, callVars, requestVars, adapterVars
    <3>2. seq' \in {seq, seq + 1}
      BY <3>1
    <3> QED BY Zenon, <3>1, <3>2
  <2> QED BY <2>1, <2>2, <2>3
<1>3. Typed' /\ (\A c \in Calls : OpInv(c)') /\ ConfigInv' /\ StopInv'
  BY <1>1, <1>2 DEF DapInv, Typed, OpInv, ConfigInv, Holder, Configuring, StopInv, NoLostStop, Waiting
<1>4. AnswerInv'
  <2>1. \A n, request : Fits(n, request) => Fits(n, request)'
    BY <1>1, <1>2 DEF Fits, Typed
  <2>2. Known \subseteq Known'
    BY <2>1 DEF Known
  <2>3. wire' \in Seq(Known)
    BY <1>1, <1>2, HeadTailProperties
  <2>4. wire' \in Seq(Known')
    BY <2>2, <2>3, SeqMono
  <2>5. \A c \in Calls : pc'[c] = "wait" => req'[c] \in 1 .. seq'
    BY <1>1, <1>2 DEF DapInv, AnswerInv, Typed
  <2>6. AnswersMatch'
    BY <1>2 DEF DapInv, AnswerInv, AnswersMatch
  <2> QED BY <1>2, <2>1, <2>4, <2>5, <2>6 DEF DapInv, AnswerInv
<1> QED BY <1>3, <1>4 DEF DapInv

\* A stop is owed only when the channel holds one.
LEMMA SignalStoppedStep == ASSUME DapInv, SignalStopped PROVE DapInv'
<1>1. Typed
  BY DEF DapInv
<1>2. /\ UNCHANGED <<pc, op, cmd, req, ans, seq, gen, configDone, wire, inbox>>
      /\ stopped' \in {"none", "stop", "end"} /\ stopped' # "none"
      /\ due' = due \cup {c \in Calls : Waiting(c)}
  BY <1>1 DEF SignalStopped, sessionVars, callVars, requestVars, adapterVars, Typed
<1>3. Typed' /\ (\A c \in Calls : OpInv(c)') /\ ConfigInv'
  BY <1>1, <1>2 DEF DapInv, Typed, OpInv, ConfigInv, Holder, Configuring
<1>4. StopInv'
  BY <1>2 DEF DapInv, StopInv, NoLostStop, Waiting
<1>5. AnswerInv'
  <2>1. seq' \in Nat /\ seq <= seq'
    BY <1>1, <1>2 DEF Typed
  <2> QED BY <1>2, <1>3, <2>1, AnswersKept DEF DapInv
<1> QED BY <1>3, <1>4, <1>5 DEF DapInv

\* The pool closes the session, or the adapter breaks: requests and answers are lost.
LEMMA LossStep == ASSUME DapInv, Evict \/ Reap \/ Breaks PROVE DapInv'
<1>1. seq' \in Nat /\ seq <= seq' /\ wire' \in {wire, <<>>} /\ inbox' \subseteq inbox
  BY DEF Evict, Reap, Breaks, Close, requestVars, DapInv, Typed
<1> QED
  BY <1>1, NoCall DEF Evict, Reap, Breaks, sessionVars, callVars, requestVars

-----------------------------------------------------------------------------
\* What the adapter sends is known: an event, or the answer to a request it had.
LEMMA SendsKnown ==
    ASSUME DapInv, wire' \in Seq(Known), inbox' \subseteq inbox,
           UNCHANGED <<pc, op, cmd, req, ans, seq, gen, configDone, stopped, due>>
    PROVE  DapInv'
<1>1. Typed' /\ (\A c \in Calls : OpInv(c)') /\ ConfigInv' /\ StopInv'
  BY DEF DapInv, Typed, OpInv, ConfigInv, Holder, Configuring, StopInv, NoLostStop, Waiting
<1>2. \A n, request : Fits(n, request)' <=> Fits(n, request)
  BY DEF Fits
<1>3. Known' = Known
  BY <1>2 DEF Known
<1>5. AnswerInv'
  BY <1>2, <1>3 DEF DapInv, AnswerInv, AnswersMatch
<1> QED BY <1>1, <1>5 DEF DapInv

LEMMA EventsKnown == \A e \in Events : Event(e) \in Known
  BY DEF Event, Known, Message

LEMMA ServeStep == ASSUME DapInv, NEW r \in inbox, Serve(r) PROVE DapInv'
<1>1. \A ok \in BOOLEAN : Response(r, ok) \in Known
  BY DEF DapInv, AnswerInv, Response, Known, Message, Fits
<1>2. \A request : Outcomes(request) \subseteq BOOLEAN
  BY DEF Outcomes
<1>3. wire \in Seq(Known)
  BY DEF DapInv, AnswerInv
<1>4. Response(r, TRUE) \in Known
  BY <1>1
<1>5. wire' \in Seq(Known)
  <2>1. /\ Event("handshake") \in Known /\ Event("continued") \in Known /\ Event("terminated") \in Known
        /\ Event("runInTerminal") \in Known
    BY EventsKnown DEF Events
  <2>2. CASE \E m \in Known : wire' = Append(wire, m)
    BY <1>3, <2>2, LongerSeqs
  <2>3. CASE \E a, b \in Known : wire' = wire \o <<a, b>>
    BY <1>3, <2>3, LongerSeqs
  <2>4. CASE \E a, b \in Known : wire' \in {(wire \o <<>>) \o <<b>>, (wire \o <<a>>) \o <<b>>}
    BY <1>3, <2>4, LongerSeqs
  <2>5. \/ \E m \in Known : wire' = Append(wire, m)
        \/ \E a, b \in Known : wire' = wire \o <<a, b>>
        \/ \E ask \in {<<>>, <<Event("runInTerminal")>>} : wire' = (wire \o ask) \o <<Response(r, TRUE)>>
    BY <1>1, <1>2, <1>4, <2>1 DEF Serve
  <2> QED BY <1>4, <2>1, <2>2, <2>3, <2>4, <2>5
<1> QED
  BY <1>5, SendsKnown DEF Serve, sessionVars, callVars, requestVars

LEMMA EventSentStep == ASSUME DapInv, Announce \/ Stops PROVE DapInv'
<1>1. wire \in Seq(Known)
  BY DEF DapInv, AnswerInv
<1>2. PICK m \in Known, n \in Known : wire' = Append(wire, m) \/ wire' = wire \o <<m, n>>
  BY EventsKnown DEF Announce, Stops, Events
<1>3. wire' \in Seq(Known)
  BY <1>1, <1>2, LongerSeqs
<1> QED
  BY <1>3, SendsKnown DEF Announce, Stops, sessionVars, callVars, requestVars

-----------------------------------------------------------------------------
\* Every step preserves the invariant.
LEMMA NextOK == DapInv /\ [Next]_vars => DapInv'
<1> SUFFICES ASSUME DapInv, [Next]_vars PROVE DapInv'
  OBVIOUS
<1>1. CASE UNCHANGED vars
  <2>1. seq' \in Nat /\ seq <= seq'
    BY <1>1 DEF vars, requestVars, DapInv, Typed
  <2> QED BY <1>1, <2>1, NoCall DEF vars, sessionVars, callVars, requestVars, adapterVars
<1>2. ASSUME NEW c \in Calls, Operation(c) \/ Progress(c) PROVE DapInv'
  BY <1>2, OperationStep, CreateStep, FailureStep, ReceiveStep, MoveStep, DrainStep, RunStep, ClaimStep,
     AwaitInitializedStep, RollbackStep, ResetStep, SendRequestStep, RemoveStep DEF Progress
<1>3. CASE Evict \/ Reap \/ Loop
  BY <1>3, LossStep, ReadResponseStep, ReadEventStep, SignalStoppedStep DEF Loop
<1>4. CASE Adapter
  BY <1>4, ServeStep, EventSentStep, LossStep DEF Adapter
<1> QED BY <1>1, <1>2, <1>3, <1>4 DEF Next

\* The invariant holds in every reachable state of a session.
THEOREM DapInvariant == Spec => []DapInv
<1>1. Init => DapInv
  BY InitOK
<1>2. DapInv /\ [Next]_vars => DapInv'
  BY NextOK
<1> QED BY <1>1, <1>2, PTL DEF Spec

\* What a call takes for the answer to its request is the answer to its request.
THEOREM AnswersAlwaysMatch == Spec => []AnswersMatch
<1>1. DapInv => AnswersMatch
  BY DEF DapInv, AnswerInv
<1> QED BY <1>1, DapInvariant, PTL

\* Until a restart, at most one call configures the adapter, and none after it is
\* configured.
THEOREM ConfiguredOnce == Spec => []ConfigOnce
<1>1. DapInv => ConfigOnce
  BY DEF DapInv, ConfigInv, Holder, ConfigOnce
<1> QED BY <1>1, DapInvariant, PTL

\* A stop that is signalled after a call has sent its request is in the channel
\* until some call takes it.
THEOREM StopsAreNotLost == Spec => []NoLostStop
<1>1. DapInv => NoLostStop
  BY DEF DapInv, StopInv
<1> QED BY <1>1, DapInvariant, PTL
=============================================================================
