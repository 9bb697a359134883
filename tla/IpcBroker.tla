------------------------------ MODULE IpcBroker ------------------------------
(***************************************************************************)
(* The message broker of the ipc tool (tools/ipc/broker.go): one process   *)
(* owns a TCP port and keeps named mailboxes; every post, fetch, wait and  *)
(* status of any agent session is one connection carrying one request and  *)
(* one reply, served by a goroutine of its own.                            *)
(*                                                                         *)
(* A call is the client's brokerCall together with the goroutine that      *)
(* handles its connection.  Each section of the code that holds b.mu is    *)
(* one step; what runs between two sections (the channel send of doPost,   *)
(* the select of doWait, the reply) is a step of its own, so that steps of *)
(* other calls and of broker_stop fall between them.                       *)
(***************************************************************************)
EXTENDS Naturals, Sequences, SequencesExt, FiniteSets

CONSTANTS Calls,            \* calls; a posting call is also the name of its message
          Names,            \* mailbox names
          Brokers,          \* brokers, one per successful broker_start
          NoCall, NoBroker, NoName,
          MaxMailboxes,     \* maxMailboxes (1000)
          MaxQueuePerBox,   \* maxQueuePerBox (10000)
          MaxWaitersPerBox, \* maxWaitersPerBox (100)
          MaxBrokerConns,   \* maxBrokerConns (200)
          ScanLimit         \* messages that fit the client's 4 MB reply buffer

ASSUME LimitsAssumption ==
    /\ MaxMailboxes \in Nat /\ MaxQueuePerBox \in Nat /\ MaxWaitersPerBox \in Nat
    /\ MaxBrokerConns \in Nat /\ ScanLimit \in Nat
ASSUME NullAssumption ==
    NoCall \notin Calls /\ NoBroker \notin Brokers /\ NoName \notin Names

VARIABLES
    life,     \* life[b]: unborn, serving (listener open), closing, stopped
    keys,     \* keys[b]: the keys present in the map b.boxes
    boxes,    \* boxes[b][n]: the messages queued in b.boxes[n]
    waiters,  \* waiters[b][n]: the calls whose channels are in b.waiters[n]
    op, name, \* the request of a call
    via,      \* the broker its connection reached
    h,        \* where the handler goroutine of the call is
    chan,     \* chan[i]: the message buffered in the channel of waiter i
    closed,   \* waiters whose channel broker_stop closed
    target,   \* the waiter doPost took off the list and is about to send to
    rok, rmsgs, \* the reply: its OK flag and the messages in it
    c         \* the client: idle, pending, ok or error

brokerVars == <<life, keys, boxes, waiters>>
chanVars   == <<chan, closed>>
reqVars    == <<op, name, via>>
replyVars  == <<rok, rmsgs>>
vars == <<brokerVars, chanVars, reqVars, h, target, replyVars, c>>

Lives    == {"unborn", "serving", "closing", "stopped"}
Ops      == {"post", "fetch", "wait", "status"}
Phases   == {"off", "backlog", "run", "sending", "waiting", "expired", "drain",
             "reply", "done"}
\* A handler goroutine exists and holds a slot of b.sem.
Handling == Phases \ {"off", "backlog", "done"}

TypeOK ==
    /\ life \in [Brokers -> Lives]
    /\ keys \in [Brokers -> SUBSET Names]
    /\ boxes \in [Brokers -> [Names -> Seq(Calls)]]
    /\ waiters \in [Brokers -> [Names -> Seq(Calls)]]
    /\ op \in [Calls -> Ops \cup {"none"}]
    /\ name \in [Calls -> Names \cup {NoName}]
    /\ via \in [Calls -> Brokers \cup {NoBroker}]
    /\ h \in [Calls -> Phases]
    /\ chan \in [Calls -> Calls \cup {NoCall}]
    /\ closed \in SUBSET Calls
    /\ target \in [Calls -> Calls \cup {NoCall}]
    /\ rok \in [Calls -> BOOLEAN]
    /\ rmsgs \in [Calls -> Seq(Calls)]
    /\ c \in [Calls -> {"idle", "pending", "ok", "error"}]

Init ==
    /\ life = [b \in Brokers |-> "unborn"]
    /\ keys = [b \in Brokers |-> {}]
    /\ boxes = [b \in Brokers |-> [n \in Names |-> <<>>]]
    /\ waiters = [b \in Brokers |-> [n \in Names |-> <<>>]]
    /\ op = [i \in Calls |-> "none"]
    /\ name = [i \in Calls |-> NoName]
    /\ via = [i \in Calls |-> NoBroker]
    /\ h = [i \in Calls |-> "off"]
    /\ chan = [i \in Calls |-> NoCall]
    /\ closed = {}
    /\ target = [i \in Calls |-> NoCall]
    /\ rok = [i \in Calls |-> FALSE]
    /\ rmsgs = [i \in Calls |-> <<>>]
    /\ c = [i \in Calls |-> "idle"]

-----------------------------------------------------------------------------
(***************************************************************************)
(* broker_start and broker_stop                                            *)
(***************************************************************************)

\* The port is bound by at most one listener.
PortTaken == \E b \in Brokers : life[b] = "serving"

\* opBrokerStart won the port.  (When it loses, all it does is a status call.)
BrokerStart(b) ==
    /\ life[b] = "unborn" /\ ~PortTaken
    /\ life' = [life EXCEPT ![b] = "serving"]
    /\ UNCHANGED <<keys, boxes, waiters, chanVars, reqVars, h, target, replyVars, c>>

\* The client sees its connection closed without a reply.
Fail(I) == c' = [i \in Calls |-> IF i \in I /\ c[i] = "pending" THEN "error" ELSE c[i]]

\* brokerState.stop, first half: ln.Close() frees the port and resets the
\* connections that were never accepted.
StopListen(b) ==
    LET reset == {i \in Calls : via[i] = b /\ h[i] = "backlog"} IN
    /\ life[b] = "serving"
    /\ life' = [life EXCEPT ![b] = "closing"]
    /\ h' = [i \in Calls |-> IF i \in reset THEN "done" ELSE h[i]]
    /\ Fail(reset)
    /\ UNCHANGED <<keys, boxes, waiters, chanVars, reqVars, target, replyVars>>

\* Mutant of StopWake: the closed channels stay on the waiters lists.
StopWake_KeepsWaiters(b) ==
    /\ life[b] = "closing"
    /\ life' = [life EXCEPT ![b] = "stopped"]
    /\ closed' = closed \cup UNION {Range(waiters[b][n]) : n \in Names}
    /\ UNCHANGED <<keys, boxes, waiters, chan, reqVars, h, target, replyVars, c>>

\* Its second half, under b.mu: mark stopped and close every waiting channel.
StopWake(b) ==
    /\ life[b] = "closing"
    /\ life' = [life EXCEPT ![b] = "stopped"]
    /\ closed' = closed \cup UNION {Range(waiters[b][n]) : n \in Names}
    /\ waiters' = [waiters EXCEPT ![b] = [n \in Names |-> <<>>]]
    /\ UNCHANGED <<keys, boxes, chan, reqVars, h, target, replyVars, c>>

-----------------------------------------------------------------------------
(***************************************************************************)
(* A call: dial, accept, and the reply                                     *)
(***************************************************************************)

\* opPost, opFetch, opWait and opBrokerStatus: brokerCall dials the port and
\* writes the request, or fails when nothing listens there.
Call(i, o, n) ==
    /\ c[i] = "idle"
    /\ \/ \E b \in Brokers :
            /\ life[b] = "serving"
            /\ op' = [op EXCEPT ![i] = o]
            /\ name' = [name EXCEPT ![i] = n]
            /\ via' = [via EXCEPT ![i] = b]
            /\ h' = [h EXCEPT ![i] = "backlog"]
            /\ c' = [c EXCEPT ![i] = "pending"]
       \/ /\ ~PortTaken
          /\ c' = [c EXCEPT ![i] = "error"]
          /\ UNCHANGED <<reqVars, h>>
    /\ UNCHANGED <<brokerVars, chanVars, target, replyVars>>

Slots(b) == Cardinality({i \in Calls : via[i] = b /\ h[i] \in Handling})

\* serve: a free slot of b.sem gets the connection a handler; with none it is
\* closed at once.
Accept(i) ==
    /\ h[i] = "backlog"
    /\ \/ /\ Slots(via[i]) < MaxBrokerConns
          /\ h' = [h EXCEPT ![i] = "run"]
          /\ UNCHANGED c
       \/ /\ Slots(via[i]) >= MaxBrokerConns
          /\ h' = [h EXCEPT ![i] = "done"]
          /\ Fail({i})
    /\ UNCHANGED <<brokerVars, chanVars, reqVars, target, replyVars>>

\* The handler has its answer and goes on to write it.
Answer(i, ok, msgs) ==
    /\ h' = [h EXCEPT ![i] = "reply"]
    /\ rok' = [rok EXCEPT ![i] = ok]
    /\ rmsgs' = [rmsgs EXCEPT ![i] = msgs]

\* writeJSON and the deferred cleanup.  A reply longer than the client's scan
\* buffer is an error to it.  (A client that has left, its deadline passed or
\* its process ended, discards the reply: to the broker it is all the same.)
Reply(i) ==
    /\ h[i] = "reply"
    /\ h' = [h EXCEPT ![i] = "done"]
    /\ c' = [c EXCEPT ![i] = IF rok[i] /\ Len(rmsgs[i]) <= ScanLimit THEN "ok" ELSE "error"]
    /\ UNCHANGED <<brokerVars, chanVars, reqVars, target, replyVars>>

-----------------------------------------------------------------------------
(***************************************************************************)
(* doPost                                                                  *)
(***************************************************************************)
Running(i, o) == h[i] = "run" /\ op[i] = o
Queue(i)      == boxes[via[i]][name[i]]
Waiting(i)    == waiters[via[i]][name[i]]

\* A waiter is blocked on the mailbox: take its channel off the list, unlock ...
PostHandOff(i) ==
    /\ Running(i, "post")
    /\ Waiting(i) # <<>>
    /\ target' = [target EXCEPT ![i] = Head(Waiting(i))]
    /\ waiters' = [waiters EXCEPT ![via[i]][name[i]] = Tail(@)]
    /\ h' = [h EXCEPT ![i] = "sending"]
    /\ UNCHANGED <<life, keys, boxes, chanVars, reqVars, replyVars, c>>

\* ... and send on it, with no lock held.
PostSend(i) ==
    /\ h[i] = "sending"
    /\ chan' = [chan EXCEPT ![target[i]] = i]
    /\ Answer(i, TRUE, <<>>)
    /\ UNCHANGED <<brokerVars, closed, reqVars, target, c>>

\* Mutant of BoxFull: the queue limit is off by one.
BoxFull_OffByOne(i) ==
    \/ name[i] \notin keys[via[i]] /\ Cardinality(keys[via[i]]) >= MaxMailboxes
    \/ Len(Queue(i)) > MaxQueuePerBox

\* Mutant of BoxFull: mailboxes are not counted.
BoxFull_OneBox(i) == Len(Queue(i)) >= MaxQueuePerBox

BoxFull(i) == \/ name[i] \notin keys[via[i]] /\ Cardinality(keys[via[i]]) >= MaxMailboxes
              \/ Len(Queue(i)) >= MaxQueuePerBox

PostRefused(i) ==
    /\ Running(i, "post")
    /\ Waiting(i) = <<>> /\ BoxFull(i)
    /\ Answer(i, FALSE, <<>>)
    /\ UNCHANGED <<brokerVars, chanVars, reqVars, target, c>>

\* Mutant of PostQueued: the message is queued whether or not somebody waits.
PostQueued_IgnoresWaiters(i) ==
    /\ Running(i, "post")
    /\ ~BoxFull(i)
    /\ keys' = [keys EXCEPT ![via[i]] = @ \cup {name[i]}]
    /\ boxes' = [boxes EXCEPT ![via[i]][name[i]] = Append(@, i)]
    /\ Answer(i, TRUE, <<>>)
    /\ UNCHANGED <<life, waiters, chanVars, reqVars, target, c>>

PostQueued(i) ==
    /\ Running(i, "post")
    /\ Waiting(i) = <<>> /\ ~BoxFull(i)
    /\ keys' = [keys EXCEPT ![via[i]] = @ \cup {name[i]}]
    /\ boxes' = [boxes EXCEPT ![via[i]][name[i]] = Append(@, i)]
    /\ Answer(i, TRUE, <<>>)
    /\ UNCHANGED <<life, waiters, chanVars, reqVars, target, c>>

-----------------------------------------------------------------------------
(***************************************************************************)
(* doFetch, doStatus and doWait                                            *)
(***************************************************************************)

\* Mutant of Fetch: the queue is read and not emptied.
Fetch_KeepsQueue(i) ==
    /\ Running(i, "fetch")
    /\ Answer(i, TRUE, Queue(i))
    /\ UNCHANGED <<brokerVars, chanVars, reqVars, target, c>>

\* doFetch empties the queue; b.boxes[n] = nil leaves the key in the map, and
\* creates it when it was not there.
Fetch(i) ==
    /\ Running(i, "fetch")
    /\ keys' = [keys EXCEPT ![via[i]] = @ \cup {name[i]}]
    /\ boxes' = [boxes EXCEPT ![via[i]][name[i]] = <<>>]
    /\ Answer(i, TRUE, Queue(i))
    /\ UNCHANGED <<life, waiters, chanVars, reqVars, target, c>>

Status(i) ==
    /\ Running(i, "status")
    /\ Answer(i, TRUE, <<>>)
    /\ UNCHANGED <<brokerVars, chanVars, reqVars, target, c>>

\* Mutant of WaitTake: the newest message is taken.
WaitTake_Newest(i) ==
    /\ Running(i, "wait")
    /\ Queue(i) # <<>>
    /\ boxes' = [boxes EXCEPT ![via[i]][name[i]] = Front(@)]
    /\ Answer(i, TRUE, <<Last(Queue(i))>>)
    /\ UNCHANGED <<life, keys, waiters, chanVars, reqVars, target, c>>

WaitTake(i) ==
    /\ Running(i, "wait")
    /\ Queue(i) # <<>>
    /\ boxes' = [boxes EXCEPT ![via[i]][name[i]] = Tail(@)]
    /\ Answer(i, TRUE, <<Head(Queue(i))>>)
    /\ UNCHANGED <<life, keys, waiters, chanVars, reqVars, target, c>>

WaitRefused(i) ==
    /\ Running(i, "wait")
    /\ Queue(i) = <<>> /\ Len(Waiting(i)) >= MaxWaitersPerBox
    /\ Answer(i, FALSE, <<>>)
    /\ UNCHANGED <<brokerVars, chanVars, reqVars, target, c>>

WaitRegister(i) ==
    /\ Running(i, "wait")
    /\ Queue(i) = <<>> /\ Len(Waiting(i)) < MaxWaitersPerBox
    /\ waiters' = [waiters EXCEPT ![via[i]][name[i]] = Append(@, i)]
    /\ h' = [h EXCEPT ![i] = "waiting"]
    /\ UNCHANGED <<life, keys, boxes, chanVars, reqVars, target, replyVars, c>>

\* Mutant of ReceiveAnswer: a receive from a closed channel counts as a message.
ReceiveAnswer_IgnoresOk(i) ==
    /\ chan[i] # NoCall \/ i \in closed
    /\ chan' = [chan EXCEPT ![i] = NoCall]
    /\ Answer(i, TRUE, <<chan[i]>>)

\* The channel of i has something to say: a message, or that it is closed.
ReceiveAnswer(i) ==
    \/ /\ chan[i] # NoCall
       /\ chan' = [chan EXCEPT ![i] = NoCall]
       /\ Answer(i, TRUE, <<chan[i]>>)
    \/ /\ chan[i] = NoCall /\ i \in closed
       /\ Answer(i, FALSE, <<>>)
       /\ UNCHANGED chan

WaitReceive(i) ==
    /\ h[i] = "waiting"
    /\ ReceiveAnswer(i)
    /\ UNCHANGED <<brokerVars, closed, reqVars, target, c>>

\* The select may also pick the timer, whatever the channel holds.
WaitTimer(i) ==
    /\ h[i] = "waiting"
    /\ h' = [h EXCEPT ![i] = "expired"]
    /\ UNCHANGED <<brokerVars, chanVars, reqVars, target, replyVars, c>>

\* Under b.mu: take our own channel off the list if it is still there.
WaitCleanup(i) ==
    /\ h[i] = "expired"
    /\ \/ \E k \in DOMAIN Waiting(i) :
            /\ Waiting(i)[k] = i
            /\ waiters' = [waiters EXCEPT ![via[i]][name[i]] = RemoveAt(@, k)]
       \/ /\ \A k \in DOMAIN Waiting(i) : Waiting(i)[k] # i
          /\ UNCHANGED waiters
    /\ h' = [h EXCEPT ![i] = "drain"]
    /\ UNCHANGED <<life, keys, boxes, chanVars, reqVars, target, replyVars, c>>

\* Mutant of WaitDrain: the drain blocks until something arrives.
WaitDrain_Blocks(i) ==
    /\ h[i] = "drain"
    /\ ReceiveAnswer(i)
    /\ UNCHANGED <<brokerVars, closed, reqVars, target, c>>

\* The non-blocking drain, with no lock held.
WaitDrain(i) ==
    /\ h[i] = "drain"
    /\ \/ ReceiveAnswer(i)
       \/ /\ chan[i] = NoCall /\ i \notin closed
          /\ Answer(i, FALSE, <<>>)
          /\ UNCHANGED chan
    /\ UNCHANGED <<brokerVars, closed, reqVars, target, c>>

Post(i) == PostHandOff(i) \/ PostSend(i) \/ PostRefused(i) \/ PostQueued(i)
Wait(i) == \/ WaitTake(i) \/ WaitRefused(i) \/ WaitRegister(i)
           \/ WaitReceive(i) \/ WaitTimer(i) \/ WaitCleanup(i) \/ WaitDrain(i)
\* A step of the handler goroutine of call i, from accept to reply.
Handler(i) == Accept(i) \/ Post(i) \/ Fetch(i) \/ Status(i) \/ Wait(i) \/ Reply(i)

Next ==
    \/ \E b \in Brokers : BrokerStart(b) \/ StopListen(b) \/ StopWake(b)
    \/ \E i \in Calls : \/ \E o \in Ops, n \in Names : Call(i, o, n)
                        \/ Handler(i)

Spec == Init /\ [][Next]_vars

(***************************************************************************)
(* The Go scheduler runs every goroutine that can run, and a timer fires.  *)
(* Nothing makes a client call, leave, or stop a broker; a stop that has   *)
(* begun goes on to the end.                                               *)
(***************************************************************************)
Fairness == /\ \A i \in Calls : WF_vars(Handler(i))
            /\ \A b \in Brokers : WF_vars(StopWake(b))
FairSpec == Spec /\ Fairness

-----------------------------------------------------------------------------
(***************************************************************************)
(* Properties                                                              *)
(***************************************************************************)

\* A message the broker has taken responsibility for: doPost chose a waiter for
\* it, or queued it, and its sender is or will be told so.
Accepted(m) == /\ op[m] = "post"
               /\ h[m] = "sending" \/ (h[m] \in {"reply", "done"} /\ rok[m])
Queued(m)   == \E b \in Brokers, n \in Names : m \in Range(boxes[b][n])
\* The waits and fetches that have been given message m.
Holders(m)  == {i \in Calls : chan[i] = m \/ m \in Range(rmsgs[i])}

(***************************************************************************)
(* doWait registers only on an empty queue and doPost queues only when     *)
(* nobody waits: a waiter never sleeps on a mailbox that holds a message.  *)
(***************************************************************************)
NoSleepOnMail == \A b \in Brokers, n \in Names :
                    waiters[b][n] # <<>> => boxes[b][n] = <<>>

(***************************************************************************)
(* The send in doPost is done after b.mu is released and relies on "cap 1, *)
(* never blocks": the channel it goes to is empty, is not closed by        *)
(* broker_stop (the send would panic) and has no other sender.             *)
(***************************************************************************)
SendIsSafe == \A p \in Calls : h[p] = "sending" =>
                 /\ target[p] \in Calls
                 /\ chan[target[p]] = NoCall /\ target[p] \notin closed
                 /\ \A q \in Calls : h[q] = "sending" /\ target[q] = target[p] => q = p

(***************************************************************************)
(* Every accepted message is in exactly one place (the hand of its sender, *)
(* the queue of its mailbox, or one receiving call of that mailbox), and a *)
(* refused one is nowhere: no message is duplicated, delivered to a second *)
(* receiver or to another mailbox, or dropped from all of them.            *)
(***************************************************************************)
Conservation == \A m \in Calls :
    /\ Accepted(m) <=> (h[m] = "sending" \/ Queued(m) \/ Holders(m) # {})
    /\ h[m] = "sending" => ~Queued(m)
    /\ h[m] = "sending" \/ Queued(m) => Holders(m) = {}
    /\ \A i, j \in Holders(m) : i = j
    /\ \A i \in Holders(m) : via[i] = via[m] /\ name[i] = name[m]

(***************************************************************************)
(* The limits of queues, waiters and handler goroutines hold, whatever the *)
(* handlers do between their checks and the end of a call.  Mailboxes are  *)
(* counted for posts only: a fetch creates the one it names, so that there *)
(* are at most MaxMailboxes beside those that some fetch has named.        *)
(***************************************************************************)
Fetched(b) == {name[i] : i \in {j \in Calls : op[j] = "fetch" /\ via[j] = b /\ rok[j]
                                               /\ h[j] \in {"reply", "done"}}}
WithinLimits == \A b \in Brokers :
    /\ Slots(b) <= MaxBrokerConns
    /\ Cardinality(keys[b] \ Fetched(b)) <= MaxMailboxes
    /\ \A n \in Names : /\ Len(boxes[b][n]) <= MaxQueuePerBox
                        /\ Len(waiters[b][n]) <= MaxWaitersPerBox

(***************************************************************************)
(* Whatever happens to the broker or to the message it waits for, a        *)
(* connection ends: its handler gives its slot back and its client is not  *)
(* left hanging.                                                           *)
(***************************************************************************)
EveryCallEnds == \A i \in Calls :
                    h[i] = "backlog" ~> (h[i] = "done" /\ c[i] # "pending")

(***************************************************************************)
(* The broker implements the mailboxes of IpcMailbox: FIFO, each message   *)
(* assigned at most once and never taken back.                             *)
(***************************************************************************)
AssignedTo(m) == IF target[m] # NoCall THEN target[m]
                 ELSE IF ~Accepted(m) \/ Queued(m) THEN NoCall
                 ELSE CHOOSE i \in Calls : i \in Holders(m)
Mailboxes == INSTANCE IpcMailbox
                WITH Boxes    <- Brokers \X Names,
                     queue    <- [x \in Brokers \X Names |-> boxes[x[1]][x[2]]],
                     receiver <- [m \in Calls |-> AssignedTo(m)]
ImplementsMailboxes == Mailboxes!MSpec

(***************************************************************************)
(* What the tool's description promises ("Broker-based (reliable, no       *)
(* missed messages)", handler.go) and the drain in doWait is there to      *)
(* ensure: on a broker that keeps serving, no accepted message is left in  *)
(* the channel of a wait that has already answered.                        *)
(***************************************************************************)
NoMissedMessages == \A m, w \in Calls :
    chan[w] = m /\ life[via[w]] = "serving" => h[w] \notin {"reply", "done"}
=============================================================================
