--------------------------- MODULE IpcBrokerProofs ---------------------------
(***************************************************************************)
(* Proofs about IpcBroker for any number of calls, mailboxes and brokers   *)
(* and for any limits.                                                     *)
(***************************************************************************)
EXTENDS IpcBroker, SequenceTheorems, FiniteSetTheorems, TLAPS

\* Phases of a wait whose channel exists, so that a doPost may have taken it.
Registered == {"waiting", "expired", "drain", "reply", "done"}

\* A connection that was made knows its broker and its mailbox.
Route == \A i \in Calls : /\ h[i] # "off" => via[i] \in Brokers /\ name[i] \in Names
                          /\ c[i] = "idle" => h[i] = "off"

\* A channel that was used or closed belongs to a wait that registered.
ChannelInv == \A i \in Calls : chan[i] # NoCall \/ i \in closed => h[i] \in Registered

\* What a channel on a waiters list is: the open, empty channel of a wait on
\* that mailbox that has not cleaned up yet; it is there once, and nobody is
\* about to send to it.
WaiterOK(w, b, n) == /\ h[w] \in {"waiting", "expired"}
                     /\ chan[w] = NoCall /\ w \notin closed
                     /\ via[w] = b /\ name[w] = n
                     /\ \A p \in Calls : h[p] = "sending" => target[p] # w
WaitInv == \A b \in Brokers, n \in Names, w \in Calls :
              \A k \in 1 .. Len(waiters[b][n]) : waiters[b][n][k] = w =>
                 /\ WaiterOK(w, b, n)
                 /\ \A l \in 1 .. Len(waiters[b][n]) : waiters[b][n][l] = w => l = k

\* What doPost relies on between its unlock and its send.
SendInv == \A p \in Calls : h[p] = "sending" =>
              /\ target[p] \in Calls
              /\ chan[target[p]] = NoCall /\ target[p] \notin closed
              /\ h[target[p]] \in Registered
              /\ \A q \in Calls : h[q] = "sending" /\ target[q] = target[p] => q = p

BrokerInv == TypeOK /\ Route /\ ChannelInv /\ WaitInv /\ SendInv
-----------------------------------------------------------------------------
\* What doWait's cleanup does to a list: element k goes, the others keep their order.
LEMMA RemoveAtFacts ==
    ASSUME NEW S, NEW s \in Seq(S), NEW k \in 1 .. Len(s)
    PROVE  /\ RemoveAt(s, k) \in Seq(S)
           /\ Len(RemoveAt(s, k)) = Len(s) - 1
           /\ \A j \in 1 .. (Len(s) - 1) :
                 RemoveAt(s, k)[j] = IF j < k THEN s[j] ELSE s[j + 1]
<1> DEFINE a == SubSeq(s, 1, k - 1)
           z == SubSeq(s, k + 1, Len(s))
<1>1. /\ a \in Seq(S) /\ Len(a) = k - 1
      /\ \A j \in 1 .. (k - 1) : a[j] = s[j]
  BY SMT
<1>2. /\ z \in Seq(S) /\ Len(z) = Len(s) - k
      /\ \A j \in 1 .. (Len(s) - k) : z[j] = s[j + k]
  BY SMT
<1>3. RemoveAt(s, k) = a \o z
  BY DEF RemoveAt
<1> HIDE DEF a, z
<1>4. /\ a \o z \in Seq(S)
      /\ Len(a \o z) = Len(a) + Len(z)
      /\ \A j \in 1 .. Len(a) + Len(z) :
            (a \o z)[j] = IF j <= Len(a) THEN a[j] ELSE z[j - Len(a)]
  BY <1>1, <1>2, ConcatProperties
<1>5. Len(s) \in Nat /\ k \in Nat /\ Len(a) + Len(z) = Len(s) - 1
  BY <1>1, <1>2
<1>6. ASSUME NEW j \in 1 .. (Len(s) - 1)
      PROVE  (a \o z)[j] = IF j < k THEN s[j] ELSE s[j + 1]
  <2>1. (a \o z)[j] = IF j <= Len(a) THEN a[j] ELSE z[j - Len(a)]
    BY <1>4, <1>5
  <2>2. CASE j < k
    BY <1>1, <1>5, <2>1, <2>2
  <2>3. CASE ~(j < k)
    <3>1. j - Len(a) \in 1 .. (Len(s) - k) /\ (j - Len(a)) + k = j + 1
      BY <1>1, <1>5, <2>3
    <3> QED BY <1>1, <1>2, <1>5, <2>1, <2>3, <3>1
  <2> QED BY <2>2, <2>3
<1> QED BY <1>3, <1>4, <1>5, <1>6

\* A queue with one more message.
LEMMA AppendFacts ==
    ASSUME NEW s \in Seq(Calls), NEW i \in Calls
    PROVE  /\ Len(s) \in Nat /\ Len(Append(s, i)) = Len(s) + 1 /\ Append(s, i)[Len(s) + 1] = i
           /\ \A k \in 1 .. Len(s) : Append(s, i)[k] = s[k]
<1>1. Len(s) \in Nat
  OBVIOUS
<1>2. Len(Append(s, i)) = Len(s) + 1
  OBVIOUS
<1>3. Append(s, i)[Len(s) + 1] = i
  OBVIOUS
<1>4. ASSUME NEW k \in 1 .. Len(s) PROVE Append(s, i)[k] = s[k]
  OBVIOUS
<1> QED BY <1>1, <1>2, <1>3, <1>4

\* The initial states are well typed and nothing is registered.
LEMMA InitOK == Init => BrokerInv
  BY NullAssumption DEF Init, BrokerInv, TypeOK, Route, ChannelInv, WaitInv, SendInv,
       Lives, Ops, Phases

\* Every step keeps the types and the route of a connection.
LEMMA TypeStep ==
    ASSUME TypeOK, Route, [Next]_vars
    PROVE  TypeOK' /\ Route'
<1> USE DEF TypeOK, Route, Lives, Ops, Phases, brokerVars, chanVars, reqVars,
            replyVars
<1>1. ASSUME NEW b \in Brokers, BrokerStart(b) PROVE TypeOK' /\ Route'
  BY <1>1 DEF BrokerStart
<1>2. ASSUME NEW b \in Brokers, StopListen(b) PROVE TypeOK' /\ Route'
  BY <1>2 DEF StopListen, Fail
<1>3. ASSUME NEW b \in Brokers, StopWake(b) PROVE TypeOK' /\ Route'
  <2>1. closed' \subseteq Calls
    BY <1>3 DEF StopWake, Range
  <2> QED BY <1>3, <2>1 DEF StopWake
<1>4. ASSUME NEW i \in Calls, NEW o \in Ops, NEW n \in Names, Call(i, o, n)
      PROVE  TypeOK' /\ Route'
  <2>1. CASE ~PortTaken /\ c' = [c EXCEPT ![i] = "error"] /\ UNCHANGED <<reqVars, h>>
    BY <1>4, <2>1 DEF Call
  <2>2. ASSUME NEW b \in Brokers,
               /\ op' = [op EXCEPT ![i] = o]
               /\ name' = [name EXCEPT ![i] = n]
               /\ via' = [via EXCEPT ![i] = b]
               /\ h' = [h EXCEPT ![i] = "backlog"]
               /\ c' = [c EXCEPT ![i] = "pending"]
        PROVE  TypeOK' /\ Route'
    BY <1>4, <2>2 DEF Call
  <2> QED BY <1>4, <2>1, <2>2 DEF Call
<1>5. ASSUME NEW i \in Calls, Accept(i) PROVE TypeOK' /\ Route'
  <2>1. CASE h' = [h EXCEPT ![i] = "run"] /\ UNCHANGED c
    BY <1>5, <2>1 DEF Accept
  <2>2. CASE h' = [h EXCEPT ![i] = "done"] /\ Fail({i})
    BY <1>5, <2>2 DEF Accept, Fail
  <2> QED BY <1>5, <2>1, <2>2 DEF Accept
<1>6. ASSUME NEW i \in Calls, Reply(i) PROVE TypeOK' /\ Route'
  BY <1>6 DEF Reply
<1>7. ASSUME NEW i \in Calls, PostHandOff(i) PROVE TypeOK' /\ Route'
  BY <1>7 DEF PostHandOff, Running, Waiting
<1>8. ASSUME NEW i \in Calls, PostSend(i) PROVE TypeOK' /\ Route'
  <2>1. chan' \in [Calls -> Calls \cup {NoCall}]
    BY <1>8 DEF PostSend
  <2>2. h' \in [Calls -> Phases] /\ rok' \in [Calls -> BOOLEAN] /\ rmsgs' \in [Calls -> Seq(Calls)]
    BY <1>8 DEF PostSend, Answer
  <2>3. TypeOK'
    BY <1>8, <2>1, <2>2 DEF PostSend
  <2>4. Route'
    BY <1>8 DEF PostSend, Answer
  <2> QED BY <2>3, <2>4
<1>9. ASSUME NEW i \in Calls, PostRefused(i) PROVE TypeOK' /\ Route'
  BY <1>9 DEF PostRefused, Running, Answer
<1>10. ASSUME NEW i \in Calls, PostQueued(i) PROVE TypeOK' /\ Route'
  BY <1>10 DEF PostQueued, Running, Answer
<1>11. ASSUME NEW i \in Calls, Fetch(i) PROVE TypeOK' /\ Route'
  BY <1>11 DEF Fetch, Running, Queue, Answer
<1>12. ASSUME NEW i \in Calls, Status(i) PROVE TypeOK' /\ Route'
  BY <1>12 DEF Status, Running, Answer
<1>13. ASSUME NEW i \in Calls, WaitTake(i) PROVE TypeOK' /\ Route'
  BY <1>13 DEF WaitTake, Running, Queue, Answer
<1>14. ASSUME NEW i \in Calls, WaitRefused(i) PROVE TypeOK' /\ Route'
  BY <1>14 DEF WaitRefused, Running, Answer
<1>15. ASSUME NEW i \in Calls, WaitRegister(i) PROVE TypeOK' /\ Route'
  BY <1>15 DEF WaitRegister, Running
<1>16. ASSUME NEW i \in Calls, WaitReceive(i) PROVE TypeOK' /\ Route'
  <2>1. CASE /\ chan[i] # NoCall
             /\ chan' = [chan EXCEPT ![i] = NoCall]
             /\ Answer(i, TRUE, <<chan[i]>>)
    <3>1. <<chan[i]>> \in Seq(Calls)
      BY <2>1
    <3> QED BY <1>16, <2>1, <3>1 DEF WaitReceive, Answer
  <2>2. CASE i \in closed /\ Answer(i, FALSE, <<>>) /\ UNCHANGED chan
    BY <1>16, <2>2 DEF WaitReceive, Answer
  <2> QED BY <1>16, <2>1, <2>2 DEF WaitReceive, ReceiveAnswer
<1>17. ASSUME NEW i \in Calls, WaitTimer(i) PROVE TypeOK' /\ Route'
  BY <1>17 DEF WaitTimer
<1>18. ASSUME NEW i \in Calls, WaitCleanup(i) PROVE TypeOK' /\ Route'
  <2>1. via[i] \in Brokers /\ name[i] \in Names
    BY <1>18 DEF WaitCleanup
  <2>2. ASSUME NEW k \in DOMAIN Waiting(i),
               waiters' = [waiters EXCEPT ![via[i]][name[i]] = RemoveAt(@, k)]
        PROVE  waiters' \in [Brokers -> [Names -> Seq(Calls)]]
    <3>1. Waiting(i) \in Seq(Calls) /\ k \in 1 .. Len(Waiting(i))
      BY <2>1, <2>2 DEF Waiting
    <3>2. RemoveAt(Waiting(i), k) \in Seq(Calls)
      BY <3>1, RemoveAtFacts
    <3> QED BY <2>1, <2>2, <3>2 DEF Waiting
  <2>3. waiters' \in [Brokers -> [Names -> Seq(Calls)]]
    BY <1>18, <2>2 DEF WaitCleanup
  <2> QED BY <1>18, <2>3 DEF WaitCleanup
<1>19. ASSUME NEW i \in Calls, WaitDrain(i) PROVE TypeOK' /\ Route'
  <2>1. CASE /\ chan[i] # NoCall
             /\ chan' = [chan EXCEPT ![i] = NoCall]
             /\ Answer(i, TRUE, <<chan[i]>>)
    <3>1. <<chan[i]>> \in Seq(Calls)
      BY <2>1
    <3> QED BY <1>19, <2>1, <3>1 DEF WaitDrain, Answer
  <2>2. CASE i \in closed /\ Answer(i, FALSE, <<>>) /\ UNCHANGED chan
    BY <1>19, <2>2 DEF WaitDrain, Answer
  <2>3. CASE Answer(i, FALSE, <<>>) /\ UNCHANGED chan
    BY <1>19, <2>3 DEF WaitDrain, Answer
  <2> QED BY <1>19, <2>1, <2>2, <2>3 DEF WaitDrain, ReceiveAnswer
<1>20. CASE UNCHANGED vars
  BY <1>20 DEF vars
<1> QED
  BY <1>1, <1>2, <1>3, <1>4, <1>5, <1>6, <1>7, <1>8, <1>9, <1>10, <1>11, <1>12,
     <1>13, <1>14, <1>15, <1>16, <1>17, <1>18, <1>19, <1>20 DEF Next, Handler, Post, Wait

\* A step that touches no waiters list and no channel, starts no send and lets
\* no wait leave the select keeps what is known of channels and lists.
LEMMA QuietStep ==
    ASSUME BrokerInv, TypeOK',
           UNCHANGED <<waiters, chan, closed, target>>,
           \A j \in Calls :
              /\ h'[j] = "sending" => h[j] = "sending"
              /\ h[j] \in Registered => h'[j] \in Registered
              /\ h[j] \in {"waiting", "expired"} => h'[j] \in {"waiting", "expired"}
              /\ h[j] # "off" => via'[j] = via[j] /\ name'[j] = name[j]
    PROVE  ChannelInv' /\ WaitInv' /\ SendInv'
<1>1. ChannelInv'
  BY DEF BrokerInv, TypeOK, ChannelInv, Registered
<1>2. SendInv'
  BY DEF BrokerInv, TypeOK, SendInv
<1>3. ASSUME NEW b \in Brokers, NEW n \in Names, NEW w \in Calls, WaiterOK(w, b, n)
      PROVE  WaiterOK(w, b, n)'
  BY <1>3 DEF WaiterOK, BrokerInv, TypeOK
<1>4. WaitInv'
  BY <1>3 DEF BrokerInv, WaitInv
<1> QED BY <1>1, <1>2, <1>4

\* Every step keeps what is known of channels, waiters lists and sends.
LEMMA ChannelStep ==
    ASSUME BrokerInv, [Next]_vars, TypeOK', Route'
    PROVE  ChannelInv' /\ WaitInv' /\ SendInv'
<1> USE DEF brokerVars, chanVars, reqVars, replyVars
<1> DEFINE Goal == ChannelInv' /\ WaitInv' /\ SendInv'
           Same == UNCHANGED <<waiters, chan, closed, target>>
           Calm == \A j \in Calls :
                     /\ h'[j] = "sending" => h[j] = "sending"
                     /\ h[j] \in Registered => h'[j] \in Registered
                     /\ h[j] \in {"waiting", "expired"} => h'[j] \in {"waiting", "expired"}
                     /\ h[j] # "off" => via'[j] = via[j] /\ name'[j] = name[j]
<1>0. TypeOK /\ Route /\ ChannelInv /\ WaitInv /\ SendInv /\ (Same /\ Calm => Goal)
  BY QuietStep DEF BrokerInv
<1>1. ASSUME NEW b \in Brokers, BrokerStart(b) PROVE Goal
  <2>1. Same /\ Calm
    BY <1>1, <1>0 DEF TypeOK, Route, Registered, BrokerStart
  <2> QED BY <1>0, <2>1
<1>2. ASSUME NEW b \in Brokers, StopListen(b) PROVE Goal
  <2>1. Same /\ Calm
    BY <1>2, <1>0 DEF TypeOK, Route, Registered, StopListen
  <2> QED BY <1>0, <2>1
<1>3. ASSUME NEW i \in Calls, NEW o \in Ops, NEW n \in Names, Call(i, o, n) PROVE Goal
  <2>1. Same /\ Calm
    BY <1>3, <1>0 DEF TypeOK, Route, Registered, Call
  <2> QED BY <1>0, <2>1
<1>4. ASSUME NEW i \in Calls, Accept(i) PROVE Goal
  <2>1. Same /\ Calm
    BY <1>4, <1>0 DEF TypeOK, Route, Registered, Accept
  <2> QED BY <1>0, <2>1
<1>5. ASSUME NEW i \in Calls, Reply(i) PROVE Goal
  <2>1. Same /\ Calm
    BY <1>5, <1>0 DEF TypeOK, Route, Registered, Reply
  <2> QED BY <1>0, <2>1
<1>6. ASSUME NEW i \in Calls, PostRefused(i) PROVE Goal
  <2>1. Same /\ Calm
    BY <1>6, <1>0 DEF TypeOK, Route, Registered, PostRefused, Running, Answer
  <2> QED BY <1>0, <2>1
<1>7. ASSUME NEW i \in Calls, PostQueued(i) PROVE Goal
  <2>1. Same /\ Calm
    BY <1>7, <1>0 DEF TypeOK, Route, Registered, PostQueued, Running, Answer
  <2> QED BY <1>0, <2>1
<1>8. ASSUME NEW i \in Calls, Fetch(i) PROVE Goal
  <2>1. Same /\ Calm
    BY <1>8, <1>0 DEF TypeOK, Route, Registered, Fetch, Running, Answer
  <2> QED BY <1>0, <2>1
<1>9. ASSUME NEW i \in Calls, Status(i) PROVE Goal
  <2>1. Same /\ Calm
    BY <1>9, <1>0 DEF TypeOK, Route, Registered, Status, Running, Answer
  <2> QED BY <1>0, <2>1
<1>10. ASSUME NEW i \in Calls, WaitTake(i) PROVE Goal
  <2>1. Same /\ Calm
    BY <1>10, <1>0 DEF TypeOK, Route, Registered, WaitTake, Running, Answer
  <2> QED BY <1>0, <2>1
<1>11. ASSUME NEW i \in Calls, WaitRefused(i) PROVE Goal
  <2>1. Same /\ Calm
    BY <1>11, <1>0 DEF TypeOK, Route, Registered, WaitRefused, Running, Answer
  <2> QED BY <1>0, <2>1
<1>12. ASSUME NEW i \in Calls, WaitTimer(i) PROVE Goal
  <2>1. Same /\ Calm
    BY <1>12, <1>0 DEF TypeOK, Route, Registered, WaitTimer
  <2> QED BY <1>0, <2>1
<1>13. ASSUME UNCHANGED vars PROVE Goal
  <2>1. Same /\ Calm
    BY <1>13 DEF vars
  <2> QED BY <1>0, <2>1
<1>14. ASSUME NEW b \in Brokers, StopWake(b) PROVE Goal
  <2>1. /\ waiters' = [waiters EXCEPT ![b] = [n \in Names |-> <<>>]]
        /\ closed' = closed \cup UNION {Range(waiters[b][n]) : n \in Names}
        /\ UNCHANGED <<chan, h, target, via, name>>
    BY <1>14 DEF StopWake
  <2>2. ASSUME NEW w \in Calls, w \in closed', w \notin closed
        PROVE  \E n \in Names : WaiterOK(w, b, n)
    <3>1. PICK n \in Names : w \in Range(waiters[b][n])
      BY <2>1, <2>2
    <3>2. PICK k \in 1 .. Len(waiters[b][n]) : waiters[b][n][k] = w
      BY <1>0, <3>1 DEF TypeOK, Range
    <3> QED BY <1>0, <3>2 DEF WaitInv
  <2>3. ChannelInv'
    BY <1>0, <2>1, <2>2 DEF ChannelInv, WaiterOK, Registered
  <2>4. SendInv'
    BY <1>0, <2>1, <2>2 DEF SendInv, WaiterOK
  <2>5. ASSUME NEW x \in Brokers, NEW n \in Names, NEW w \in Calls,
               x # b, WaiterOK(w, x, n)
        PROVE  WaiterOK(w, x, n)'
    BY <2>1, <2>2, <2>5 DEF WaiterOK
  <2>6. ASSUME NEW x \in Brokers, NEW n \in Names
        PROVE  waiters'[x][n] = IF x = b THEN <<>> ELSE waiters[x][n]
    BY <1>0, <2>1 DEF TypeOK
  <2>7. WaitInv'
    BY <1>0, <2>5, <2>6 DEF WaitInv
  <2> QED BY <2>3, <2>4, <2>7
<1>15. ASSUME NEW i \in Calls, PostHandOff(i) PROVE Goal
  <2>1. via[i] \in Brokers /\ name[i] \in Names /\ h[i] = "run"
    BY <1>0, <1>15 DEF PostHandOff, Running, Route
  <2>2. PICK ws \in Seq(Calls) : ws = waiters[via[i]][name[i]] /\ ws # <<>>
    BY <1>0, <1>15, <2>1 DEF TypeOK, PostHandOff, Waiting
  <2>3. PICK t \in Calls : t = Head(ws) /\ t = ws[1] /\ 1 \in 1 .. Len(ws)
    BY <2>2
  <2>4. /\ Len(ws) \in Nat /\ Len(Tail(ws)) = Len(ws) - 1
        /\ \A k \in 1 .. Len(Tail(ws)) : Tail(ws)[k] = ws[k + 1]
    BY <2>2
  <2>5. /\ h' = [h EXCEPT ![i] = "sending"]
        /\ target' = [target EXCEPT ![i] = t]
        /\ UNCHANGED <<chan, closed, via, name>>
    BY <1>15, <2>2, <2>3 DEF PostHandOff, Waiting
  <2>6. ASSUME NEW b \in Brokers, NEW n \in Names
        PROVE  waiters'[b][n] = IF b = via[i] /\ n = name[i] THEN Tail(ws) ELSE waiters[b][n]
    BY <1>0, <1>15, <2>1, <2>2 DEF TypeOK, PostHandOff, Waiting
  <2>7. WaiterOK(t, via[i], name[i]) /\ \A k \in 1 .. Len(ws) : ws[k] = t => k = 1
    BY <1>0, <2>1, <2>2, <2>3 DEF WaitInv
  <2>8. ChannelInv'
    BY <1>0, <2>1, <2>5 DEF TypeOK, ChannelInv, Registered
  <2>9. SendInv'
    <3>1. ASSUME NEW p \in Calls, p # i, h'[p] = "sending"
          PROVE  h[p] = "sending" /\ target'[p] = target[p] /\ target[p] # t
      BY <1>0, <2>5, <2>7, <3>1 DEF TypeOK, WaiterOK
    <3>2. /\ target'[i] = t /\ t # i /\ h'[t] \in Registered
          /\ chan'[t] = NoCall /\ t \notin closed'
      BY <1>0, <2>1, <2>5, <2>7 DEF TypeOK, WaiterOK, Registered
    <3>3. ASSUME NEW p \in Calls, h[p] \in Registered PROVE h'[p] \in Registered
      BY <1>0, <2>1, <2>5, <3>3 DEF TypeOK, Registered
    <3> QED BY <1>0, <2>5, <3>1, <3>2, <3>3 DEF SendInv
  <2>10. ASSUME NEW b \in Brokers, NEW n \in Names, NEW w \in Calls, w # t, WaiterOK(w, b, n)
         PROVE  WaiterOK(w, b, n)'
    BY <1>0, <2>1, <2>5, <2>10 DEF WaiterOK, TypeOK
  <2>11. ASSUME NEW b \in Brokers, NEW n \in Names, NEW w \in Calls,
                NEW k \in 1 .. Len(waiters'[b][n]), waiters'[b][n][k] = w
         PROVE  /\ WaiterOK(w, b, n)'
                /\ \A l \in 1 .. Len(waiters'[b][n]) : waiters'[b][n][l] = w => l = k
    <3>1. CASE b = via[i] /\ n = name[i]
      <4>0. waiters'[b][n] = Tail(ws) /\ waiters[b][n] = ws
        BY <2>2, <2>6, <3>1
      <4>1. k + 1 \in 1 .. Len(ws) /\ ws[k + 1] = w /\ k + 1 # 1
        BY <2>4, <2>11, <4>0
      <4>2. /\ WaiterOK(w, b, n) /\ w # t
            /\ \A l \in 1 .. Len(ws) : ws[l] = w => l = k + 1
        BY <1>0, <2>7, <4>0, <4>1 DEF WaitInv
      <4>3. ASSUME NEW l \in 1 .. Len(Tail(ws)), Tail(ws)[l] = w PROVE l = k
        <5>1. l + 1 \in 1 .. Len(ws) /\ ws[l + 1] = w
          BY <2>4, <4>3
        <5>2. l + 1 = k + 1 /\ l \in Nat /\ k \in Nat
          BY <2>4, <2>11, <4>0, <4>2, <5>1
        <5> QED BY <5>2
      <4> QED BY <2>10, <4>0, <4>2, <4>3
    <3>2. CASE ~(b = via[i] /\ n = name[i])
      <4>1. waiters'[b][n] = waiters[b][n]
        BY <2>6, <3>2
      <4>2. /\ WaiterOK(w, b, n)
            /\ \A l \in 1 .. Len(waiters[b][n]) : waiters[b][n][l] = w => l = k
        BY <1>0, <2>11, <4>1 DEF WaitInv
      <4>3. w # t
        BY <2>7, <3>2, <4>2 DEF WaiterOK
      <4> QED BY <2>10, <4>1, <4>2, <4>3
    <3> QED BY <3>1, <3>2
  <2>12. WaitInv'
    BY <2>11 DEF WaitInv
  <2> QED BY <2>8, <2>9, <2>12
<1>16. ASSUME NEW i \in Calls, PostSend(i) PROVE Goal
  <2>1. PICK t \in Calls : t = target[i] /\ h[i] = "sending" /\ h[t] \in Registered
    BY <1>0, <1>16 DEF PostSend, SendInv
  <2>2. /\ chan' = [chan EXCEPT ![t] = i]
        /\ h' = [h EXCEPT ![i] = "reply"]
        /\ UNCHANGED <<waiters, closed, target, via, name>>
    BY <1>16, <2>1 DEF PostSend, Answer
  <2>3. ChannelInv'
    BY <1>0, <2>1, <2>2 DEF TypeOK, ChannelInv, Registered
  <2>4. SendInv'
    BY <1>0, <2>1, <2>2 DEF TypeOK, SendInv, Registered
  <2>5. ASSUME NEW b \in Brokers, NEW n \in Names, NEW w \in Calls, WaiterOK(w, b, n)
        PROVE  WaiterOK(w, b, n)'
    BY <1>0, <2>1, <2>2, <2>5 DEF WaiterOK, TypeOK
  <2>6. WaitInv'
    BY <1>0, <2>2, <2>5 DEF WaitInv
  <2> QED BY <2>3, <2>4, <2>6
<1>17. ASSUME NEW i \in Calls, WaitRegister(i) PROVE Goal
  <2>1. via[i] \in Brokers /\ name[i] \in Names /\ h[i] = "run"
    BY <1>0, <1>17 DEF WaitRegister, Running, Route
  <2>2. PICK ws \in Seq(Calls) : ws = waiters[via[i]][name[i]]
    BY <1>0, <2>1 DEF TypeOK
  <2>3. /\ Len(ws) \in Nat /\ Len(Append(ws, i)) = Len(ws) + 1
        /\ Append(ws, i)[Len(ws) + 1] = i
        /\ \A k \in 1 .. Len(ws) : Append(ws, i)[k] = ws[k]
    BY AppendFacts
  <2>4. h' = [h EXCEPT ![i] = "waiting"] /\ UNCHANGED <<chan, closed, target, via, name>>
    BY <1>17 DEF WaitRegister
  <2>5. ASSUME NEW b \in Brokers, NEW n \in Names
        PROVE  waiters'[b][n] = IF b = via[i] /\ n = name[i] THEN Append(ws, i) ELSE waiters[b][n]
    BY <1>0, <1>17, <2>1, <2>2 DEF TypeOK, WaitRegister
  <2>6. ChannelInv'
    BY <1>0, <2>1, <2>4 DEF TypeOK, ChannelInv, Registered
  <2>7. SendInv'
    <3>1. \A p \in Calls : h'[p] = "sending" => h[p] = "sending"
      BY <1>0, <2>4 DEF TypeOK
    <3>2. \A p \in Calls : h[p] \in Registered => h'[p] \in Registered
      BY <1>0, <2>1, <2>4 DEF TypeOK, Registered
    <3> QED BY <1>0, <2>4, <3>1, <3>2 DEF SendInv
  <2>8. ASSUME NEW b \in Brokers, NEW n \in Names, NEW w \in Calls, WaiterOK(w, b, n)
        PROVE  WaiterOK(w, b, n)' /\ w # i
    BY <1>0, <2>1, <2>4, <2>8 DEF WaiterOK, TypeOK
  <2>9. WaiterOK(i, via[i], name[i])'
    <3>1. chan[i] = NoCall /\ i \notin closed
      BY <1>0, <2>1 DEF ChannelInv, Registered
    <3>2. \A p \in Calls : h[p] = "sending" => target[p] # i
      BY <1>0, <2>1 DEF SendInv, Registered
    <3> QED BY <1>0, <2>1, <2>4, <3>1, <3>2 DEF WaiterOK, TypeOK
  <2>10. ASSUME NEW b \in Brokers, NEW n \in Names, NEW w \in Calls,
                NEW k \in 1 .. Len(waiters'[b][n]), waiters'[b][n][k] = w
         PROVE  /\ WaiterOK(w, b, n)'
                /\ \A l \in 1 .. Len(waiters'[b][n]) : waiters'[b][n][l] = w => l = k
    <3>1. CASE b = via[i] /\ n = name[i]
      <4>0. waiters'[b][n] = Append(ws, i) /\ waiters[b][n] = ws
        BY <2>2, <2>5, <3>1
      <4>1. \A l \in 1 .. Len(ws) : ws[l] \in Calls /\ ws[l] # i
        BY <1>0, <2>2, <2>8, <3>1 DEF WaitInv
      <4>2. CASE w = i
        <5>1. \A l \in 1 .. Len(Append(ws, i)) : Append(ws, i)[l] = i => l = Len(ws) + 1
          BY <2>3, <4>1
        <5>2. WaiterOK(w, b, n)'
          BY <2>4, <2>9, <3>1, <4>2 DEF WaiterOK
        <5> QED BY <2>10, <4>0, <4>2, <5>1, <5>2
      <4>3. CASE w # i
        <5>1. k \in 1 .. Len(ws) /\ ws[k] = w
          BY <2>3, <2>10, <4>0, <4>3
        <5>2. /\ WaiterOK(w, b, n)
              /\ \A l \in 1 .. Len(ws) : ws[l] = w => l = k
          BY <1>0, <4>0, <5>1 DEF WaitInv
        <5>3. \A l \in 1 .. Len(Append(ws, i)) : Append(ws, i)[l] = w => l = k
          BY <2>3, <4>3, <5>2
        <5> QED BY <2>8, <4>0, <5>2, <5>3
      <4> QED BY <4>2, <4>3
    <3>2. CASE ~(b = via[i] /\ n = name[i])
      <4>1. waiters'[b][n] = waiters[b][n]
        BY <2>5, <3>2
      <4>2. /\ WaiterOK(w, b, n)
            /\ \A l \in 1 .. Len(waiters[b][n]) : waiters[b][n][l] = w => l = k
        BY <1>0, <2>10, <4>1 DEF WaitInv
      <4> QED BY <2>8, <4>1, <4>2
    <3> QED BY <3>1, <3>2
  <2>11. WaitInv'
    BY <2>10 DEF WaitInv
  <2> QED BY <2>6, <2>7, <2>11
<1>18. ASSUME NEW i \in Calls, WaitReceive(i) PROVE Goal
  <2>1. /\ h[i] \in {"waiting", "drain"} /\ h' = [h EXCEPT ![i] = "reply"]
        /\ chan' = chan \/ chan' = [chan EXCEPT ![i] = NoCall]
        /\ h[i] = "waiting" => chan[i] # NoCall \/ i \in closed
        /\ UNCHANGED <<waiters, closed, target, via, name>>
    BY <1>18 DEF WaitReceive, ReceiveAnswer, Answer
  <2>2. ChannelInv'
    BY <1>0, <2>1 DEF TypeOK, ChannelInv, Registered
  <2>3. SendInv'
    BY <1>0, <2>1 DEF TypeOK, SendInv, Registered
  <2>4. ASSUME NEW b \in Brokers, NEW n \in Names, NEW w \in Calls, WaiterOK(w, b, n)
        PROVE  WaiterOK(w, b, n)'
    BY <1>0, <2>1, <2>4 DEF WaiterOK, TypeOK
  <2>5. WaitInv'
    BY <1>0, <2>1, <2>4 DEF WaitInv
  <2> QED BY <2>2, <2>3, <2>5
<1>19. ASSUME NEW i \in Calls, WaitDrain(i) PROVE Goal
  <2>1. /\ h[i] \in {"waiting", "drain"} /\ h' = [h EXCEPT ![i] = "reply"]
        /\ chan' = chan \/ chan' = [chan EXCEPT ![i] = NoCall]
        /\ h[i] = "waiting" => chan[i] # NoCall \/ i \in closed
        /\ UNCHANGED <<waiters, closed, target, via, name>>
    BY <1>19 DEF WaitDrain, ReceiveAnswer, Answer
  <2>2. ChannelInv'
    BY <1>0, <2>1 DEF TypeOK, ChannelInv, Registered
  <2>3. SendInv'
    BY <1>0, <2>1 DEF TypeOK, SendInv, Registered
  <2>4. ASSUME NEW b \in Brokers, NEW n \in Names, NEW w \in Calls, WaiterOK(w, b, n)
        PROVE  WaiterOK(w, b, n)'
    BY <1>0, <2>1, <2>4 DEF WaiterOK, TypeOK
  <2>5. WaitInv'
    BY <1>0, <2>1, <2>4 DEF WaitInv
  <2> QED BY <2>2, <2>3, <2>5
<1>20. ASSUME NEW i \in Calls, WaitCleanup(i) PROVE Goal
  <2>1. via[i] \in Brokers /\ name[i] \in Names /\ h[i] = "expired"
    BY <1>0, <1>20 DEF WaitCleanup, Route
  <2>2. PICK ws \in Seq(Calls) : ws = waiters[via[i]][name[i]]
    BY <1>0, <2>1 DEF TypeOK
  <2>3. h' = [h EXCEPT ![i] = "drain"] /\ UNCHANGED <<chan, closed, target, via, name>>
    BY <1>20 DEF WaitCleanup
  <2>4. ChannelInv'
    BY <1>0, <2>1, <2>3 DEF TypeOK, ChannelInv, Registered
  <2>5. SendInv'
    BY <1>0, <2>1, <2>3 DEF TypeOK, SendInv, Registered
  <2>6. ASSUME NEW b \in Brokers, NEW n \in Names, NEW w \in Calls, w # i, WaiterOK(w, b, n)
        PROVE  WaiterOK(w, b, n)'
    BY <1>0, <2>1, <2>3, <2>6 DEF WaiterOK, TypeOK
  <2>7. ASSUME \A k \in 1 .. Len(ws) : ws[k] # i, UNCHANGED waiters PROVE WaitInv'
    <3>1. ASSUME NEW b \in Brokers, NEW n \in Names, NEW k \in 1 .. Len(waiters[b][n]),
                 waiters[b][n][k] = i
          PROVE  FALSE
      <4>1. b = via[i] /\ n = name[i]
        BY <1>0, <3>1 DEF WaitInv, WaiterOK
      <4> QED BY <2>2, <2>7, <3>1, <4>1
    <3> QED BY <1>0, <2>6, <2>7, <3>1 DEF WaitInv
  <2>8. ASSUME NEW m \in 1 .. Len(ws), ws[m] = i,
               waiters' = [waiters EXCEPT ![via[i]][name[i]] = RemoveAt(@, m)]
        PROVE  WaitInv'
    <3>1. PICK rs : rs = RemoveAt(ws, m)
      OBVIOUS
    <3>2. /\ Len(ws) \in Nat /\ m \in Nat /\ Len(rs) = Len(ws) - 1
          /\ \A j \in 1 .. Len(rs) : rs[j] = IF j < m THEN ws[j] ELSE ws[j + 1]
      <4>1. /\ Len(rs) = Len(ws) - 1
            /\ \A j \in 1 .. (Len(ws) - 1) : rs[j] = IF j < m THEN ws[j] ELSE ws[j + 1]
        BY <2>2, <3>1, RemoveAtFacts, Zenon
      <4>2. Len(ws) \in Nat /\ m \in Nat
        BY <2>2
      <4> QED BY <4>1, <4>2
    <3>3. ASSUME NEW b \in Brokers, NEW n \in Names
          PROVE  waiters'[b][n] = IF b = via[i] /\ n = name[i] THEN rs ELSE waiters[b][n]
      BY <1>0, <2>1, <2>2, <2>8, <3>1 DEF TypeOK
    <3>4. /\ WaiterOK(i, via[i], name[i])
          /\ \A k \in 1 .. Len(ws) : ws[k] = i => k = m
      BY <1>0, <2>1, <2>2, <2>8 DEF WaitInv
    <3>5. ASSUME NEW b \in Brokers, NEW n \in Names, NEW w \in Calls,
                 NEW k \in 1 .. Len(waiters'[b][n]), waiters'[b][n][k] = w
          PROVE  /\ WaiterOK(w, b, n)'
                 /\ \A l \in 1 .. Len(waiters'[b][n]) : waiters'[b][n][l] = w => l = k
      <4>1. CASE b = via[i] /\ n = name[i]
        <5> DEFINE up(j) == IF j < m THEN j ELSE j + 1
        <5>0. waiters'[b][n] = rs /\ waiters[b][n] = ws
          BY <2>2, <3>3, <4>1
        <5>1. ASSUME NEW j \in 1 .. Len(rs)
              PROVE  up(j) \in 1 .. Len(ws) /\ rs[j] = ws[up(j)] /\ up(j) # m
          BY <3>2
        <5>2. ASSUME NEW j \in 1 .. Len(rs), NEW l \in 1 .. Len(rs), up(j) = up(l) PROVE j = l
          BY <3>2, <5>2
        <5> HIDE DEF up
        <5>3. up(k) \in 1 .. Len(ws) /\ ws[up(k)] = w /\ w # i
          BY <3>4, <3>5, <5>0, <5>1
        <5>4. /\ WaiterOK(w, b, n)
              /\ \A l \in 1 .. Len(ws) : ws[l] = w => l = up(k)
          BY <1>0, <5>0, <5>3 DEF WaitInv
        <5>5. ASSUME NEW l \in 1 .. Len(rs), rs[l] = w PROVE l = k
          BY <3>5, <5>0, <5>1, <5>2, <5>4, <5>5
        <5> QED BY <2>6, <5>0, <5>3, <5>4, <5>5
      <4>2. CASE ~(b = via[i] /\ n = name[i])
        <5>1. waiters'[b][n] = waiters[b][n]
          BY <3>3, <4>2
        <5>2. /\ WaiterOK(w, b, n)
              /\ \A l \in 1 .. Len(waiters[b][n]) : waiters[b][n][l] = w => l = k
          BY <1>0, <3>5, <5>1 DEF WaitInv
        <5>3. w # i
          BY <4>2, <5>2 DEF WaiterOK
        <5> QED BY <2>6, <5>1, <5>2, <5>3
      <4> QED BY <4>1, <4>2
    <3> QED BY <3>5 DEF WaitInv
  <2>9. WaitInv'
    <3>1. Waiting(i) = ws /\ DOMAIN ws = 1 .. Len(ws)
      BY <2>2 DEF Waiting
    <3> QED BY <1>20, <2>7, <2>8, <3>1 DEF WaitCleanup
  <2> QED BY <2>4, <2>5, <2>9
<1> QED
  BY <1>1, <1>2, <1>3, <1>4, <1>5, <1>6, <1>7, <1>8, <1>9, <1>10, <1>11, <1>12,
     <1>13, <1>14, <1>15, <1>16, <1>17, <1>18, <1>19, <1>20 DEF Next, Handler, Post, Wait

\* No step puts a message into a mailbox somebody waits on, or a waiter on a
\* mailbox that holds one.
LEMMA MailStep ==
    ASSUME TypeOK, Route, NoSleepOnMail, [Next]_vars
    PROVE  NoSleepOnMail'
<1> USE DEF brokerVars, chanVars, reqVars, replyVars
<1>0. ASSUME UNCHANGED <<boxes, waiters>> PROVE NoSleepOnMail'
  BY <1>0 DEF NoSleepOnMail
<1>1. ASSUME NEW b \in Brokers, BrokerStart(b) \/ StopListen(b) PROVE NoSleepOnMail'
  BY <1>0, <1>1 DEF BrokerStart, StopListen
<1>2. ASSUME NEW b \in Brokers, StopWake(b) PROVE NoSleepOnMail'
  BY <1>2 DEF StopWake, NoSleepOnMail, TypeOK
<1>3. ASSUME NEW i \in Calls, NEW o \in Ops, NEW n \in Names, Call(i, o, n)
      PROVE  NoSleepOnMail'
  BY <1>0, <1>3 DEF Call
<1>4. ASSUME NEW i \in Calls,
             \/ Accept(i) \/ Reply(i) \/ PostSend(i) \/ PostRefused(i) \/ Status(i)
             \/ WaitRefused(i) \/ WaitReceive(i) \/ WaitTimer(i) \/ WaitDrain(i)
      PROVE  NoSleepOnMail'
  BY <1>0, <1>4 DEF Accept, Reply, PostSend, PostRefused, Status, WaitRefused,
                    WaitReceive, WaitTimer, WaitDrain
<1>5. ASSUME NEW i \in Calls, h[i] # "off"
      PROVE  via[i] \in Brokers /\ name[i] \in Names
  BY <1>5 DEF Route
<1>6. ASSUME NEW i \in Calls, PostHandOff(i) PROVE NoSleepOnMail'
  <2>1. boxes[via[i]][name[i]] = <<>> /\ UNCHANGED boxes
    BY <1>5, <1>6 DEF PostHandOff, Running, Waiting, NoSleepOnMail
  <2>2. ASSUME NEW b \in Brokers, NEW n \in Names, b # via[i] \/ n # name[i]
        PROVE  waiters'[b][n] = waiters[b][n]
    BY <1>5, <1>6, <2>2 DEF PostHandOff, Running, TypeOK
  <2> QED BY <2>1, <2>2 DEF NoSleepOnMail
<1>7. ASSUME NEW i \in Calls, PostQueued(i) PROVE NoSleepOnMail'
  <2>1. waiters[via[i]][name[i]] = <<>> /\ UNCHANGED waiters
    BY <1>7 DEF PostQueued, Waiting
  <2>2. ASSUME NEW b \in Brokers, NEW n \in Names, b # via[i] \/ n # name[i]
        PROVE  boxes'[b][n] = boxes[b][n]
    BY <1>5, <1>7, <2>2 DEF PostQueued, Running, TypeOK
  <2> QED BY <2>1, <2>2 DEF NoSleepOnMail
<1>8. ASSUME NEW i \in Calls, Fetch(i) PROVE NoSleepOnMail'
  BY <1>5, <1>8 DEF Fetch, Running, TypeOK, NoSleepOnMail
<1>9. ASSUME NEW i \in Calls, WaitTake(i) PROVE NoSleepOnMail'
  <2>1. waiters[via[i]][name[i]] = <<>> /\ UNCHANGED waiters
    BY <1>5, <1>9 DEF WaitTake, Running, Queue, NoSleepOnMail
  <2>2. ASSUME NEW b \in Brokers, NEW n \in Names, b # via[i] \/ n # name[i]
        PROVE  boxes'[b][n] = boxes[b][n]
    BY <1>5, <1>9, <2>2 DEF WaitTake, Running, TypeOK
  <2> QED BY <2>1, <2>2 DEF NoSleepOnMail
<1>10. ASSUME NEW i \in Calls, WaitRegister(i) PROVE NoSleepOnMail'
  <2>1. boxes[via[i]][name[i]] = <<>> /\ UNCHANGED boxes
    BY <1>10 DEF WaitRegister, Queue
  <2>2. ASSUME NEW b \in Brokers, NEW n \in Names, b # via[i] \/ n # name[i]
        PROVE  waiters'[b][n] = waiters[b][n]
    BY <1>5, <1>10, <2>2 DEF WaitRegister, Running, TypeOK
  <2> QED BY <2>1, <2>2 DEF NoSleepOnMail
<1>11. ASSUME NEW i \in Calls, WaitCleanup(i) PROVE NoSleepOnMail'
  <2>1. CASE UNCHANGED waiters
    BY <1>0, <1>11, <2>1 DEF WaitCleanup
  <2>2. ASSUME NEW k \in DOMAIN Waiting(i),
               waiters' = [waiters EXCEPT ![via[i]][name[i]] = RemoveAt(@, k)]
        PROVE  NoSleepOnMail'
    <3>1. via[i] \in Brokers /\ name[i] \in Names /\ UNCHANGED boxes
      BY <1>5, <1>11 DEF WaitCleanup
    <3>2. boxes[via[i]][name[i]] = <<>>
      BY <2>2, <3>1 DEF Waiting, NoSleepOnMail
    <3>3. ASSUME NEW b \in Brokers, NEW n \in Names, b # via[i] \/ n # name[i]
          PROVE  waiters'[b][n] = waiters[b][n]
      BY <2>2, <3>1, <3>3 DEF TypeOK
    <3> QED BY <3>1, <3>2, <3>3 DEF NoSleepOnMail
  <2> QED BY <1>11, <2>1, <2>2 DEF WaitCleanup
<1>12. CASE UNCHANGED vars
  BY <1>0, <1>12 DEF vars
<1> QED
  BY <1>1, <1>2, <1>3, <1>4, <1>6, <1>7, <1>8, <1>9, <1>10, <1>11, <1>12
     DEF Next, Handler, Post, Wait

-----------------------------------------------------------------------------
(***************************************************************************)
(* Messages                                                                *)
(***************************************************************************)
\* The broker has answered for message m; m is in a queue; call i has been given m.
Answered(m)   == op[m] = "post" /\ h[m] \in {"reply", "done"} /\ rok[m]
InBox(m, b, n) == \E k \in 1 .. Len(boxes[b][n]) : boxes[b][n][k] = m
InReply(m, i) == \E k \in 1 .. Len(rmsgs[i]) : rmsgs[i][k] = m
Has(i, m)     == chan[i] = m \/ InReply(m, i)

\* A handler knows its request, and has not answered before it does.
RequestInv == \A i \in Calls :
    /\ h[i] \notin {"reply", "done"} => rmsgs[i] = <<>> /\ ~rok[i]
    /\ h[i] = "sending" => op[i] = "post" /\ via[target[i]] = via[i] /\ name[target[i]] = name[i]
    /\ h[i] \in {"waiting", "expired", "drain"} => op[i] = "wait"
    /\ target[i] # NoCall => op[i] = "post" /\ (h[i] = "sending" \/ Answered(i))

\* A queue holds each of its messages once, and only messages for it, which no
\* call has been given.
QueueInv == \A b \in Brokers, n \in Names, m \in Calls :
    /\ InBox(m, b, n) => /\ Answered(m) /\ via[m] = b /\ name[m] = n /\ target[m] = NoCall
                         /\ \A i \in Calls : ~Has(i, m)
    /\ \A k, l \in 1 .. Len(boxes[b][n]) : boxes[b][n][k] = m /\ boxes[b][n][l] = m => k = l

\* A message is given to one call, of its own mailbox.
HolderInv == \A i, m \in Calls : Has(i, m) =>
    /\ Answered(m) /\ h[i] # "off" /\ via[i] = via[m] /\ name[i] = name[m]
    /\ \A j \in Calls : Has(j, m) => j = i

\* A message the broker has answered for is somewhere.
PlaceInv == \A m \in Calls : Answered(m) =>
    (\E b \in Brokers, n \in Names : InBox(m, b, n)) \/ (\E i \in Calls : Has(i, m))

MailInv == RequestInv /\ QueueInv /\ HolderInv /\ PlaceInv

\* What a step leaves alone of the requests that were made.
Steady == \A j \in Calls : h[j] # "off" =>
    h'[j] # "off" /\ via'[j] = via[j] /\ name'[j] = name[j] /\ op'[j] = op[j]

\* What a step does to messages: it moves none, sends the message of i into the
\* channel taken for it, takes that channel, queues the message of i, or gives
\* call i the k oldest messages of its mailbox.
Still ==
    /\ UNCHANGED <<boxes, target>>
    /\ \A m \in Calls : Answered(m)' <=> Answered(m)
    /\ \A j, m \in Calls : Has(j, m)' <=> Has(j, m)
Sends(i) ==
    /\ UNCHANGED <<boxes, target>> /\ target[i] # NoCall
    /\ \A m \in Calls \ {i} : Answered(m)' <=> Answered(m)
    /\ \A j \in Calls, m \in Calls \ {i} : Has(j, m)' <=> Has(j, m)
HandsOff(i) ==
    /\ UNCHANGED boxes /\ via[i] \in Brokers /\ name[i] \in Names /\ waiters[via[i]][name[i]] # <<>>
    /\ target[i] = NoCall /\ ~Answered(i) /\ \E t \in Calls : target' = [target EXCEPT ![i] = t]
    /\ \A m \in Calls : Answered(m)' <=> Answered(m)
    /\ \A j, m \in Calls : Has(j, m)' <=> Has(j, m)
Puts(i) ==
    /\ via[i] \in Brokers /\ name[i] \in Names /\ UNCHANGED target /\ target[i] = NoCall /\ ~Answered(i)
    /\ boxes' = [boxes EXCEPT ![via[i]][name[i]] = Append(@, i)]
    /\ \A m \in Calls \ {i} : Answered(m)' <=> Answered(m)
    /\ \A j, m \in Calls : Has(j, m)' <=> Has(j, m)
Takes(i, k) ==
    LET s == boxes[via[i]][name[i]] IN
    /\ via[i] \in Brokers /\ name[i] \in Names /\ UNCHANGED target /\ k \in 1 .. Len(s)
    /\ boxes' = [boxes EXCEPT ![via[i]][name[i]] = SubSeq(s, k + 1, Len(s))]
    /\ \A m \in Calls : Answered(m)' <=> Answered(m)
    /\ \A j, m \in Calls : Has(j, m)' <=> Has(j, m) \/ (j = i /\ \E l \in 1 .. k : s[l] = m)

MailMoves ==
    Still \/ \E i \in Calls : Sends(i) \/ HandsOff(i) \/ Puts(i) \/ \E k \in Nat : Takes(i, k)

\* A step that moves no message keeps what is known of messages.
LEMMA NoMove ==
    ASSUME BrokerInv, MailInv, Steady, UNCHANGED boxes,
           \A m \in Calls : Answered(m)' <=> Answered(m),
           \A i, m \in Calls : Has(i, m)' <=> Has(i, m),
           \A m \in Calls : Answered(m) => target'[m] = target[m]
    PROVE  QueueInv' /\ HolderInv' /\ PlaceInv'
<1>1. \A m \in Calls, b \in Brokers, n \in Names : InBox(m, b, n)' <=> InBox(m, b, n)
  BY DEF InBox
<1>2. \A m \in Calls : Answered(m) => via'[m] = via[m] /\ name'[m] = name[m] /\ via[m] \in Brokers /\ name[m] \in Names
  BY DEF Answered, Steady, BrokerInv, Route
<1>3. QueueInv'
  <2>1. ASSUME NEW b \in Brokers, NEW n \in Names, NEW m \in Calls, InBox(m, b, n)'
        PROVE  Answered(m)' /\ via'[m] = b /\ name'[m] = n /\ target'[m] = NoCall /\ \A i \in Calls : ~Has(i, m)'
    <3>1. Answered(m) /\ via[m] = b /\ name[m] = n /\ target[m] = NoCall /\ \A i \in Calls : ~Has(i, m)
      BY <1>1, <2>1 DEF MailInv, QueueInv
    <3> QED BY <1>2, <3>1
  <2>2. ASSUME NEW b \in Brokers, NEW n \in Names, NEW m \in Calls
        PROVE  \A k, l \in 1 .. Len(boxes'[b][n]) : boxes'[b][n][k] = m /\ boxes'[b][n][l] = m => k = l
    BY DEF MailInv, QueueInv
  <2> QED BY <2>1, <2>2 DEF QueueInv
<1>4. HolderInv'
  <2>1. ASSUME NEW i \in Calls, NEW m \in Calls, Has(i, m)'
        PROVE  /\ Answered(m)' /\ h'[i] # "off" /\ via'[i] = via'[m] /\ name'[i] = name'[m]
               /\ \A j \in Calls : Has(j, m)' => j = i
    <3>1. /\ Answered(m) /\ h[i] # "off" /\ via[i] = via[m] /\ name[i] = name[m]
          /\ \A j \in Calls : Has(j, m) => j = i
      BY <2>1 DEF MailInv, HolderInv
    <3>2. h'[i] # "off" /\ via'[i] = via[i] /\ name'[i] = name[i]
      BY <3>1 DEF Steady
    <3> QED BY <1>2, <3>1, <3>2
  <2> QED BY <2>1 DEF HolderInv
<1>5. PlaceInv'
  BY <1>1 DEF MailInv, PlaceInv
<1> QED BY <1>3, <1>4, <1>5

\* A step of a handler, a client or broker_stop that only changes where handlers are.
LEMMA HandlerOnly ==
    ASSUME BrokerInv, MailInv, Steady, UNCHANGED <<boxes, chan, rmsgs, rok, target>>,
           \A j \in Calls : /\ h[j] \in {"reply", "done"} => h'[j] \in {"reply", "done"}
                            /\ h'[j] = "sending" <=> h[j] = "sending"
                            /\ h'[j] \in {"waiting", "expired", "drain"} =>
                                  h[j] \in {"waiting", "expired", "drain"} \/ (h[j] = "run" /\ op[j] = "wait")
    PROVE  MailInv' /\ Still
<1>1. \A m \in Calls : Answered(m)' <=> Answered(m)
  BY DEF Answered, MailInv, RequestInv, Steady
<1>2. \A i, m \in Calls : Has(i, m)' <=> Has(i, m)
  BY DEF Has, InReply
<1>3. QueueInv' /\ HolderInv' /\ PlaceInv'
  BY <1>1, <1>2, NoMove
<1>4. ASSUME NEW i \in Calls
      PROVE  /\ h'[i] \notin {"reply", "done"} => rmsgs'[i] = <<>> /\ ~rok'[i]
             /\ h'[i] = "sending" => op'[i] = "post" /\ via'[target'[i]] = via'[i] /\ name'[target'[i]] = name'[i]
             /\ h'[i] \in {"waiting", "expired", "drain"} => op'[i] = "wait"
             /\ target'[i] # NoCall => op'[i] = "post" /\ (h'[i] = "sending" \/ Answered(i)')
  <2>1. RequestInv /\ SendInv
    BY DEF MailInv, BrokerInv
  <2>2. h'[i] \notin {"reply", "done"} => rmsgs'[i] = <<>> /\ ~rok'[i]
    BY <2>1 DEF RequestInv
  <2>3. h'[i] = "sending" => op'[i] = "post" /\ via'[target'[i]] = via'[i] /\ name'[target'[i]] = name'[i]
    BY <2>1 DEF RequestInv, SendInv, Steady, Registered
  <2>4. h'[i] \in {"waiting", "expired", "drain"} => op'[i] = "wait"
    BY <2>1 DEF RequestInv, Steady
  <2>5. target'[i] # NoCall => op'[i] = "post" /\ (h'[i] = "sending" \/ Answered(i)')
    <3>1. CASE h[i] = "off"
      BY <2>1, <3>1 DEF RequestInv, Answered
    <3>2. CASE h[i] # "off"
      BY <1>1, <2>1, <3>2 DEF RequestInv, Steady
    <3> QED BY <3>1, <3>2
  <2> QED BY <2>2, <2>3, <2>4, <2>5
<1>5. RequestInv'
  BY <1>4 DEF RequestInv
<1>6. Still
  BY <1>1, <1>2 DEF Still
<1> QED BY <1>3, <1>5, <1>6 DEF MailInv

\* A handler that did not post, or is refused, answers with the messages it already has.
LEMMA AnswerOnly ==
    ASSUME BrokerInv, MailInv, NEW i \in Calls, h[i] \in {"run", "waiting", "drain"},
           NEW ok \in BOOLEAN, NEW msgs \in Seq(Calls), Answer(i, ok, msgs), ~(ok /\ op[i] = "post"),
           UNCHANGED <<boxes, op, via, name, target>>,
           \A j \in Calls \ {i} : chan'[j] = chan[j],
           \A m \in Calls : chan[i] = m <=> chan'[i] = m \/ \E k \in 1 .. Len(msgs) : msgs[k] = m
    PROVE  MailInv' /\ Still
<1>1. /\ h' = [h EXCEPT ![i] = "reply"] /\ rok' = [rok EXCEPT ![i] = ok] /\ rmsgs' = [rmsgs EXCEPT ![i] = msgs]
      /\ TypeOK /\ RequestInv
  BY DEF Answer, BrokerInv, MailInv
<1>2. /\ h'[i] = "reply" /\ rok'[i] = ok /\ rmsgs'[i] = msgs /\ rmsgs[i] = <<>>
      /\ \A j \in Calls \ {i} : h'[j] = h[j] /\ rok'[j] = rok[j] /\ rmsgs'[j] = rmsgs[j]
  BY <1>1 DEF TypeOK, RequestInv
<1>3. \A m \in Calls : Answered(m)' <=> Answered(m)
  BY <1>2 DEF Answered
<1>4. ASSUME NEW j \in Calls, NEW m \in Calls PROVE Has(j, m)' <=> Has(j, m)
  <2>1. CASE j # i
    BY <1>2, <2>1 DEF Has, InReply
  <2>2. CASE j = i
    <3>1. ~InReply(m, i)
      BY <1>2 DEF InReply
    <3>2. InReply(m, i)' <=> \E k \in 1 .. Len(msgs) : msgs[k] = m
      BY <1>2 DEF InReply
    <3> QED BY <2>2, <3>1, <3>2 DEF Has
  <2> QED BY <2>1, <2>2
<1>5. Steady
  BY <1>2 DEF Steady
<1>6. QueueInv' /\ HolderInv' /\ PlaceInv'
  BY <1>3, <1>4, <1>5, NoMove
<1>7. RequestInv'
  <2>1. target[i] = NoCall
    BY <1>1 DEF RequestInv, Answered
  <2> QED BY <1>1, <1>2, <1>3, <2>1 DEF RequestInv
<1>8. Still
  BY <1>3, <1>4 DEF Still
<1> QED BY <1>6, <1>7, <1>8 DEF MailInv

\* Queued messages T are given to call i.
LEMMA TakenFromBox ==
    ASSUME BrokerInv, MailInv, Steady, UNCHANGED target, NEW i \in Calls, h[i] = "run", NEW T \in SUBSET Calls,
           \A m \in T : InBox(m, via[i], name[i]),
           \A m \in Calls, b \in Brokers, n \in Names : InBox(m, b, n)' <=> InBox(m, b, n) /\ m \notin T,
           \A b \in Brokers, n \in Names, m \in Calls :
              \A k, l \in 1 .. Len(boxes'[b][n]) : boxes'[b][n][k] = m /\ boxes'[b][n][l] = m => k = l,
           \A m \in Calls : Answered(m)' <=> Answered(m),
           \A j, m \in Calls : Has(j, m)' <=> Has(j, m) \/ (j = i /\ m \in T)
    PROVE  QueueInv' /\ HolderInv' /\ PlaceInv'
<1>1. via[i] \in Brokers /\ name[i] \in Names /\ QueueInv /\ HolderInv /\ PlaceInv
  BY DEF BrokerInv, Route, MailInv
<1>2. \A m \in Calls : Answered(m) => via'[m] = via[m] /\ name'[m] = name[m]
  BY DEF Answered, Steady
<1>3. QueueInv'
  <2>1. ASSUME NEW b \in Brokers, NEW n \in Names, NEW m \in Calls, InBox(m, b, n)'
        PROVE  Answered(m)' /\ via'[m] = b /\ name'[m] = n /\ target'[m] = NoCall /\ \A j \in Calls : ~Has(j, m)'
    BY <1>1, <1>2, <2>1 DEF QueueInv
  <2> QED BY <2>1 DEF QueueInv
<1>4. HolderInv'
  <2>1. ASSUME NEW j \in Calls, NEW m \in Calls, Has(j, m)'
        PROVE  /\ Answered(m)' /\ h'[j] # "off" /\ via'[j] = via'[m] /\ name'[j] = name'[m]
               /\ \A l \in Calls : Has(l, m)' => l = j
    <3>1. CASE m \in T
      <4>1. Answered(m) /\ via[m] = via[i] /\ name[m] = name[i] /\ \A l \in Calls : ~Has(l, m)
        BY <1>1, <3>1 DEF QueueInv
      <4>2. j = i /\ h'[i] # "off" /\ via'[i] = via[i] /\ name'[i] = name[i]
        BY <2>1, <4>1 DEF Steady
      <4> QED BY <1>2, <4>1, <4>2
    <3>2. CASE m \notin T
      <4>1. /\ Answered(m) /\ h[j] # "off" /\ via[j] = via[m] /\ name[j] = name[m]
            /\ \A l \in Calls : Has(l, m) => l = j
        BY <1>1, <2>1, <3>2 DEF HolderInv
      <4> QED BY <1>2, <3>2, <4>1 DEF Steady
    <3> QED BY <3>1, <3>2
  <2> QED BY <2>1 DEF HolderInv
<1>5. PlaceInv'
  BY <1>1 DEF PlaceInv
<1> QED BY <1>3, <1>4, <1>5

\* Message i, new to the broker, is put into its mailbox or given to call t of that mailbox.
LEMMA NewMessage ==
    ASSUME BrokerInv, MailInv, Steady, UNCHANGED target, NEW i \in Calls, h[i] \in {"run", "sending"},
           NEW q \in BOOLEAN, NEW t \in Calls,
           q => target[i] = NoCall,
           ~q => h[t] # "off" /\ via[t] = via[i] /\ name[t] = name[i],
           \A m \in Calls, b \in Brokers, n \in Names :
              InBox(m, b, n)' <=> InBox(m, b, n) \/ (q /\ m = i /\ b = via[i] /\ n = name[i]),
           \A b \in Brokers, n \in Names, m \in Calls :
              \A k, l \in 1 .. Len(boxes'[b][n]) : boxes'[b][n][k] = m /\ boxes'[b][n][l] = m => k = l,
           \A m \in Calls : Answered(m)' <=> Answered(m) \/ m = i,
           \A j, m \in Calls : Has(j, m)' <=> Has(j, m) \/ (~q /\ j = t /\ m = i)
    PROVE  QueueInv' /\ HolderInv' /\ PlaceInv'
<1>1. via[i] \in Brokers /\ name[i] \in Names /\ QueueInv /\ HolderInv /\ PlaceInv /\ ~Answered(i)
  BY DEF BrokerInv, Route, MailInv, Answered
<1>2. \A m \in Calls : Answered(m) \/ m = i => via'[m] = via[m] /\ name'[m] = name[m]
  BY DEF Answered, Steady
<1>3. \A j \in Calls : ~Has(j, i)
  BY <1>1 DEF HolderInv
<1>4. \A b \in Brokers, n \in Names : ~InBox(i, b, n)
  BY <1>1 DEF QueueInv
<1>5. QueueInv'
  <2>1. ASSUME NEW b \in Brokers, NEW n \in Names, NEW m \in Calls, InBox(m, b, n)'
        PROVE  Answered(m)' /\ via'[m] = b /\ name'[m] = n /\ target'[m] = NoCall /\ \A j \in Calls : ~Has(j, m)'
    <3>1. CASE m = i
      BY <1>2, <1>3, <1>4, <2>1, <3>1
    <3>2. CASE m # i
      BY <1>1, <1>2, <2>1, <3>2 DEF QueueInv
    <3> QED BY <3>1, <3>2
  <2> QED BY <2>1 DEF QueueInv
<1>6. HolderInv'
  <2>1. ASSUME NEW j \in Calls, NEW m \in Calls, Has(j, m)'
        PROVE  /\ Answered(m)' /\ h'[j] # "off" /\ via'[j] = via'[m] /\ name'[j] = name'[m]
               /\ \A l \in Calls : Has(l, m)' => l = j
    <3>1. CASE m = i
      <4>1. ~q /\ j = t /\ h'[t] # "off" /\ via'[t] = via[t] /\ name'[t] = name[t]
        BY <1>3, <2>1, <3>1 DEF Steady
      <4> QED BY <1>2, <1>3, <3>1, <4>1
    <3>2. CASE m # i
      <4>1. /\ Answered(m) /\ h[j] # "off" /\ via[j] = via[m] /\ name[j] = name[m]
            /\ \A l \in Calls : Has(l, m) => l = j
        BY <1>1, <2>1, <3>2 DEF HolderInv
      <4> QED BY <1>2, <3>2, <4>1 DEF Steady
    <3> QED BY <3>1, <3>2
  <2> QED BY <2>1 DEF HolderInv
<1>7. PlaceInv'
  BY <1>1 DEF PlaceInv
<1> QED BY <1>5, <1>6, <1>7

\* doPost takes a waiter's channel for its message.
LEMMA HandOffMail == ASSUME BrokerInv, MailInv, NEW i \in Calls, PostHandOff(i) PROVE MailInv' /\ HandsOff(i)
<1>1. /\ h[i] = "run" /\ op[i] = "post" /\ h' = [h EXCEPT ![i] = "sending"] /\ TypeOK /\ RequestInv /\ SendInv /\ WaitInv
      /\ via[i] \in Brokers /\ name[i] \in Names /\ UNCHANGED <<boxes, chan, rmsgs, rok, op, via, name>>
  BY DEF PostHandOff, Running, BrokerInv, MailInv, Route, chanVars, reqVars, replyVars
<1>2. PICK t \in Calls : /\ target' = [target EXCEPT ![i] = t] /\ via[t] = via[i] /\ name[t] = name[i]
  <2>1. PICK ws \in Seq(Calls) : ws = waiters[via[i]][name[i]] /\ ws # <<>>
    BY <1>1 DEF TypeOK, PostHandOff, Waiting
  <2>2. PICK t \in Calls : t = Head(ws) /\ t = ws[1] /\ 1 \in 1 .. Len(ws)
    BY <2>1
  <2>3. WaiterOK(t, via[i], name[i])
    BY <1>1, <2>1, <2>2 DEF WaitInv
  <2>4. target' = [target EXCEPT ![i] = t]
    BY <2>1, <2>2 DEF PostHandOff, Waiting
  <2> QED BY <2>3, <2>4 DEF WaiterOK
<1>3. /\ h'[i] = "sending" /\ target'[i] = t
      /\ \A j \in Calls \ {i} : h'[j] = h[j] /\ target'[j] = target[j]
  BY <1>1, <1>2 DEF TypeOK
<1>4. \A m \in Calls : Answered(m)' <=> Answered(m)
  BY <1>1, <1>3 DEF Answered
<1>5. \A j, m \in Calls : Has(j, m)' <=> Has(j, m)
  BY <1>1 DEF Has, InReply
<1>6. Steady /\ \A m \in Calls : Answered(m) => target'[m] = target[m]
  BY <1>1, <1>3 DEF Steady, Answered
<1>7. QueueInv' /\ HolderInv' /\ PlaceInv'
  BY <1>1, <1>4, <1>5, <1>6, NoMove
<1>8. RequestInv'
  BY <1>1, <1>2, <1>3, <1>4 DEF RequestInv
<1>9. HandsOff(i)
  <2>1. waiters[via[i]][name[i]] # <<>> /\ target[i] = NoCall /\ ~Answered(i)
    BY <1>1 DEF PostHandOff, Waiting, RequestInv, Answered
  <2> QED BY <1>1, <1>2, <1>4, <1>5, <2>1 DEF HandsOff
<1> QED BY <1>7, <1>8, <1>9 DEF MailInv

\* ... and sends the message on it.
LEMMA SendMail == ASSUME BrokerInv, MailInv, NEW i \in Calls, PostSend(i) PROVE MailInv' /\ Sends(i)
<1>1. /\ h[i] = "sending" /\ TypeOK /\ RequestInv /\ SendInv
      /\ h' = [h EXCEPT ![i] = "reply"] /\ rok' = [rok EXCEPT ![i] = TRUE] /\ rmsgs' = [rmsgs EXCEPT ![i] = <<>>]
      /\ chan' = [chan EXCEPT ![target[i]] = i] /\ UNCHANGED <<boxes, op, via, name, target>>
  BY DEF PostSend, Answer, BrokerInv, MailInv, brokerVars, reqVars
<1>2. PICK t \in Calls : target[i] = t
  BY <1>1 DEF SendInv
<1>3. /\ op[i] = "post" /\ via[t] = via[i] /\ name[t] = name[i] /\ chan[t] = NoCall /\ h[t] # "off" /\ t # i
      /\ rmsgs[i] = <<>>
  BY <1>1, <1>2 DEF RequestInv, SendInv, Registered
<1>4. /\ h'[i] = "reply" /\ rok'[i] /\ rmsgs' = rmsgs /\ chan'[t] = i
      /\ \A j \in Calls \ {i} : h'[j] = h[j] /\ rok'[j] = rok[j]
      /\ \A j \in Calls \ {t} : chan'[j] = chan[j]
  BY <1>1, <1>2, <1>3 DEF TypeOK
<1>5. \A m \in Calls : Answered(m)' <=> Answered(m) \/ m = i
  BY <1>1, <1>3, <1>4 DEF Answered
<1>6. \A j, m \in Calls : Has(j, m)' <=> Has(j, m) \/ (~FALSE /\ j = t /\ m = i)
  BY <1>3, <1>4, NullAssumption DEF Has, InReply
<1>7. \A m \in Calls, b \in Brokers, n \in Names :
         InBox(m, b, n)' <=> InBox(m, b, n) \/ (FALSE /\ m = i /\ b = via[i] /\ n = name[i])
  BY <1>1 DEF InBox
<1>8. \A b \in Brokers, n \in Names, m \in Calls :
         \A k, l \in 1 .. Len(boxes'[b][n]) : boxes'[b][n][k] = m /\ boxes'[b][n][l] = m => k = l
  BY <1>1 DEF MailInv, QueueInv
<1>9. Steady
  BY <1>1, <1>4 DEF Steady
<1>10. QueueInv' /\ HolderInv' /\ PlaceInv'
  BY <1>1, <1>3, <1>5, <1>6, <1>7, <1>8, <1>9, NewMessage
<1>11. RequestInv'
  BY <1>1, <1>3, <1>4, <1>5 DEF RequestInv
<1>12. Sends(i)
  BY <1>1, <1>2, <1>5, <1>6, NullAssumption DEF Sends
<1> QED BY <1>10, <1>11, <1>12 DEF MailInv

\* doPost queues its message.
LEMMA QueueMail == ASSUME BrokerInv, MailInv, NEW i \in Calls, PostQueued(i) PROVE MailInv' /\ Puts(i)
<1>1. /\ h[i] = "run" /\ op[i] = "post" /\ TypeOK /\ RequestInv /\ via[i] \in Brokers /\ name[i] \in Names
      /\ h' = [h EXCEPT ![i] = "reply"] /\ rok' = [rok EXCEPT ![i] = TRUE] /\ rmsgs' = [rmsgs EXCEPT ![i] = <<>>]
      /\ boxes' = [boxes EXCEPT ![via[i]][name[i]] = Append(@, i)] /\ UNCHANGED <<chan, op, via, name, target>>
  BY DEF PostQueued, Running, Answer, BrokerInv, MailInv, Route, chanVars, reqVars
<1>2. rmsgs[i] = <<>> /\ target[i] = NoCall /\ ~Answered(i)
  BY <1>1 DEF RequestInv, Answered
<1>3. /\ h'[i] = "reply" /\ rok'[i] /\ rmsgs' = rmsgs
      /\ \A j \in Calls \ {i} : h'[j] = h[j] /\ rok'[j] = rok[j]
  BY <1>1, <1>2 DEF TypeOK
<1>4. \A m \in Calls : Answered(m)' <=> Answered(m) \/ m = i
  BY <1>1, <1>3 DEF Answered
<1>5. \A j, m \in Calls : Has(j, m)' <=> Has(j, m) \/ (~TRUE /\ j = i /\ m = i)
  BY <1>1, <1>3 DEF Has, InReply
<1>6. PICK s \in Seq(Calls) : s = boxes[via[i]][name[i]]
  BY <1>1 DEF TypeOK
<1>7. /\ Len(s) \in Nat /\ Len(Append(s, i)) = Len(s) + 1 /\ Append(s, i)[Len(s) + 1] = i
      /\ \A k \in 1 .. Len(s) : Append(s, i)[k] = s[k]
  BY AppendFacts
<1>8. ASSUME NEW b \in Brokers, NEW n \in Names
      PROVE  boxes'[b][n] = IF b = via[i] /\ n = name[i] THEN Append(s, i) ELSE boxes[b][n]
  BY <1>1, <1>6 DEF TypeOK
<1>9. ASSUME NEW m \in Calls, NEW b \in Brokers, NEW n \in Names
      PROVE  InBox(m, b, n)' <=> InBox(m, b, n) \/ (TRUE /\ m = i /\ b = via[i] /\ n = name[i])
  <2>1. CASE b = via[i] /\ n = name[i]
    <3>1. InBox(m, b, n)' <=> \E k \in 1 .. Len(s) + 1 : Append(s, i)[k] = m
      BY <1>7, <1>8, <2>1 DEF InBox
    <3>2. InBox(m, b, n) <=> \E k \in 1 .. Len(s) : s[k] = m
      BY <1>6, <2>1 DEF InBox
    <3> QED BY <1>7, <2>1, <3>1, <3>2
  <2>2. CASE ~(b = via[i] /\ n = name[i])
    BY <1>8, <2>2 DEF InBox
  <2> QED BY <2>1, <2>2
<1>10. ASSUME NEW b \in Brokers, NEW n \in Names, NEW m \in Calls,
              NEW k \in 1 .. Len(boxes'[b][n]), NEW l \in 1 .. Len(boxes'[b][n]),
              boxes'[b][n][k] = m, boxes'[b][n][l] = m
       PROVE  k = l
  <2>1. \A x, y \in 1 .. Len(boxes[b][n]) : boxes[b][n][x] = m /\ boxes[b][n][y] = m => x = y
    BY DEF MailInv, QueueInv
  <2>2. CASE b = via[i] /\ n = name[i]
    <3>1. \A x \in 1 .. Len(s) : s[x] # i
      BY <1>1, <1>2, <1>6 DEF MailInv, QueueInv, InBox
    <3>2. k \in 1 .. Len(s) + 1 /\ l \in 1 .. Len(s) + 1 /\ Append(s, i)[k] = m /\ Append(s, i)[l] = m
      BY <1>7, <1>8, <1>10, <2>2
    <3>3. \A x, y \in 1 .. Len(s) : s[x] = m /\ s[y] = m => x = y
      BY <1>6, <2>1, <2>2
    <3> QED BY <1>7, <3>1, <3>2, <3>3
  <2>3. CASE ~(b = via[i] /\ n = name[i])
    BY <1>8, <1>10, <2>1, <2>3
  <2> QED BY <2>2, <2>3
<1>11. Steady
  BY <1>1, <1>3 DEF Steady
<1>12. QueueInv' /\ HolderInv' /\ PlaceInv'
  <2>1. \A b \in Brokers, n \in Names, m \in Calls :
           \A k, l \in 1 .. Len(boxes'[b][n]) : boxes'[b][n][k] = m /\ boxes'[b][n][l] = m => k = l
    BY <1>10
  <2>2. \A m \in Calls, b \in Brokers, n \in Names :
           InBox(m, b, n)' <=> InBox(m, b, n) \/ (TRUE /\ m = i /\ b = via[i] /\ n = name[i])
    BY <1>9
  <2> QED BY <1>1, <1>2, <1>4, <1>5, <1>11, <2>1, <2>2, NewMessage
<1>13. RequestInv'
  BY <1>1, <1>2, <1>3, <1>4 DEF RequestInv
<1>14. Puts(i)
  BY <1>1, <1>2, <1>4, <1>5 DEF Puts
<1> QED BY <1>12, <1>13, <1>14 DEF MailInv

\* doFetch takes all messages of its mailbox.
LEMMA FetchMail == ASSUME BrokerInv, MailInv, NEW i \in Calls, Fetch(i) PROVE MailInv' /\ (Still \/ \E k \in Nat : Takes(i, k))
<1>1. PICK s \in Seq(Calls) : s = boxes[via[i]][name[i]]
  BY DEF Fetch, Running, BrokerInv, Route, TypeOK
<1>2. /\ h[i] = "run" /\ op[i] = "fetch" /\ TypeOK /\ RequestInv /\ via[i] \in Brokers /\ name[i] \in Names
      /\ h' = [h EXCEPT ![i] = "reply"] /\ rok' = [rok EXCEPT ![i] = TRUE] /\ rmsgs' = [rmsgs EXCEPT ![i] = s]
      /\ boxes' = [boxes EXCEPT ![via[i]][name[i]] = <<>>] /\ UNCHANGED <<chan, op, via, name, target>>
  BY <1>1 DEF Fetch, Running, Answer, Queue, BrokerInv, MailInv, Route, chanVars, reqVars
<1> DEFINE T == {m \in Calls : InBox(m, via[i], name[i])}
<1>3. /\ h'[i] = "reply" /\ rmsgs'[i] = s /\ rmsgs[i] = <<>> /\ target[i] = NoCall
      /\ \A j \in Calls \ {i} : h'[j] = h[j] /\ rok'[j] = rok[j] /\ rmsgs'[j] = rmsgs[j]
  BY <1>2 DEF TypeOK, RequestInv, Answered
<1>4. \A m \in Calls : Answered(m)' <=> Answered(m)
  BY <1>2, <1>3 DEF Answered
<1>5. \A m \in Calls : m \in T <=> \E k \in 1 .. Len(s) : s[k] = m
  BY <1>1 DEF InBox
<1>6. ASSUME NEW j \in Calls, NEW m \in Calls PROVE Has(j, m)' <=> Has(j, m) \/ (j = i /\ m \in T)
  <2>1. CASE j # i
    BY <1>2, <1>3, <2>1 DEF Has, InReply
  <2>2. CASE j = i
    <3>1. ~InReply(m, i)
      BY <1>3 DEF InReply
    <3>2. InReply(m, i)' <=> \E k \in 1 .. Len(s) : s[k] = m
      BY <1>3 DEF InReply
    <3> QED BY <1>2, <1>5, <2>2, <3>1, <3>2 DEF Has
  <2> QED BY <2>1, <2>2
<1>7. ASSUME NEW b \in Brokers, NEW n \in Names
      PROVE  boxes'[b][n] = IF b = via[i] /\ n = name[i] THEN <<>> ELSE boxes[b][n]
  BY <1>2 DEF TypeOK
<1>8. ASSUME NEW m \in Calls, NEW b \in Brokers, NEW n \in Names
      PROVE  InBox(m, b, n)' <=> InBox(m, b, n) /\ m \notin T
  <2>1. CASE b = via[i] /\ n = name[i]
    <3>1. ~InBox(m, b, n)'
      BY <1>7, <2>1 DEF InBox
    <3> QED BY <2>1, <3>1
  <2>2. CASE ~(b = via[i] /\ n = name[i])
    <3>1. InBox(m, b, n)' <=> InBox(m, b, n)
      BY <1>7, <2>2 DEF InBox
    <3>2. InBox(m, b, n) => m \notin T
      BY <1>2, <2>2 DEF MailInv, QueueInv
    <3> QED BY <3>1, <3>2
  <2> QED BY <2>1, <2>2
<1>9. ASSUME NEW b \in Brokers, NEW n \in Names, NEW m \in Calls
      PROVE  \A k, l \in 1 .. Len(boxes'[b][n]) : boxes'[b][n][k] = m /\ boxes'[b][n][l] = m => k = l
  BY <1>7 DEF MailInv, QueueInv
<1>10. Steady
  BY <1>2, <1>3 DEF Steady
<1>11. QueueInv' /\ HolderInv' /\ PlaceInv'
  <2>1. T \in SUBSET Calls /\ \A m \in T : InBox(m, via[i], name[i])
    OBVIOUS
  <2> HIDE DEF T
  <2> QED BY <1>2, <1>4, <1>6, <1>8, <1>9, <1>10, <2>1, TakenFromBox
<1>12. RequestInv'
  BY <1>2, <1>3, <1>4 DEF RequestInv
<1>13. CASE s = <<>>
  <2>1. boxes' = boxes
    BY <1>1, <1>2, <1>13 DEF TypeOK
  <2>2. \A m \in Calls : m \notin T
    BY <1>5, <1>13
  <2>3. Still
    BY <1>2, <1>4, <1>6, <2>1, <2>2 DEF Still
  <2> QED BY <1>11, <1>12, <2>3 DEF MailInv
<1>14. CASE s # <<>>
  <2>1. Len(s) \in Nat /\ Len(s) \in 1 .. Len(s) /\ SubSeq(s, Len(s) + 1, Len(s)) = <<>>
    BY <1>14
  <2>2. \A j, m \in Calls : Has(j, m)' <=> Has(j, m) \/ (j = i /\ \E l \in 1 .. Len(s) : s[l] = m)
    BY <1>5, <1>6
  <2>3. Takes(i, Len(s))
    BY <1>1, <1>2, <1>4, <2>1, <2>2 DEF Takes
  <2> QED BY <1>11, <1>12, <2>1, <2>3 DEF MailInv
<1> QED BY <1>13, <1>14

\* doWait takes the oldest message of its mailbox.
LEMMA TakeMail == ASSUME BrokerInv, MailInv, NEW i \in Calls, WaitTake(i) PROVE MailInv' /\ (\E k \in Nat : Takes(i, k))
<1>1. PICK s \in Seq(Calls) : s = boxes[via[i]][name[i]] /\ s # <<>>
  BY DEF WaitTake, Running, Queue, BrokerInv, Route, TypeOK
<1>2. PICK x \in Calls : x = Head(s) /\ x = s[1]
  BY <1>1
<1>3. /\ h[i] = "run" /\ op[i] = "wait" /\ TypeOK /\ RequestInv /\ via[i] \in Brokers /\ name[i] \in Names
      /\ h' = [h EXCEPT ![i] = "reply"] /\ rok' = [rok EXCEPT ![i] = TRUE] /\ rmsgs' = [rmsgs EXCEPT ![i] = <<x>>]
      /\ boxes' = [boxes EXCEPT ![via[i]][name[i]] = Tail(s)] /\ UNCHANGED <<chan, op, via, name, target>>
  BY <1>1, <1>2 DEF WaitTake, Running, Answer, Queue, BrokerInv, MailInv, Route, chanVars, reqVars
<1>4. /\ h'[i] = "reply" /\ rmsgs'[i] = <<x>> /\ rmsgs[i] = <<>> /\ target[i] = NoCall
      /\ \A j \in Calls \ {i} : h'[j] = h[j] /\ rok'[j] = rok[j] /\ rmsgs'[j] = rmsgs[j]
  BY <1>3 DEF TypeOK, RequestInv, Answered
<1>5. \A m \in Calls : Answered(m)' <=> Answered(m)
  BY <1>3, <1>4 DEF Answered
<1>6. ASSUME NEW j \in Calls, NEW m \in Calls PROVE Has(j, m)' <=> Has(j, m) \/ (j = i /\ m \in {x})
  <2>1. CASE j # i
    BY <1>3, <1>4, <2>1 DEF Has, InReply
  <2>2. CASE j = i
    <3>1. ~InReply(m, i)
      BY <1>4 DEF InReply
    <3>2. InReply(m, i)' <=> m = x
      BY <1>4 DEF InReply
    <3> QED BY <1>3, <2>2, <3>1, <3>2 DEF Has
  <2> QED BY <2>1, <2>2
<1>7. ASSUME NEW b \in Brokers, NEW n \in Names
      PROVE  boxes'[b][n] = IF b = via[i] /\ n = name[i] THEN Tail(s) ELSE boxes[b][n]
  BY <1>3 DEF TypeOK
<1>8. /\ Len(s) \in Nat \ {0} /\ Len(Tail(s)) = Len(s) - 1
      /\ \A k \in 1 .. Len(s) - 1 : Tail(s)[k] = s[k + 1]
  BY <1>1
<1>9. \A m \in Calls : \A k, l \in 1 .. Len(s) : s[k] = m /\ s[l] = m => k = l
  BY <1>1, <1>3 DEF MailInv, QueueInv
<1>10. InBox(x, via[i], name[i])
  BY <1>1, <1>2, <1>8 DEF InBox
<1>11. ASSUME NEW m \in Calls, NEW b \in Brokers, NEW n \in Names
       PROVE  InBox(m, b, n)' <=> InBox(m, b, n) /\ m \notin {x}
  <2>1. CASE b = via[i] /\ n = name[i]
    <3>1. InBox(m, b, n)' <=> \E k \in 1 .. Len(s) - 1 : s[k + 1] = m
      <4>1. InBox(m, b, n)' <=> \E k \in 1 .. Len(Tail(s)) : Tail(s)[k] = m
        BY <1>7, <2>1 DEF InBox
      <4> QED BY <1>8, <4>1
    <3>2. InBox(m, b, n) <=> \E k \in 1 .. Len(s) : s[k] = m
      BY <1>1, <2>1 DEF InBox
    <3>3. ASSUME NEW k \in 1 .. Len(s) - 1, s[k + 1] = m PROVE k + 1 \in 1 .. Len(s) /\ m # x
      BY <1>2, <1>8, <1>9, <3>3
    <3>4. ASSUME NEW k \in 1 .. Len(s), s[k] = m, m # x PROVE \E l \in 1 .. Len(s) - 1 : s[l + 1] = m
      <4>1. k - 1 \in 1 .. Len(s) - 1 /\ s[(k - 1) + 1] = m
        BY <1>2, <1>8, <3>4
      <4> QED BY <4>1
    <3> QED BY <3>1, <3>2, <3>3, <3>4
  <2>2. CASE ~(b = via[i] /\ n = name[i])
    <3>1. InBox(m, b, n)' <=> InBox(m, b, n)
      BY <1>7, <2>2 DEF InBox
    <3>2. InBox(m, b, n) => m # x
      BY <1>3, <1>10, <2>2 DEF MailInv, QueueInv
    <3> QED BY <3>1, <3>2
  <2> QED BY <2>1, <2>2
<1>12. ASSUME NEW b \in Brokers, NEW n \in Names, NEW m \in Calls,
              NEW k \in 1 .. Len(boxes'[b][n]), NEW l \in 1 .. Len(boxes'[b][n]),
              boxes'[b][n][k] = m, boxes'[b][n][l] = m
       PROVE  k = l
  <2>1. CASE b = via[i] /\ n = name[i]
    <3>1. k \in 1 .. Len(s) - 1 /\ l \in 1 .. Len(s) - 1 /\ s[k + 1] = m /\ s[l + 1] = m
      BY <1>7, <1>8, <1>12, <2>1
    <3>2. k + 1 \in 1 .. Len(s) /\ l + 1 \in 1 .. Len(s)
      BY <1>8, <3>1
    <3>3. k + 1 = l + 1
      BY <1>9, <3>1, <3>2
    <3> QED BY <3>1, <3>3
  <2>2. CASE ~(b = via[i] /\ n = name[i])
    BY <1>7, <1>12, <2>2 DEF MailInv, QueueInv
  <2> QED BY <2>1, <2>2
<1>13. Steady
  BY <1>3, <1>4 DEF Steady
<1>14. QueueInv' /\ HolderInv' /\ PlaceInv'
  <2>1. \A b \in Brokers, n \in Names, m \in Calls :
           \A k, l \in 1 .. Len(boxes'[b][n]) : boxes'[b][n][k] = m /\ boxes'[b][n][l] = m => k = l
    BY <1>12
  <2>2. {x} \in SUBSET Calls /\ \A m \in {x} : InBox(m, via[i], name[i])
    BY <1>10
  <2> QED BY <1>3, <1>5, <1>6, <1>11, <1>13, <2>1, <2>2, TakenFromBox
<1>15. RequestInv'
  BY <1>3, <1>4, <1>5 DEF RequestInv
<1>16. Takes(i, 1)
  <2>1. 1 \in 1 .. Len(s) /\ SubSeq(s, 1 + 1, Len(s)) = Tail(s)
    BY <1>1, <1>8
  <2>2. \A m \in Calls : m \in {x} <=> \E l \in 1 .. 1 : s[l] = m
    BY <1>2
  <2>3. \A j, m \in Calls : Has(j, m)' <=> Has(j, m) \/ (j = i /\ \E l \in 1 .. 1 : s[l] = m)
    BY <1>6, <2>2
  <2> QED BY <1>1, <1>3, <1>5, <2>1, <2>3 DEF Takes
<1> QED BY <1>14, <1>15, <1>16 DEF MailInv

\* A channel gives the waiter its message, or tells it that there is none.
LEMMA ReceiveMail ==
    ASSUME BrokerInv, MailInv, NEW i \in Calls, WaitReceive(i) \/ WaitDrain(i) PROVE MailInv' /\ Still
<1>1. /\ h[i] \in {"waiting", "drain"} /\ op[i] = "wait" /\ UNCHANGED <<boxes, op, via, name, target>> /\ TypeOK
  BY DEF WaitReceive, WaitDrain, BrokerInv, MailInv, RequestInv, brokerVars, reqVars
<1>2. CASE chan[i] # NoCall /\ chan' = [chan EXCEPT ![i] = NoCall] /\ Answer(i, TRUE, <<chan[i]>>)
  <2>1. PICK x \in Calls : chan[i] = x
    BY <1>1, <1>2 DEF TypeOK
  <2>2. \A j \in Calls \ {i} : chan'[j] = chan[j]
    BY <1>1, <1>2 DEF TypeOK
  <2> DEFINE msgs == <<x>>
  <2>3. \A m \in Calls : chan[i] = m <=> chan'[i] = m \/ \E k \in 1 .. Len(msgs) : msgs[k] = m
    BY <1>1, <1>2, <2>1, NullAssumption DEF TypeOK
  <2>4. msgs \in Seq(Calls)
    OBVIOUS
  <2>5. Answer(i, TRUE, msgs)
    BY <1>2, <2>1, Zenon
  <2> HIDE DEF msgs
  <2>6. PICK ok \in BOOLEAN : Answer(i, ok, msgs) /\ h[i] \in {"run", "waiting", "drain"} /\ ~(ok /\ op[i] = "post")
    BY <1>1, <2>5
  <2>7. UNCHANGED <<boxes, op, via, name, target>>
    BY <1>1
  <2> QED BY <2>2, <2>3, <2>4, <2>6, <2>7, AnswerOnly
<1>3. CASE chan[i] = NoCall /\ Answer(i, FALSE, <<>>) /\ UNCHANGED chan
  <2>1. \A m \in Calls : chan[i] = m <=> chan'[i] = m \/ \E k \in 1 .. Len(<<>>) : <<>>[k] = m
    BY <1>3
  <2>2. <<>> \in Seq(Calls)
    OBVIOUS
  <2> QED BY <1>1, <1>3, <2>1, <2>2, AnswerOnly
<1> QED BY <1>2, <1>3 DEF WaitReceive, WaitDrain, ReceiveAnswer

LEMMA RefuseMail ==
    ASSUME BrokerInv, MailInv, NEW i \in Calls, PostRefused(i) \/ WaitRefused(i) \/ Status(i) PROVE MailInv' /\ Still
<1>1. PICK ok \in BOOLEAN : Answer(i, ok, <<>>) /\ ~(ok /\ op[i] = "post")
  BY DEF PostRefused, WaitRefused, Status, Running
<1>2. h[i] = "run" /\ UNCHANGED <<boxes, op, via, name, target, chan>>
  BY DEF PostRefused, WaitRefused, Status, Running, brokerVars, chanVars, reqVars
<1>3. <<>> \in Seq(Calls) /\ \A m \in Calls : chan[i] = m <=> chan'[i] = m \/ \E k \in 1 .. Len(<<>>) : <<>>[k] = m
  BY <1>2
<1> QED BY <1>1, <1>2, <1>3, AnswerOnly

\* Every step keeps what is known of messages.
LEMMA MailKept ==
    ASSUME BrokerInv, MailInv, [Next]_vars PROVE MailInv' /\ MailMoves
<1> USE DEF brokerVars, chanVars, reqVars, replyVars
<1> DEFINE Goal == MailInv' /\ MailMoves
           Same == UNCHANGED <<boxes, chan, rmsgs, rok, target>>
           Calm == \A j \in Calls : /\ h[j] \in {"reply", "done"} => h'[j] \in {"reply", "done"}
                                    /\ h'[j] = "sending" <=> h[j] = "sending"
                                    /\ h'[j] \in {"waiting", "expired", "drain"} =>
                                        h[j] \in {"waiting", "expired", "drain"} \/ (h[j] = "run" /\ op[j] = "wait")
<1>0. TypeOK /\ Route /\ (Same /\ Calm /\ Steady => Goal)
  BY HandlerOnly DEF BrokerInv, MailMoves
<1>1. ASSUME NEW b \in Brokers, BrokerStart(b) PROVE Goal
  <2>1. Same /\ Calm /\ Steady
    BY <1>0, <1>1 DEF TypeOK, BrokerStart, Steady
  <2> QED BY <1>0, <2>1
<1>2. ASSUME NEW b \in Brokers, StopListen(b) PROVE Goal
  <2>1. Same /\ Calm /\ Steady
    BY <1>0, <1>2 DEF TypeOK, StopListen, Steady
  <2> QED BY <1>0, <2>1
<1>3. ASSUME NEW b \in Brokers, StopWake(b) PROVE Goal
  <2>1. Same /\ Calm /\ Steady
    BY <1>0, <1>3 DEF TypeOK, StopWake, Steady
  <2> QED BY <1>0, <2>1
<1>4. ASSUME NEW i \in Calls, NEW o \in Ops, NEW n \in Names, Call(i, o, n) PROVE Goal
  <2>1. Same /\ Calm /\ Steady
    BY <1>0, <1>4 DEF TypeOK, Route, Call, Steady
  <2> QED BY <1>0, <2>1
<1>5. ASSUME NEW i \in Calls, Accept(i) PROVE Goal
  <2>1. Same /\ Calm /\ Steady
    BY <1>0, <1>5 DEF TypeOK, Accept, Steady
  <2> QED BY <1>0, <2>1
<1>6. ASSUME NEW i \in Calls, Reply(i) PROVE Goal
  <2>1. Same /\ Calm /\ Steady
    BY <1>0, <1>6 DEF TypeOK, Reply, Steady
  <2> QED BY <1>0, <2>1
<1>7. ASSUME NEW i \in Calls, WaitRegister(i) PROVE Goal
  <2>1. Same /\ Calm /\ Steady
    BY <1>0, <1>7 DEF TypeOK, WaitRegister, Running, Steady
  <2> QED BY <1>0, <2>1
<1>8. ASSUME NEW i \in Calls, WaitTimer(i) PROVE Goal
  <2>1. Same /\ Calm /\ Steady
    BY <1>0, <1>8 DEF TypeOK, WaitTimer, Steady
  <2> QED BY <1>0, <2>1
<1>9. ASSUME NEW i \in Calls, WaitCleanup(i) PROVE Goal
  <2>1. Same /\ Calm /\ Steady
    BY <1>0, <1>9 DEF TypeOK, WaitCleanup, Steady
  <2> QED BY <1>0, <2>1
<1>10. ASSUME UNCHANGED vars PROVE Goal
  <2>1. Same /\ Calm /\ Steady
    BY <1>10 DEF vars, Steady
  <2> QED BY <1>0, <2>1
<1>11. ASSUME NEW i \in Calls, Post(i) \/ Fetch(i) PROVE Goal
  BY <1>11, HandOffMail, SendMail, QueueMail, RefuseMail, FetchMail DEF Post, MailMoves
<1>12. ASSUME NEW i \in Calls,
              Status(i) \/ WaitTake(i) \/ WaitRefused(i) \/ WaitReceive(i) \/ WaitDrain(i)
       PROVE  Goal
  BY <1>12, TakeMail, ReceiveMail, RefuseMail DEF MailMoves
<1> HIDE DEF Goal
<1>13. Goal
  BY <1>1, <1>2, <1>3, <1>4, <1>5, <1>6, <1>7, <1>8, <1>9, <1>10, <1>11, <1>12
     DEF Next, Handler, Wait
<1> QED BY <1>13 DEF Goal

-----------------------------------------------------------------------------
(***************************************************************************)
(* Limits                                                                  *)
(***************************************************************************)
Served(b) == {i \in Calls : via[i] = b /\ h[i] \in Handling}
SlotInv  == \A b \in Brokers : IsFiniteSet(Served(b)) /\ Cardinality(Served(b)) <= MaxBrokerConns
QueueMax == \A b \in Brokers, n \in Names :
               Len(boxes[b][n]) <= MaxQueuePerBox /\ Len(waiters[b][n]) <= MaxWaitersPerBox

\* Only accept takes a slot, and only a free one.
LEMMA SlotStep == ASSUME TypeOK, Route, SlotInv, [Next]_vars PROVE SlotInv'
<1> USE DEF brokerVars, chanVars, reqVars, replyVars
<1> DEFINE Fewer == \A j \in Calls : h'[j] \in Handling => h[j] \in Handling /\ via'[j] = via[j]
<1>0. ASSUME Fewer PROVE SlotInv'
  <2>1. ASSUME NEW b \in Brokers PROVE IsFiniteSet(Served(b)') /\ Cardinality(Served(b)') <= MaxBrokerConns
    <3>1. Served(b)' \in SUBSET Served(b)
      BY <1>0 DEF Served
    <3>2. IsFiniteSet(Served(b)') /\ Cardinality(Served(b)') <= Cardinality(Served(b)) /\ IsFiniteSet(Served(b))
      BY <3>1, FS_Subset DEF SlotInv
    <3>3. Cardinality(Served(b)') \in Nat /\ Cardinality(Served(b)) \in Nat
      BY <3>2, FS_CardinalityType
    <3> QED BY <3>2, <3>3, LimitsAssumption DEF SlotInv
  <2> QED BY <2>1 DEF SlotInv
<1>1. ASSUME NEW b \in Brokers, BrokerStart(b) \/ StopListen(b) \/ StopWake(b) PROVE SlotInv'
  <2>1. Fewer
    BY <1>1 DEF BrokerStart, StopListen, StopWake, Handling, TypeOK
  <2> QED BY <1>0, <2>1
<1>2. ASSUME NEW i \in Calls, NEW o \in Ops, NEW n \in Names, Call(i, o, n) PROVE SlotInv'
  <2>1. Fewer
    BY <1>2 DEF Call, Handling, TypeOK
  <2> QED BY <1>0, <2>1
<1>3. ASSUME NEW i \in Calls, Accept(i) PROVE SlotInv'
  <2>1. CASE h' = [h EXCEPT ![i] = "done"]
    <3>1. Fewer
      BY <1>3, <2>1 DEF Accept, Handling, TypeOK
    <3> QED BY <1>0, <3>1
  <2>2. CASE Slots(via[i]) < MaxBrokerConns /\ h' = [h EXCEPT ![i] = "run"]
    <3>1. h[i] = "backlog" /\ via' = via /\ via[i] \in Brokers
      BY <1>3 DEF Accept, Route
    <3>2. ASSUME NEW b \in Brokers PROVE IsFiniteSet(Served(b)') /\ Cardinality(Served(b)') <= MaxBrokerConns
      <4>1. IsFiniteSet(Served(b)) /\ Cardinality(Served(b)) <= MaxBrokerConns
        BY DEF SlotInv
      <4>2. CASE b = via[i]
        <5>1. Served(b)' = Served(b) \cup {i} /\ i \notin Served(b)
          BY <2>2, <3>1, <4>2 DEF Served, Handling, Phases, TypeOK
        <5>2. IsFiniteSet(Served(b)') /\ Cardinality(Served(b)') = Cardinality(Served(b)) + 1
          BY <4>1, <5>1, FS_AddElement
        <5>3. Cardinality(Served(b)) \in Nat /\ Cardinality(Served(b)) < MaxBrokerConns
          BY <2>2, <4>1, <4>2, FS_CardinalityType DEF Slots, Served
        <5> QED BY <5>2, <5>3, LimitsAssumption
      <4>3. CASE b # via[i]
        <5>1. Served(b)' = Served(b)
          BY <2>2, <3>1, <4>3 DEF Served, TypeOK
        <5> QED BY <4>1, <5>1
      <4> QED BY <4>2, <4>3
    <3> QED BY <3>2 DEF SlotInv
  <2> QED BY <1>3, <2>1, <2>2 DEF Accept
<1>4. ASSUME NEW i \in Calls, Post(i) \/ Fetch(i) \/ Status(i) PROVE SlotInv'
  <2>1. Fewer
    BY <1>4 DEF Post, PostHandOff, PostSend, PostRefused, PostQueued, Fetch, Status, Running, Answer,
                Handling, Phases, TypeOK
  <2> QED BY <1>0, <2>1
<1>5. ASSUME NEW i \in Calls, Wait(i) \/ Reply(i) PROVE SlotInv'
  <2>1. Fewer
    BY <1>5 DEF Wait, WaitTake, WaitRefused, WaitRegister, WaitReceive, WaitTimer, WaitCleanup, WaitDrain,
                ReceiveAnswer, Reply, Running, Answer, Handling, Phases, TypeOK
  <2> QED BY <1>0, <2>1
<1>6. CASE UNCHANGED vars
  <2>1. Fewer
    BY <1>6 DEF vars
  <2> QED BY <1>0, <2>1
<1> QED BY <1>1, <1>2, <1>3, <1>4, <1>5, <1>6 DEF Next, Handler

\* Only doPost and doWait make a queue or a waiters list longer, after their checks.
LEMMA QueueMaxStep == ASSUME TypeOK, Route, QueueMax, [Next]_vars PROVE QueueMax'
<1> USE DEF brokerVars, chanVars, reqVars, replyVars
<1>0. ASSUME UNCHANGED <<boxes, waiters>> PROVE QueueMax'
  BY <1>0 DEF QueueMax
<1>1. ASSUME NEW i \in Calls, h[i] # "off", NEW s \in Seq(Calls), Len(s) <= MaxQueuePerBox,
             boxes' = [boxes EXCEPT ![via[i]][name[i]] = s], UNCHANGED waiters
      PROVE  QueueMax'
  <2>1. via[i] \in Brokers /\ name[i] \in Names
    BY <1>1 DEF Route
  <2>2. ASSUME NEW b \in Brokers, NEW n \in Names PROVE Len(boxes'[b][n]) <= MaxQueuePerBox
    <3>1. boxes'[b][n] = IF b = via[i] /\ n = name[i] THEN s ELSE boxes[b][n]
      BY <1>1, <2>1 DEF TypeOK
    <3> QED BY <1>1, <3>1 DEF QueueMax
  <2> QED BY <1>1, <2>2 DEF QueueMax
<1>2. ASSUME NEW i \in Calls, h[i] # "off", NEW s \in Seq(Calls), Len(s) <= MaxWaitersPerBox,
             waiters' = [waiters EXCEPT ![via[i]][name[i]] = s], UNCHANGED boxes
      PROVE  QueueMax'
  <2>1. via[i] \in Brokers /\ name[i] \in Names
    BY <1>2 DEF Route
  <2>2. ASSUME NEW b \in Brokers, NEW n \in Names PROVE Len(waiters'[b][n]) <= MaxWaitersPerBox
    <3>1. waiters'[b][n] = IF b = via[i] /\ n = name[i] THEN s ELSE waiters[b][n]
      BY <1>2, <2>1 DEF TypeOK
    <3> QED BY <1>2, <3>1 DEF QueueMax
  <2> QED BY <1>2, <2>2 DEF QueueMax
<1>3. ASSUME NEW i \in Calls, h[i] # "off"
      PROVE  /\ Queue(i) \in Seq(Calls) /\ Len(Queue(i)) <= MaxQueuePerBox /\ Queue(i) = boxes[via[i]][name[i]]
             /\ Waiting(i) \in Seq(Calls) /\ Len(Waiting(i)) <= MaxWaitersPerBox /\ Waiting(i) = waiters[via[i]][name[i]]
  BY <1>3 DEF Route, TypeOK, QueueMax, Queue, Waiting
<1>4. ASSUME NEW i \in Calls, PostHandOff(i) PROVE QueueMax'
  <2>1. h[i] # "off" /\ Waiting(i) # <<>> /\ UNCHANGED boxes
    BY <1>4 DEF PostHandOff, Running
  <2>2. waiters' = [waiters EXCEPT ![via[i]][name[i]] = Tail(Waiting(i))]
    BY <1>3, <1>4, <2>1 DEF PostHandOff, Waiting
  <2>3. Tail(Waiting(i)) \in Seq(Calls) /\ Len(Tail(Waiting(i))) <= MaxWaitersPerBox
    BY <1>3, <2>1, LimitsAssumption
  <2> QED BY <1>2, <2>1, <2>2, <2>3
<1>5. ASSUME NEW i \in Calls, PostQueued(i) PROVE QueueMax'
  <2>1. h[i] # "off" /\ Len(Queue(i)) < MaxQueuePerBox /\ UNCHANGED waiters
    <3>1. h[i] = "run" /\ ~(Len(Queue(i)) >= MaxQueuePerBox) /\ UNCHANGED waiters
      BY <1>5 DEF PostQueued, Running, BoxFull
    <3> QED BY <1>3, <3>1, LimitsAssumption
  <2>2. boxes' = [boxes EXCEPT ![via[i]][name[i]] = Append(Queue(i), i)]
    BY <1>3, <1>5, <2>1 DEF PostQueued, Queue
  <2>3. Append(Queue(i), i) \in Seq(Calls) /\ Len(Append(Queue(i), i)) <= MaxQueuePerBox
    BY <1>3, <2>1, LimitsAssumption
  <2> QED BY <1>1, <2>1, <2>2, <2>3
<1>6. ASSUME NEW i \in Calls, Fetch(i) PROVE QueueMax'
  <2>1. h[i] # "off" /\ boxes' = [boxes EXCEPT ![via[i]][name[i]] = <<>>] /\ UNCHANGED waiters
    BY <1>6 DEF Fetch, Running
  <2>2. <<>> \in Seq(Calls) /\ Len(<<>>) <= MaxQueuePerBox
    BY LimitsAssumption
  <2> QED BY <1>1, <2>1, <2>2
<1>7. ASSUME NEW i \in Calls, WaitTake(i) PROVE QueueMax'
  <2>1. h[i] # "off" /\ Queue(i) # <<>> /\ UNCHANGED waiters
    BY <1>7 DEF WaitTake, Running
  <2>2. boxes' = [boxes EXCEPT ![via[i]][name[i]] = Tail(Queue(i))]
    BY <1>3, <1>7, <2>1 DEF WaitTake, Queue
  <2>3. Tail(Queue(i)) \in Seq(Calls) /\ Len(Tail(Queue(i))) <= MaxQueuePerBox
    BY <1>3, <2>1, LimitsAssumption
  <2> QED BY <1>1, <2>1, <2>2, <2>3
<1>8. ASSUME NEW i \in Calls, WaitRegister(i) PROVE QueueMax'
  <2>1. h[i] # "off" /\ Len(Waiting(i)) < MaxWaitersPerBox /\ UNCHANGED boxes
    BY <1>8 DEF WaitRegister, Running
  <2>2. waiters' = [waiters EXCEPT ![via[i]][name[i]] = Append(Waiting(i), i)]
    BY <1>3, <1>8, <2>1 DEF WaitRegister, Waiting
  <2>3. Append(Waiting(i), i) \in Seq(Calls) /\ Len(Append(Waiting(i), i)) <= MaxWaitersPerBox
    BY <1>3, <2>1, LimitsAssumption
  <2> QED BY <1>2, <2>1, <2>2, <2>3
<1>9. ASSUME NEW i \in Calls, WaitCleanup(i) PROVE QueueMax'
  <2>1. h[i] # "off" /\ UNCHANGED boxes
    BY <1>9 DEF WaitCleanup
  <2>2. ASSUME NEW k \in DOMAIN Waiting(i), waiters' = [waiters EXCEPT ![via[i]][name[i]] = RemoveAt(@, k)]
        PROVE  QueueMax'
    <3>1. waiters' = [waiters EXCEPT ![via[i]][name[i]] = RemoveAt(Waiting(i), k)]
      BY <2>1, <2>2 DEF Waiting
    <3>2. Waiting(i) \in Seq(Calls) /\ k \in 1 .. Len(Waiting(i)) /\ Len(Waiting(i)) \in Nat
      BY <1>3, <2>1
    <3>3. RemoveAt(Waiting(i), k) \in Seq(Calls) /\ Len(RemoveAt(Waiting(i), k)) = Len(Waiting(i)) - 1
      BY <3>2, RemoveAtFacts
    <3>4. Len(RemoveAt(Waiting(i), k)) <= MaxWaitersPerBox
      BY <1>3, <2>1, <3>2, <3>3, LimitsAssumption
    <3> QED BY <1>2, <2>1, <3>1, <3>3, <3>4
  <2> QED BY <1>0, <1>9, <2>1, <2>2 DEF WaitCleanup
<1>10. ASSUME NEW b \in Brokers, StopWake(b) PROVE QueueMax'
  <2>1. ASSUME NEW x \in Brokers, NEW n \in Names PROVE waiters'[x][n] = <<>> \/ waiters'[x][n] = waiters[x][n]
    BY <1>10 DEF StopWake, TypeOK
  <2>2. Len(<<>>) <= MaxWaitersPerBox /\ UNCHANGED boxes
    BY <1>10, LimitsAssumption DEF StopWake
  <2> QED BY <2>1, <2>2 DEF QueueMax
<1>11. ASSUME NEW b \in Brokers, BrokerStart(b) \/ StopListen(b) PROVE QueueMax'
  BY <1>0, <1>11 DEF BrokerStart, StopListen
<1>12. ASSUME NEW i \in Calls, NEW o \in Ops, NEW n \in Names, Call(i, o, n) PROVE QueueMax'
  BY <1>0, <1>12 DEF Call
<1>13. ASSUME NEW i \in Calls,
             \/ Accept(i) \/ Reply(i) \/ PostSend(i) \/ PostRefused(i) \/ Status(i)
             \/ WaitRefused(i) \/ WaitReceive(i) \/ WaitTimer(i) \/ WaitDrain(i)
      PROVE  QueueMax'
  BY <1>0, <1>13 DEF Accept, Reply, PostSend, PostRefused, Status, WaitRefused,
                     WaitReceive, WaitTimer, WaitDrain
<1>14. CASE UNCHANGED vars
  BY <1>0, <1>14 DEF vars
<1> QED
  BY <1>4, <1>5, <1>6, <1>7, <1>8, <1>9, <1>10, <1>11, <1>12, <1>13, <1>14 DEF Next, Handler, Post, Wait

-----------------------------------------------------------------------------
(***************************************************************************)
(* The inductive invariant of the broker.  TypeOK is inductive only with   *)
(* Route (a handler indexes the maps by its mailbox), SendIsSafe only with *)
(* what WaitInv and ChannelInv say of channels not yet taken.              *)
(***************************************************************************)
THEOREM BrokerInvariant == Spec => [](BrokerInv /\ NoSleepOnMail)
<1>1. Init => BrokerInv /\ NoSleepOnMail
  BY InitOK DEF Init, NoSleepOnMail
<1>2. BrokerInv /\ NoSleepOnMail /\ [Next]_vars => (BrokerInv /\ NoSleepOnMail)'
  BY TypeStep, ChannelStep, MailStep DEF BrokerInv
<1> QED BY <1>1, <1>2, PTL DEF Spec

(***************************************************************************)
(* All requests, queues, channels and replies keep their types, whatever   *)
(* the handlers of broker.go and broker_stop do to each other.             *)
(***************************************************************************)
THEOREM BrokerTyped == Spec => []TypeOK
<1>1. BrokerInv /\ NoSleepOnMail => TypeOK
  BY DEF BrokerInv
<1> QED BY <1>1, BrokerInvariant, PTL

(***************************************************************************)
(* "buffered channel (cap 1), never blocks" (doPost) is true, and the send *)
(* never panics: with any number of posts, waits, timeouts and a stop in   *)
(* flight, the channel doPost sends to is open, empty and its own.         *)
(***************************************************************************)
THEOREM SendNeverBlocksOrPanics == Spec => []SendIsSafe
<1>1. BrokerInv /\ NoSleepOnMail => SendIsSafe
  BY DEF BrokerInv, SendInv, SendIsSafe
<1> QED BY <1>1, BrokerInvariant, PTL

(***************************************************************************)
(* A wait never sleeps on a mailbox that holds a message: doPost and       *)
(* doWait decide under one lock whether a message meets a waiter.          *)
(***************************************************************************)
THEOREM NoLostWakeup == Spec => []NoSleepOnMail
<1>1. BrokerInv /\ NoSleepOnMail => NoSleepOnMail
  OBVIOUS
<1> QED BY <1>1, BrokerInvariant, PTL

(***************************************************************************)
(* Messages are where MailInv says they are.                               *)
(***************************************************************************)
THEOREM MailInvariant == Spec => []MailInv
<1>1. Init => MailInv
  <2> SUFFICES ASSUME Init PROVE MailInv
    OBVIOUS
  <2>1. \A m \in Calls : ~Answered(m)
    BY DEF Init, Answered
  <2>2. \A m \in Calls, b \in Brokers, n \in Names : ~InBox(m, b, n)
    BY DEF Init, InBox
  <2>3. \A i, m \in Calls : ~Has(i, m)
    BY NullAssumption DEF Init, Has, InReply
  <2>4. RequestInv
    BY DEF Init, RequestInv
  <2>5. QueueInv
    BY <2>2 DEF Init, QueueInv
  <2> QED BY <2>1, <2>3, <2>4, <2>5 DEF MailInv, HolderInv, PlaceInv
<1>2. BrokerInv /\ NoSleepOnMail /\ MailInv /\ [Next]_vars => MailInv'
  BY MailKept
<1> QED BY <1>1, <1>2, BrokerInvariant, PTL DEF Spec

\* Queued and Holders in terms of positions.
LEMMA PlacesOf ==
    ASSUME TypeOK, NEW m \in Calls
    PROVE  /\ Queued(m) <=> \E b \in Brokers, n \in Names : InBox(m, b, n)
           /\ \A i \in Calls : i \in Holders(m) <=> Has(i, m)
<1>1. ASSUME NEW b \in Brokers, NEW n \in Names PROVE m \in Range(boxes[b][n]) <=> InBox(m, b, n)
  <2>1. DOMAIN boxes[b][n] = 1 .. Len(boxes[b][n])
    BY DEF TypeOK
  <2> QED BY <2>1 DEF Range, InBox
<1>2. ASSUME NEW i \in Calls PROVE m \in Range(rmsgs[i]) <=> InReply(m, i)
  <2>1. DOMAIN rmsgs[i] = 1 .. Len(rmsgs[i])
    BY DEF TypeOK
  <2> QED BY <2>1 DEF Range, InReply
<1> QED BY <1>1, <1>2 DEF Queued, Holders, Has

(***************************************************************************)
(* No message is duplicated, delivered to a second receiver or to another  *)
(* mailbox, or dropped by the broker: through any interleaving of doPost,  *)
(* doFetch, doWait, its timer and broker_stop, an accepted message is in   *)
(* exactly one place and a refused one nowhere.                            *)
(***************************************************************************)
THEOREM MessagesConserved == Spec => []Conservation
<1>1. BrokerInv /\ NoSleepOnMail /\ MailInv => Conservation
  <2> SUFFICES ASSUME BrokerInv, MailInv, NEW m \in Calls
               PROVE  /\ Accepted(m) <=> (h[m] = "sending" \/ Queued(m) \/ Holders(m) # {})
                      /\ h[m] = "sending" => ~Queued(m)
                      /\ h[m] = "sending" \/ Queued(m) => Holders(m) = {}
                      /\ \A i, j \in Holders(m) : i = j
                      /\ \A i \in Holders(m) : via[i] = via[m] /\ name[i] = name[m]
    BY DEF Conservation
  <2>1. /\ Queued(m) <=> \E b \in Brokers, n \in Names : InBox(m, b, n)
        /\ \A i \in Calls : i \in Holders(m) <=> Has(i, m)
    BY PlacesOf DEF BrokerInv
  <2>2. Holders(m) \subseteq Calls
    BY DEF Holders
  <2>3. Accepted(m) <=> h[m] = "sending" \/ Answered(m)
    BY DEF Accepted, Answered, MailInv, RequestInv
  <2>4. h[m] = "sending" => ~Answered(m)
    BY DEF Answered
  <2>5. Queued(m) => Answered(m) /\ Holders(m) = {}
    BY <2>1, <2>2 DEF MailInv, QueueInv
  <2>6. \A i \in Holders(m) : /\ Answered(m) /\ via[i] = via[m] /\ name[i] = name[m]
                              /\ \A j \in Holders(m) : i = j
    BY <2>1, <2>2 DEF MailInv, HolderInv
  <2>7. Answered(m) => Queued(m) \/ Holders(m) # {}
    BY <2>1 DEF MailInv, PlaceInv
  <2> QED BY <2>3, <2>4, <2>5, <2>6, <2>7
<1> QED BY <1>1, BrokerInvariant, MailInvariant, PTL

\* The mailboxes of a broker are finitely many, and those that no fetch has
\* named are within the limit.
Unfetched(b) == keys[b] \ Fetched(b)
KeyMax == \A b \in Brokers : IsFiniteSet(keys[b]) /\ Cardinality(Unfetched(b)) <= MaxMailboxes

\* Fewer mailboxes count than before, and no more than one was added.
LEMMA FewerKeys ==
    ASSUME KeyMax, NEW b \in Brokers, NEW n, keys'[b] \in SUBSET (keys[b] \cup {n}),
           Unfetched(b)' \subseteq Unfetched(b)
    PROVE  IsFiniteSet(keys'[b]) /\ Cardinality(Unfetched(b)') <= MaxMailboxes
<1>1. IsFiniteSet(keys[b]) /\ Cardinality(Unfetched(b)) <= MaxMailboxes
  BY DEF KeyMax
<1>2. IsFiniteSet(keys'[b])
  <2>1. IsFiniteSet(keys[b] \cup {n})
    BY <1>1, FS_AddElement
  <2> QED BY <2>1, FS_Subset
<1>3. IsFiniteSet(Unfetched(b))
  <2>1. Unfetched(b) \in SUBSET keys[b]
    BY DEF Unfetched
  <2> QED BY <1>1, <2>1, FS_Subset
<1>4. Cardinality(Unfetched(b)') <= Cardinality(Unfetched(b)) /\ IsFiniteSet(Unfetched(b)')
  BY <1>3, FS_Subset
<1>5. Cardinality(Unfetched(b)') \in Nat /\ Cardinality(Unfetched(b)) \in Nat
  BY <1>3, <1>4, FS_CardinalityType
<1> QED BY <1>1, <1>2, <1>4, <1>5, LimitsAssumption

\* What a fetch has named stays so.
LEMMA FetchedStays ==
    ASSUME TypeOK, Route, [Next]_vars, NEW b
    PROVE  Fetched(b) \subseteq Fetched(b)'
<1> USE DEF TypeOK, brokerVars, chanVars, reqVars, replyVars
<1> DEFINE Kept == \A j \in Calls : h[j] \in {"reply", "done"} =>
                      /\ h'[j] \in {"reply", "done"} /\ op'[j] = op[j] /\ via'[j] = via[j]
                      /\ rok'[j] = rok[j] /\ name'[j] = name[j]
<1>0. ASSUME Kept PROVE Fetched(b) \subseteq Fetched(b)'
  <2>1. ASSUME NEW j \in Calls, op[j] = "fetch", via[j] = b, rok[j], h[j] \in {"reply", "done"}
        PROVE  name[j] \in Fetched(b)'
    <3>1. /\ h'[j] \in {"reply", "done"} /\ op'[j] = "fetch" /\ via'[j] = b
          /\ rok'[j] /\ name'[j] = name[j]
      BY <1>0, <2>1
    <3> QED BY <3>1 DEF Fetched
  <2>2. ASSUME NEW n \in Fetched(b) PROVE n \in Fetched(b)'
    <3>1. PICK j \in {k \in Calls : op[k] = "fetch" /\ via[k] = b /\ rok[k]
                                     /\ h[k] \in {"reply", "done"}} : n = name[j]
      BY <2>2 DEF Fetched
    <3>2. name[j] \in Fetched(b)'
      BY <2>1, <3>1
    <3> QED BY <3>1, <3>2
  <2> QED BY <2>2
<1>1. ASSUME NEW x \in Brokers, BrokerStart(x) \/ StopListen(x) \/ StopWake(x) PROVE Kept
  BY <1>1 DEF BrokerStart, StopListen, StopWake
<1>2. ASSUME NEW i \in Calls, NEW o \in Ops, NEW n \in Names, Call(i, o, n) PROVE Kept
  BY <1>2 DEF Call, Route
<1>3. ASSUME NEW i \in Calls, Accept(i) \/ Reply(i) PROVE Kept
  BY <1>3 DEF Accept, Reply
<1>4. ASSUME NEW i \in Calls, Post(i) \/ Fetch(i) \/ Status(i) PROVE Kept
  BY <1>4 DEF Post, PostHandOff, PostSend, PostRefused, PostQueued, Fetch, Status, Running, Answer
<1>5. ASSUME NEW i \in Calls, Wait(i) PROVE Kept
  BY <1>5 DEF Wait, WaitTake, WaitRefused, WaitRegister, WaitReceive, WaitTimer, WaitCleanup, WaitDrain,
              ReceiveAnswer, Running, Answer
<1>6. ASSUME UNCHANGED vars PROVE Kept
  BY <1>6 DEF vars
<1>7. Kept
  <2> HIDE DEF Kept
  <2> QED BY <1>1, <1>2, <1>3, <1>4, <1>5, <1>6 DEF Next, Handler
<1> HIDE DEF Kept
<1> QED BY <1>0, <1>7

\* Only doPost and doFetch add mailboxes: one below the limit, and one that has
\* then been fetched.
LEMMA KeyStep == ASSUME TypeOK, Route, KeyMax, [Next]_vars PROVE KeyMax'
<1> USE DEF brokerVars, chanVars, reqVars, replyVars
<1>0. \A b : Fetched(b) \subseteq Fetched(b)'
  BY FetchedStays
<1>1. ASSUME UNCHANGED keys PROVE KeyMax'
  <2>1. ASSUME NEW b \in Brokers PROVE IsFiniteSet(keys'[b]) /\ Cardinality(Unfetched(b)') <= MaxMailboxes
    <3>1. keys'[b] \in SUBSET (keys[b] \cup {NoName}) /\ Unfetched(b)' \subseteq Unfetched(b)
      BY <1>0, <1>1 DEF Unfetched
    <3> QED BY <3>1, FewerKeys
  <2> QED BY <2>1 DEF KeyMax
<1>2. ASSUME NEW i \in Calls, PostQueued(i) PROVE KeyMax'
  <2>1. /\ via[i] \in Brokers /\ ~BoxFull(i)
        /\ keys' = [keys EXCEPT ![via[i]] = keys[via[i]] \cup {name[i]}]
    BY <1>2 DEF PostQueued, Running, Route
  <2>2. \A b \in Brokers : keys'[b] = IF b = via[i] THEN keys[b] \cup {name[i]} ELSE keys[b]
    BY <2>1 DEF TypeOK
  <2>3. ASSUME NEW b \in Brokers PROVE IsFiniteSet(keys'[b]) /\ Cardinality(Unfetched(b)') <= MaxMailboxes
    <3>1. CASE b # via[i] \/ name[i] \in keys[b]
      <4>1. keys'[b] = keys[b]
        BY <2>2, <3>1
      <4>2. keys'[b] \in SUBSET (keys[b] \cup {name[i]}) /\ Unfetched(b)' \subseteq Unfetched(b)
        BY <1>0, <4>1 DEF Unfetched
      <4> QED BY <4>2, FewerKeys
    <3>2. CASE b = via[i] /\ name[i] \notin keys[b]
      <4>1. IsFiniteSet(keys[b]) /\ keys'[b] = keys[b] \cup {name[i]}
        BY <2>2, <3>2 DEF KeyMax
      <4>2. IsFiniteSet(keys'[b]) /\ Cardinality(keys'[b]) = Cardinality(keys[b]) + 1
        <5>1. IsFiniteSet(keys[b] \cup {name[i]})
          BY <4>1, FS_AddElement
        <5>2. Cardinality(keys[b] \cup {name[i]}) = IF name[i] \in keys[b] THEN Cardinality(keys[b])
                                                    ELSE Cardinality(keys[b]) + 1
          BY <4>1, FS_AddElement, Zenon
        <5> QED BY <3>2, <4>1, <5>1, <5>2
      <4>3. Cardinality(keys[b]) \in Nat /\ ~(Cardinality(keys[b]) >= MaxMailboxes)
        BY <2>1, <3>2, <4>1, FS_CardinalityType DEF BoxFull
      <4>4. Unfetched(b)' \in SUBSET keys'[b]
        BY DEF Unfetched
      <4>5. Cardinality(Unfetched(b)') <= Cardinality(keys'[b]) /\ Cardinality(Unfetched(b)') \in Nat
        <5>1. IsFiniteSet(Unfetched(b)') /\ Cardinality(Unfetched(b)') <= Cardinality(keys'[b])
          BY <4>2, <4>4, FS_Subset
        <5> QED BY <5>1, FS_CardinalityType
      <4> QED BY <4>2, <4>3, <4>5, LimitsAssumption
    <3> QED BY <3>1, <3>2
  <2> QED BY <2>3 DEF KeyMax
<1>3. ASSUME NEW i \in Calls, Fetch(i) PROVE KeyMax'
  <2>1. /\ via[i] \in Brokers /\ op[i] = "fetch"
        /\ keys' = [keys EXCEPT ![via[i]] = keys[via[i]] \cup {name[i]}]
        /\ UNCHANGED reqVars
    BY <1>3 DEF Fetch, Running, Route
  <2>2. \A b \in Brokers : keys'[b] = IF b = via[i] THEN keys[b] \cup {name[i]} ELSE keys[b]
    BY <2>1 DEF TypeOK
  <2>3. ASSUME NEW b \in Brokers, b = via[i] PROVE name[i] \in Fetched(b)'
    <3>1. h'[i] = "reply" /\ rok'[i] = TRUE
      BY <1>3 DEF Fetch, Answer, TypeOK
    <3> QED BY <2>1, <2>3, <3>1 DEF Fetched
  <2>4. ASSUME NEW b \in Brokers PROVE IsFiniteSet(keys'[b]) /\ Cardinality(Unfetched(b)') <= MaxMailboxes
    <3>1. keys'[b] \in SUBSET (keys[b] \cup {name[i]})
      BY <2>2
    <3>2. \A n \in keys'[b] : n \in keys[b] \/ n \in Fetched(b)'
      <4>1. CASE b = via[i]
        BY <2>2, <2>3, <4>1
      <4>2. CASE b # via[i]
        BY <2>2, <4>2
      <4> QED BY <4>1, <4>2
    <3>3. Unfetched(b)' = keys'[b] \ Fetched(b)' /\ Unfetched(b) = keys[b] \ Fetched(b)
      BY DEF Unfetched
    <3>4. Unfetched(b)' \subseteq Unfetched(b)
      BY <1>0, <3>2, <3>3
    <3> QED BY <3>1, <3>4, FewerKeys
  <2> QED BY <2>4 DEF KeyMax
<1>4. \/ UNCHANGED keys
      \/ \E i \in Calls : PostQueued(i) \/ Fetch(i)
  BY DEF Next, Handler, BrokerStart, StopListen, StopWake, Call, Accept, Reply, Post, PostHandOff, PostSend,
         PostRefused, Status, Wait, WaitTake, WaitRefused, WaitRegister, WaitReceive, WaitTimer,
         WaitCleanup, WaitDrain, vars
<1> QED BY <1>1, <1>2, <1>3, <1>4

(***************************************************************************)
(* The limits of broker.go hold for any values of them: handler            *)
(* goroutines, queued messages, waiters per mailbox, and mailboxes that no *)
(* fetch has named (a fetch creates its mailbox without counting).         *)
(***************************************************************************)
THEOREM LimitsHold == Spec => []WithinLimits
<1>0. Init => KeyMax
  <2> SUFFICES ASSUME Init, NEW b \in Brokers
               PROVE  IsFiniteSet(keys[b]) /\ Cardinality(Unfetched(b)) <= MaxMailboxes
    BY DEF KeyMax
  <2>1. keys[b] = {} /\ Unfetched(b) = {}
    BY DEF Init, Unfetched
  <2>2. IsFiniteSet({}) /\ Cardinality({}) = 0
    BY FS_EmptySet
  <2>3. IsFiniteSet(keys[b]) /\ Cardinality(Unfetched(b)) = 0
    BY <2>1, <2>2, Zenon
  <2> QED BY <2>3, LimitsAssumption
<1>1. Init => SlotInv /\ QueueMax
  <2> SUFFICES ASSUME Init PROVE SlotInv /\ QueueMax
    OBVIOUS
  <2>1. \A b \in Brokers : Served(b) = {}
    BY DEF Init, Served, Handling
  <2>2. IsFiniteSet({}) /\ Cardinality({}) = 0
    BY FS_EmptySet
  <2>3. \A b \in Brokers : IsFiniteSet(Served(b)) /\ Cardinality(Served(b)) = 0
    BY <2>1, <2>2, Zenon
  <2>4. SlotInv
    BY <2>3, LimitsAssumption DEF SlotInv
  <2>5. QueueMax
    BY LimitsAssumption DEF Init, QueueMax
  <2> QED BY <2>4, <2>5
<1>2. BrokerInv /\ NoSleepOnMail /\ (SlotInv /\ QueueMax) /\ [Next]_vars => (SlotInv /\ QueueMax)'
  BY SlotStep, QueueMaxStep DEF BrokerInv
<1>3. SlotInv /\ QueueMax /\ KeyMax => WithinLimits
  <2> SUFFICES ASSUME SlotInv, QueueMax, KeyMax PROVE WithinLimits
    OBVIOUS
  <2>1. \A b \in Brokers : Slots(b) <= MaxBrokerConns
    BY DEF SlotInv, Slots, Served
  <2>2. \A b \in Brokers : Cardinality(keys[b] \ Fetched(b)) <= MaxMailboxes
    BY DEF KeyMax, Unfetched
  <2> QED BY <2>1, <2>2 DEF QueueMax, WithinLimits
<1>4. BrokerInv /\ KeyMax /\ [Next]_vars => KeyMax'
  BY KeyStep DEF BrokerInv
<1> QED BY <1>0, <1>1, <1>2, <1>3, <1>4, BrokerInvariant, PTL DEF Spec

-----------------------------------------------------------------------------
(***************************************************************************)
(* Refinement: the broker implements the mailboxes of IpcMailbox.          *)
(***************************************************************************)
\* The receiver the refinement mapping gives a message.
Assigned == \A m \in Calls :
    /\ target[m] # NoCall => AssignedTo(m) = target[m]
    /\ target[m] = NoCall /\ ~Answered(m) => AssignedTo(m) = NoCall
    /\ \A b \in Brokers, n \in Names : InBox(m, b, n) => AssignedTo(m) = NoCall
    /\ \A i \in Calls : target[m] = NoCall /\ Has(i, m) => AssignedTo(m) = i
LEMMA Assignment == BrokerInv /\ MailInv => Assigned
<1> SUFFICES ASSUME BrokerInv, MailInv, NEW m \in Calls
             PROVE  /\ target[m] # NoCall => AssignedTo(m) = target[m]
                    /\ target[m] = NoCall /\ ~Answered(m) => AssignedTo(m) = NoCall
                    /\ \A b \in Brokers, n \in Names : InBox(m, b, n) => AssignedTo(m) = NoCall
                    /\ \A i \in Calls : target[m] = NoCall /\ Has(i, m) => AssignedTo(m) = i
  BY DEF Assigned
<1>1. /\ Queued(m) <=> \E b \in Brokers, n \in Names : InBox(m, b, n)
      /\ \A i \in Calls : i \in Holders(m) <=> Has(i, m)
  BY PlacesOf DEF BrokerInv
<1>2. Accepted(m) <=> h[m] = "sending" \/ Answered(m)
  BY DEF Accepted, Answered, MailInv, RequestInv
<1>3. h[m] = "sending" => target[m] # NoCall
  BY NullAssumption DEF BrokerInv, SendInv
<1>4. ASSUME NEW b \in Brokers, NEW n \in Names, InBox(m, b, n) PROVE AssignedTo(m) = NoCall
  BY <1>1, <1>4 DEF AssignedTo, MailInv, QueueInv
<1>5. ASSUME NEW i \in Calls, target[m] = NoCall, Has(i, m) PROVE AssignedTo(m) = i
  <2>1. Answered(m) /\ \A j \in Calls : Has(j, m) => j = i
    BY <1>5 DEF MailInv, HolderInv
  <2>2. ~Queued(m)
    BY <1>1, <1>5 DEF MailInv, QueueInv
  <2>3. (CHOOSE j \in Calls : j \in Holders(m)) = i
    BY <1>1, <1>5, <2>1
  <2> QED BY <1>2, <1>5, <2>1, <2>2, <2>3 DEF AssignedTo
<1> QED BY <1>2, <1>3, <1>4, <1>5 DEF AssignedTo
LEMMA AssignmentNext == (BrokerInv /\ MailInv => Assigned)'
  BY Assignment, PTL

\* A message that moves nowhere keeps its receiver.
LEMMA ReceiverKept ==
    ASSUME BrokerInv, MailInv, Assigned, Assigned', NEW m \in Calls, target'[m] = target[m],
           target[m] # NoCall \/
              /\ Answered(m)' <=> Answered(m)
              /\ \A i \in Calls : Has(i, m)' <=> Has(i, m)
              /\ \A b \in Brokers, n \in Names : InBox(m, b, n)' <=> InBox(m, b, n)
    PROVE  AssignedTo(m)' = AssignedTo(m)
<1>1. CASE target[m] # NoCall
  BY <1>1 DEF Assigned
<1>2. CASE target[m] = NoCall /\ ~Answered(m)
  BY <1>2 DEF Assigned
<1>3. CASE target[m] = NoCall /\ Answered(m)
  <2>1. CASE \E b \in Brokers, n \in Names : InBox(m, b, n)
    BY <1>3, <2>1 DEF Assigned
  <2>2. CASE \E i \in Calls : Has(i, m)
    BY <1>3, <2>2 DEF Assigned
  <2> QED BY <1>3, <2>1, <2>2 DEF MailInv, PlaceInv
<1> QED BY <1>1, <1>2, <1>3

\* The state of IpcMailbox, by the refinement mapping.
MQueue    == [x \in Brokers \X Names |-> boxes[x[1]][x[2]]]
MReceiver == [m \in Calls |-> AssignedTo(m)]

\* Every step of the broker is a step of the mailboxes, or leaves them alone.
LEMMA RefineStep ==
    ASSUME BrokerInv, NoSleepOnMail, MailInv, MailMoves, BrokerInv', MailInv'
    PROVE  [Mailboxes!MNext]_(Mailboxes!mvars)
<1>1. Assigned /\ Assigned' /\ TypeOK
  BY Assignment, AssignmentNext DEF BrokerInv
<1>2. ASSUME MQueue' = MQueue, MReceiver' = MReceiver PROVE UNCHANGED Mailboxes!mvars
  BY <1>2 DEF Mailboxes!mvars, MQueue, MReceiver
<1>3. ASSUME NEW i \in Calls, ~Answered(i), target[i] = NoCall
      PROVE  AssignedTo(i) = NoCall /\ Mailboxes!Unknown(i)
  <2>1. AssignedTo(i) = NoCall
    BY <1>1, <1>3 DEF Assigned
  <2>2. ASSUME NEW x \in Brokers \X Names PROVE i \notin Mailboxes!Range(MQueue[x])
    <3>1. x[1] \in Brokers /\ x[2] \in Names /\ MQueue[x] = boxes[x[1]][x[2]]
      BY DEF MQueue
    <3>2. DOMAIN boxes[x[1]][x[2]] = 1 .. Len(boxes[x[1]][x[2]])
      BY <1>1, <3>1 DEF TypeOK
    <3>3. ~InBox(i, x[1], x[2])
      BY <1>3, <3>1 DEF MailInv, QueueInv
    <3> QED BY <3>1, <3>2, <3>3 DEF Mailboxes!Range, InBox
  <2> QED BY <2>1, <2>2 DEF Mailboxes!Unknown, MQueue
<1>4. CASE Still
  <2>1. MQueue' = MQueue
    BY <1>4 DEF Still, MQueue
  <2>2. ASSUME NEW m \in Calls PROVE AssignedTo(m)' = AssignedTo(m)
    BY <1>1, <1>4, ReceiverKept DEF Still, InBox
  <2>3. MReceiver' = MReceiver
    BY <2>2 DEF MReceiver
  <2> QED BY <1>2, <2>1, <2>3
<1>5. ASSUME NEW i \in Calls, Sends(i) PROVE UNCHANGED Mailboxes!mvars
  <2>1. MQueue' = MQueue
    BY <1>5 DEF Sends, MQueue
  <2>2. ASSUME NEW m \in Calls PROVE AssignedTo(m)' = AssignedTo(m)
    <3>1. CASE m = i
      BY <1>1, <1>5, <3>1, ReceiverKept DEF Sends
    <3>2. CASE m # i
      BY <1>1, <1>5, <3>2, ReceiverKept DEF Sends, InBox
    <3> QED BY <3>1, <3>2
  <2>3. MReceiver' = MReceiver
    BY <2>2 DEF MReceiver
  <2> QED BY <1>2, <2>1, <2>3
<1>6. ASSUME NEW i \in Calls, HandsOff(i) PROVE Mailboxes!MNext
  <2>1. PICK t \in Calls : target' = [target EXCEPT ![i] = t]
    BY <1>6 DEF HandsOff
  <2> DEFINE x == <<via[i], name[i]>>
  <2>2. x \in Brokers \X Names /\ MQueue[x] = boxes[via[i]][name[i]]
    BY <1>6 DEF HandsOff, MQueue
  <2>3. MQueue[x] = <<>> /\ MQueue' = MQueue
    BY <1>6, <2>2 DEF HandsOff, NoSleepOnMail, MQueue
  <2>4. ASSUME NEW m \in Calls PROVE AssignedTo(m)' = IF m = i THEN t ELSE AssignedTo(m)
    <3>1. CASE m = i
      <4>1. target'[i] = t /\ t # NoCall
        BY <1>1, <2>1, NullAssumption DEF TypeOK
      <4> QED BY <1>1, <3>1, <4>1 DEF Assigned
    <3>2. CASE m # i
      <4>1. target'[m] = target[m]
        BY <1>1, <2>1, <3>2 DEF TypeOK
      <4> QED BY <1>1, <1>6, <3>2, <4>1, ReceiverKept DEF HandsOff, InBox
    <3> QED BY <3>1, <3>2
  <2>5. MReceiver' = [MReceiver EXCEPT ![i] = t]
    BY <2>4 DEF MReceiver
  <2>6. Mailboxes!HandOver(x, i, t)
    BY <2>3, <2>5 DEF Mailboxes!HandOver, MQueue, MReceiver
  <2>7. Mailboxes!Unknown(i)
    BY <1>3, <1>6 DEF HandsOff
  <2> HIDE DEF x
  <2> QED BY <2>2, <2>6, <2>7 DEF Mailboxes!MNext
<1>7. ASSUME NEW i \in Calls, Puts(i) PROVE Mailboxes!MNext
  <2> DEFINE x == <<via[i], name[i]>>
  <2>1. x \in Brokers \X Names /\ via[i] \in Brokers /\ name[i] \in Names
    BY <1>7 DEF Puts
  <2>2. MQueue' = [MQueue EXCEPT ![x] = Append(@, i)]
    <3>1. ASSUME NEW y \in Brokers \X Names
          PROVE  boxes'[y[1]][y[2]] = IF y = x THEN Append(boxes[y[1]][y[2]], i) ELSE boxes[y[1]][y[2]]
      BY <1>1, <1>7, <2>1 DEF Puts, TypeOK
    <3> HIDE DEF x
    <3> QED BY <2>1, <3>1 DEF MQueue
  <2>3. AssignedTo(i)' = AssignedTo(i)
    <3>1. PICK s \in Seq(Calls) : s = boxes[via[i]][name[i]]
      BY <1>1, <2>1 DEF TypeOK
    <3>2. boxes'[via[i]][name[i]] = Append(s, i)
      BY <1>1, <1>7, <2>1, <3>1 DEF Puts, TypeOK
    <3>3. \E k \in 1 .. Len(boxes'[via[i]][name[i]]) : boxes'[via[i]][name[i]][k] = i
      <4>1. Len(Append(s, i)) \in 1 .. Len(Append(s, i)) /\ Append(s, i)[Len(Append(s, i))] = i
        BY AppendFacts
      <4> QED BY <3>2, <4>1
    <3>4. \E b \in Brokers, n \in Names : \E k \in 1 .. Len(boxes'[b][n]) : boxes'[b][n][k] = i
      BY <2>1, <3>3
    <3>5. PICK b \in Brokers, n \in Names : \E k \in 1 .. Len(boxes'[b][n]) : boxes'[b][n][k] = i
      BY <3>4
    <3>6. InBox(i, b, n)'
      BY <3>5 DEF InBox
    <3>7. AssignedTo(i)' = NoCall
      BY <1>1, <3>6 DEF Assigned
    <3> QED BY <1>3, <1>7, <3>7 DEF Puts
  <2>4. ASSUME NEW m \in Calls PROVE AssignedTo(m)' = AssignedTo(m)
    <3>1. CASE m = i
      BY <2>3, <3>1
    <3>2. CASE m # i
      <4>1. ASSUME NEW b \in Brokers, NEW n \in Names PROVE InBox(m, b, n)' <=> InBox(m, b, n)
        <5>1. boxes[b][n] \in Seq(Calls)
          BY <1>1 DEF TypeOK
        <5>2. boxes'[b][n] = boxes[b][n] \/ boxes'[b][n] = Append(boxes[b][n], i)
          BY <1>1, <1>7, <2>1 DEF Puts, TypeOK
        <5>3. CASE boxes'[b][n] = boxes[b][n]
          BY <5>3 DEF InBox
        <5>4. CASE boxes'[b][n] = Append(boxes[b][n], i)
          <6> DEFINE s == boxes[b][n]
          <6>1. /\ Len(boxes'[b][n]) = Len(s) + 1 /\ Len(s) \in Nat
                /\ \A l \in 1 .. Len(s) + 1 : boxes'[b][n][l] = IF l = Len(s) + 1 THEN i ELSE s[l]
            BY <5>1, <5>4
          <6>2. (\E l \in 1 .. Len(s) + 1 : boxes'[b][n][l] = m) <=> (\E l \in 1 .. Len(s) : s[l] = m)
            <7> HIDE DEF s
            <7> QED BY <3>2, <6>1
          <6> QED BY <6>1, <6>2 DEF InBox
        <5> QED BY <5>2, <5>3, <5>4
      <4> QED BY <1>1, <1>7, <3>2, <4>1, ReceiverKept DEF Puts
    <3> QED BY <3>1, <3>2
  <2>5. MReceiver' = MReceiver
    BY <2>4 DEF MReceiver
  <2>6. Mailboxes!Put(x, i)
    BY <2>2, <2>5 DEF Mailboxes!Put, MQueue, MReceiver
  <2>7. Mailboxes!Unknown(i)
    BY <1>3, <1>7 DEF Puts
  <2> HIDE DEF x
  <2> QED BY <2>1, <2>6, <2>7 DEF Mailboxes!MNext
<1>8. ASSUME NEW i \in Calls, NEW k \in Nat, Takes(i, k) PROVE Mailboxes!MNext
  <2> DEFINE x == <<via[i], name[i]>>
             s == boxes[via[i]][name[i]]
  <2>1. x \in Brokers \X Names /\ via[i] \in Brokers /\ name[i] \in Names
    BY <1>8 DEF Takes
  <2>2. s \in Seq(Calls) /\ k \in 1 .. Len(s) /\ MQueue[x] = s /\ Len(s) \in Nat
    BY <1>1, <1>8, <2>1 DEF Takes, TypeOK, MQueue
  <2>3. MQueue' = [MQueue EXCEPT ![x] = SubSeq(@, k + 1, Len(@))]
    <3>1. ASSUME NEW y \in Brokers \X Names
          PROVE  boxes'[y[1]][y[2]] = IF y = x THEN SubSeq(s, k + 1, Len(s)) ELSE boxes[y[1]][y[2]]
      BY <1>1, <1>8, <2>1 DEF Takes, TypeOK
    <3> HIDE DEF x, s
    <3> QED BY <2>1, <2>2, <3>1 DEF MQueue
  <2>4. ASSUME NEW m \in Calls
        PROVE  m \in Mailboxes!Range(SubSeq(s, 1, k)) <=> \E l \in 1 .. k : s[l] = m
    <3> HIDE DEF s
    <3>1. SubSeq(s, 1, k) = [l \in 1 .. k |-> s[l]]
      BY <2>2
    <3> QED BY <3>1 DEF Mailboxes!Range
  <2>5. ASSUME NEW m \in Calls
        PROVE  AssignedTo(m)' = IF \E l \in 1 .. k : s[l] = m THEN i ELSE AssignedTo(m)
    <3>1. CASE \E l \in 1 .. k : s[l] = m
      <4>1. \A b \in Brokers, n \in Names : b = via[i] /\ n = name[i] => InBox(m, b, n)
        BY <2>2, <3>1 DEF InBox
      <4>2. target[m] = NoCall
        BY <2>1, <4>1 DEF MailInv, QueueInv
      <4>3. target'[m] = NoCall /\ Has(i, m)'
        BY <1>8, <3>1, <4>2 DEF Takes
      <4> QED BY <1>1, <3>1, <4>3 DEF Assigned
    <3>2. CASE ~ \E l \in 1 .. k : s[l] = m
      <4>1. ASSUME NEW b \in Brokers, NEW n \in Names PROVE InBox(m, b, n)' <=> InBox(m, b, n)
        <5>1. CASE ~(b = via[i] /\ n = name[i])
          <6>1. boxes'[b][n] = boxes[b][n]
            BY <1>1, <1>8, <2>1, <5>1 DEF Takes, TypeOK
          <6> QED BY <6>1 DEF InBox
        <5>2. CASE b = via[i] /\ n = name[i]
          <6>1. boxes'[b][n] = SubSeq(s, k + 1, Len(s)) /\ boxes[b][n] = s
            BY <1>1, <1>8, <2>1, <5>2 DEF Takes, TypeOK
          <6> HIDE DEF s
          <6>2. /\ Len(SubSeq(s, k + 1, Len(s))) = Len(s) - k
                /\ \A l \in 1 .. Len(s) - k : SubSeq(s, k + 1, Len(s))[l] = s[k + l]
            BY <2>2
          <6>3. ASSUME InBox(m, b, n) PROVE InBox(m, b, n)'
            <7>1. PICK l \in 1 .. Len(s) : s[l] = m
              BY <6>1, <6>3 DEF InBox
            <7>2. l > k /\ l - k \in 1 .. Len(s) - k /\ k + (l - k) = l
              BY <2>2, <3>2, <7>1
            <7>3. SubSeq(s, k + 1, Len(s))[l - k] = m
              BY <6>2, <7>1, <7>2
            <7> QED BY <6>1, <6>2, <7>2, <7>3 DEF InBox
          <6>4. ASSUME InBox(m, b, n)' PROVE InBox(m, b, n)
            <7>1. PICK l \in 1 .. Len(s) - k : SubSeq(s, k + 1, Len(s))[l] = m
              BY <6>1, <6>2, <6>4 DEF InBox
            <7>2. k + l \in 1 .. Len(s) /\ s[k + l] = m
              BY <2>2, <6>2, <7>1
            <7> QED BY <6>1, <7>2 DEF InBox
          <6> QED BY <6>3, <6>4
        <5> QED BY <5>1, <5>2
      <4>2. /\ \A j \in Calls : Has(j, m)' <=> Has(j, m)
            /\ Answered(m)' <=> Answered(m)
            /\ target'[m] = target[m]
        BY <1>8, <3>2 DEF Takes
      <4>3. AssignedTo(m)' = AssignedTo(m)
        BY <1>1, <4>1, <4>2, ReceiverKept
      <4> QED BY <3>2, <4>3
    <3> QED BY <3>1, <3>2
  <2>6. MReceiver' = [m \in Calls |-> IF m \in Mailboxes!Range(SubSeq(s, 1, k)) THEN i ELSE MReceiver[m]]
    <3> HIDE DEF s
    <3> QED BY <2>4, <2>5 DEF MReceiver
  <2>7. Mailboxes!Take(x, k, i)
    <3>1. MReceiver' = [m \in Calls |-> IF m \in Mailboxes!Range(SubSeq(MQueue[x], 1, k)) THEN i ELSE MReceiver[m]]
      BY <2>2, <2>6
    <3>2. k \in 1 .. Len(MQueue[x])
      BY <2>2
    <3> HIDE DEF x
    <3> QED BY <2>3, <3>1, <3>2, Zenon DEF Mailboxes!Take, MQueue, MReceiver
  <2> HIDE DEF x
  <2> QED BY <2>1, <2>2, <2>7 DEF Mailboxes!MNext, MQueue
<1> QED BY <1>4, <1>5, <1>6, <1>7, <1>8 DEF MailMoves

(***************************************************************************)
(* The broker implements FIFO mailboxes whose messages go to at most one   *)
(* receiver, in the order they were accepted (IpcMailbox): of broker.go's  *)
(* handlers, channels and timers nothing more can be seen from outside.    *)
(***************************************************************************)
THEOREM BrokerImplementsMailboxes == Spec => ImplementsMailboxes
<1>1. Init => Mailboxes!MInit
  <2> SUFFICES ASSUME Init PROVE Mailboxes!MInit
    OBVIOUS
  <2>1. \A x \in Brokers \X Names : boxes[x[1]][x[2]] = <<>>
    BY DEF Init
  <2>2. \A m \in Calls : AssignedTo(m) = NoCall
    BY DEF Init, AssignedTo, Accepted
  <2> QED BY <2>1, <2>2 DEF Mailboxes!MInit
<1>2. BrokerInv /\ NoSleepOnMail /\ MailInv /\ (BrokerInv /\ NoSleepOnMail)' /\ [Next]_vars
      => [Mailboxes!MNext]_(Mailboxes!mvars)
  BY MailKept, RefineStep
<1> QED
  BY <1>1, <1>2, BrokerInvariant, MailInvariant, PTL DEF Spec, ImplementsMailboxes, Mailboxes!MSpec
=============================================================================
