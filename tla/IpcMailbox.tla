----------------------------- MODULE IpcMailbox -----------------------------
(***************************************************************************)
(* What the broker of the ipc tool promises to its users, with no          *)
(* connection, lock, channel or timer in sight: a mailbox is a FIFO queue  *)
(* of messages, and every message accepted into a mailbox is assigned to   *)
(* at most one receiving call, in the order of acceptance.  "Assigned" is  *)
(* not "received": the promise is at-most-once.                            *)
(***************************************************************************)
EXTENDS Sequences, SequencesExt, Naturals

CONSTANTS Boxes,     \* mailboxes
          Calls,     \* calls of the tool; a posting call is also the name of its message
          NoCall     \* no receiver

VARIABLES queue,     \* queue[x]: messages accepted into x and not yet assigned
          receiver   \* receiver[m]: the call message m has been assigned to

mvars == <<queue, receiver>>

MInit == /\ queue = [x \in Boxes |-> <<>>]
         /\ receiver = [m \in Calls |-> NoCall]

\* A message that is neither queued nor assigned.
Unknown(m) == /\ receiver[m] = NoCall
              /\ \A x \in Boxes : m \notin Range(queue[x])

Put(x, m) == /\ queue' = [queue EXCEPT ![x] = Append(@, m)]
             /\ UNCHANGED receiver

\* A message may skip the queue only when nothing is queued before it.
HandOver(x, m, r) == /\ queue[x] = <<>>
                     /\ receiver' = [receiver EXCEPT ![m] = r]
                     /\ UNCHANGED queue

\* The k oldest messages are assigned to one call.
Take(x, k, r) == /\ k \in 1 .. Len(queue[x])
                 /\ receiver' = [m \in Calls |->
                        IF m \in Range(SubSeq(queue[x], 1, k)) THEN r ELSE receiver[m]]
                 /\ queue' = [queue EXCEPT ![x] = SubSeq(@, k + 1, Len(@))]

\* Only a message nobody has seen yet can be accepted.
MNext == \/ \E m \in Calls : /\ Unknown(m)
                            /\ \E x \in Boxes : \/ Put(x, m)
                                              \/ \E r \in Calls : HandOver(x, m, r)
         \/ \E x \in Boxes, r \in Calls :
               \E k \in 1 .. Len(queue[x]) : Take(x, k, r)

MSpec == MInit /\ [][MNext]_mvars
=============================================================================
