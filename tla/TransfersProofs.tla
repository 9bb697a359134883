-------------------------- MODULE TransfersProofs --------------------------
(***************************************************************************)
(* Proofs about Transfers for any number of calls, names and blocks and    *)
(* for any limit.                                                          *)
(***************************************************************************)
EXTENDS Transfers, FiniteSetTheorems, TLAPS

Ops     == {"none", "upload", "download", "rm", "rename"}
Places  == {"idle", "connect", "check", "create", "copy", "finish", "remove", "rename", "over"}
Results == {"none", "running", "completed", "failed", "cancelled"}
CallRec == [op: Ops, async: BOOLEAN, path: Paths \cup {None}, to: Paths \cup {None},
            rest: SUBSET Paths, sent: SUBSET Paths, node: Nodes \cup {None}, overwrite: SUBSET Paths,
            pc: Places, pos: 0 .. Blocks, err: BOOLEAN, cancelled: BOOLEAN,
            link: {"none", "up", "lost"}, status: Results]
Typed == /\ call \in [Calls -> CallRec] /\ listed \subseteq Calls
         /\ dir \in [Paths -> Nodes \cup {None}]
         /\ data \in [Nodes -> [1 .. Blocks -> Calls \cup {None, Old}]]

\* A call and its request.
CallOf(c) == LET k == call[c] IN
    /\ k.pc = "idle" => k = Unused /\ c \notin listed
    /\ k.pc # "idle" => k.path \in Paths /\ k.op # "none"
    /\ k.op = "upload" => k.path \in RemotePaths /\ k.rest \subseteq RemotePaths
    /\ k.op = "download" => k.path \in LocalPaths /\ k.rest = {} /\ k.sent \subseteq {k.path}
    /\ k.op \in {"upload", "download"} => k.to = None
    /\ k.op = "rename" => k.to \in Paths
    /\ k.pc \in {"create", "copy", "finish"} => k.op \in {"upload", "download"}
    /\ k.pc = "check" => k.op \in {"upload", "download", "rename"}
    /\ k.pc = "rename" => k.op = "rename"
    /\ k.pc = "remove" => k.op = "rm"
    /\ k.path \notin k.rest /\ k.rest \cap k.sent = {} /\ (k.pc # "over" => k.path \notin k.sent)
    /\ k.pc \in {"check", "create", "copy", "finish"} => k.link # "none"
    /\ k.pc = "copy" => ~k.err /\ k.node \in Nodes
    /\ k.pc \in {"connect", "check", "create"} => ~k.err
    /\ k.pc = "finish" /\ ~k.err => k.pos = Blocks
    /\ k.pc # "over" => k.status \notin {"failed", "cancelled"}

\* No call deals with name p; no rename does; node n was made under the name p.
Free(p)    == \A d \in Calls : p \notin Claims(d)
Unmoved(p) == \A d \in Calls : p \in Claims(d) => call[d].op # "rename"
Of(n, p)   == (p \in OldPaths /\ n = p) \/ \E d \in Calls : n = <<d, p>>

\* A name that no rename deals with leads to a node made under it, and such a
\* node can be reached, or written, under this name only.
DirInv    == \A p \in Paths : Unmoved(p) =>
                /\ dir[p] # None => Of(dir[p], p)
                /\ \A q \in Paths : dir[q] # None /\ Of(dir[q], p) => q = p
NodeOf(c) == call[c].pc = "copy" =>
                \A p \in Paths : Unmoved(p) /\ Of(call[c].node, p) => call[c].path = p

\* What was there before any call.
Fresh(p) == dir[p] = None \/ Whole(dir[p], Old)
FreeInv  == \A p \in Paths : Free(p) => Fresh(p)

\* The names a transfer has not come to; the one it writes; those it has
\* written; those it has given up.
CleanOf(c) == Sends(c) => \A p \in Claims(c) \ call[c].sent :
    Alone(c, p) /\ (p # call[c].path \/ call[c].pc \in {"connect", "check", "create"}) => Fresh(p)
WriteOf(c) == call[c].pc \in {"copy", "finish"} /\ ~call[c].err /\ Alone(c, call[c].path) =>
    /\ call[c].node \in Nodes /\ dir[call[c].path] = call[c].node
    /\ \A b \in 1 .. call[c].pos : data[call[c].node][b] = c
SentOf(c)  == Sends(c) => \A p \in call[c].sent : Alone(c, p) => dir[p] # None /\ Whole(dir[p], c)
FailOf(c)  == Sends(c) /\ call[c].status \in {"failed", "cancelled"} =>
    \A p \in Claims(c) \ call[c].sent : Alone(c, p) =>
       Fresh(p) \/ c \in refused \/ (call[c].link = "lost" /\ Remote(p))

\* A file that was there is not written without overwrite.
Spared(p) == \A c \in Calls : p \in Claims(c) => p \notin call[c].overwrite
OldInv    == \A p \in OldPaths : Unmoved(p) /\ Spared(p) => Whole(p, Old)
OldOf(c)  == \A p \in OldPaths : Unmoved(p) /\ p \notin call[c].overwrite =>
    /\ call[c].pc = "create" /\ call[c].path = p /\ call[c].link = "up" => dir[p] # p
    /\ call[c].pc = "copy" => call[c].node # p

Parts(c) == CallOf(c) /\ NodeOf(c) /\ CleanOf(c) /\ WriteOf(c) /\ SentOf(c) /\ FailOf(c) /\ OldOf(c)
TransfersInv == Typed /\ DirInv /\ FreeInv /\ OldInv /\ \A c \in Calls : Parts(c)

\* The limit on background transfers.
Bounded == IsFiniteSet(Running) /\ Cardinality(Running) <= MaxRunning

(***************************************************************************)
(* What a step of one call does to the others                              *)
(***************************************************************************)
\* The other calls stay as they are, and c keeps what it deals with.
Base(c) ==
    /\ \A d \in Calls \ {c} : call'[d] = call[d]
    /\ listed' \subseteq listed \cup {c} /\ Claims(c) \subseteq Claims(c)'
    /\ Claims(c) # {} => call'[c].op = call[c].op /\ call'[c].overwrite = call[c].overwrite

\* Only what c deals with changes.
Local(c) ==
    /\ Base(c)
    /\ \A p \in Paths : dir'[p] # dir[p] => p \in Claims(c)'
    /\ \A n \in Nodes : data'[n] # data[n] =>
         \A p \in Paths : Unmoved(p) /\ Of(n, p) => p \in Claims(c)'
    /\ \A p \in OldPaths : Unmoved(p)' =>
         /\ dir'[p] = p => dir[p] = p
         /\ Spared(p)' => data'[p] = data[p]

LEMMA Grow ==
    ASSUME NEW c \in Calls, Base(c), NEW p
    PROVE  /\ Unmoved(p)' => Unmoved(p)
           /\ Free(p)' => Free(p) /\ p \notin Claims(c)'
           /\ Spared(p)' => Spared(p)
           /\ \A d \in Calls : Alone(d, p)' => Alone(d, p)
           /\ \A d \in Calls \ {c} : Alone(d, p)' => p \notin Claims(c)'
<1>1. \A d \in Calls \ {c} : Claims(d)' = Claims(d) /\ call'[d].op = call[d].op
                              /\ call'[d].overwrite = call[d].overwrite
  BY DEF Base, Claims
<1>2. \A d \in Calls : p \in Claims(d) => p \in Claims(d)' /\ call'[d].op = call[d].op
                              /\ call'[d].overwrite = call[d].overwrite
  BY <1>1 DEF Base
<1>3. Unmoved(p)' => Unmoved(p)
  BY <1>2 DEF Unmoved
<1>4. Free(p)' => Free(p) /\ p \notin Claims(c)'
  BY <1>2 DEF Free
<1>5. Spared(p)' => Spared(p)
  BY <1>2 DEF Spared
<1>6. \A d \in Calls : Alone(d, p)' => Alone(d, p)
  BY <1>2 DEF Alone
<1>7. \A d \in Calls \ {c} : Alone(d, p)' => p \notin Claims(c)'
  BY DEF Alone
<1> QED
  BY <1>3, <1>4, <1>5, <1>6, <1>7

\* What is kept of a name and of its file.
LEMMA Untouched ==
    ASSUME TransfersInv, NEW c \in Calls, Local(c), NEW p \in Paths, Unmoved(p), p \notin Claims(c)'
    PROVE  /\ dir'[p] = dir[p]
           /\ dir[p] # None => dir[p] \in Nodes /\ Of(dir[p], p) /\ data'[dir[p]] = data[dir[p]]
           /\ Fresh(p) => Fresh(p)'
           /\ \A w : dir[p] # None /\ Whole(dir[p], w) => Whole(dir[p], w)'
<1>1. dir'[p] = dir[p]
  BY DEF Local
<1>2. dir[p] # None => dir[p] \in Nodes /\ Of(dir[p], p)
  BY DEF TransfersInv, Typed, DirInv
<1>3. dir[p] # None => data'[dir[p]] = data[dir[p]]
  BY <1>2 DEF Local
<1>4. Fresh(p) => Fresh(p)'
  BY <1>1, <1>3 DEF Fresh, Whole
<1>5. \A w : dir[p] # None /\ Whole(dir[p], w) => Whole(dir[p], w)'
  BY <1>1, <1>3 DEF Whole
<1> QED
  BY <1>1, <1>2, <1>3, <1>4, <1>5

LEMMA AloneUnmoved ==
    ASSUME NEW c \in Calls, call[c].op # "rename", NEW p, Alone(c, p)
    PROVE  Unmoved(p)
BY DEF Alone, Unmoved

LEMMA Others ==
    ASSUME TransfersInv, refused \subseteq refused', NEW c \in Calls, Local(c)
    PROVE  FreeInv' /\ OldInv' /\ \A d \in Calls \ {c} : Parts(d)'
<1> USE Grow
<1>b. Base(c)
  BY DEF Local
<1>1. FreeInv'
  <2>1. SUFFICES ASSUME NEW p \in Paths, Free(p)' PROVE Fresh(p)'
    BY DEF FreeInv
  <2>2. Free(p) /\ p \notin Claims(c)' /\ Unmoved(p)
    BY <1>b, <2>1 DEF Free, Unmoved
  <2>3. Fresh(p)
    BY <2>2 DEF TransfersInv, FreeInv
  <2> QED
    BY <2>2, <2>3, Untouched
<1>2. OldInv'
  <2>1. SUFFICES ASSUME NEW p \in OldPaths, Unmoved(p)', Spared(p)' PROVE Whole(p, Old)'
    BY DEF OldInv
  <2>2. Whole(p, Old) /\ data'[p] = data[p]
    BY <1>b, <2>1 DEF TransfersInv, OldInv, Local
  <2> QED
    BY <2>2 DEF Whole
<1>3. ASSUME NEW d \in Calls \ {c} PROVE Parts(d)'
  <2>k. call'[d] = call[d] /\ Claims(d)' = Claims(d) /\ (Sends(d)' <=> Sends(d)) /\ Parts(d)
    BY <1>b, <1>3 DEF Base, Claims, Sends, TransfersInv
  <2>a. ASSUME NEW p \in Paths, Alone(d, p)', Sends(d)
        PROVE  Alone(d, p) /\ p \notin Claims(c)' /\ Unmoved(p)
    <3>1. Alone(d, p) /\ p \notin Claims(c)' /\ call[d].op # "rename"
      BY <1>b, <2>a DEF Sends
    <3> QED
      BY <3>1, AloneUnmoved
  <2>c. Claims(d) \subseteq Paths /\ call[d].sent \subseteq Claims(d)
    BY NodesAssumption DEF TransfersInv, Typed, CallRec, Claims
  <2>1. CallOf(d)'
    BY <1>b, <1>3, <2>k DEF Parts, CallOf, Base
  <2>2. NodeOf(d)'
    BY <1>b, <2>k DEF Parts, NodeOf, Of
  <2>3. CleanOf(d)'
    <3>1. SUFFICES ASSUME Sends(d), NEW p \in Claims(d) \ call[d].sent, Alone(d, p)',
                          p # call[d].path \/ call[d].pc \in {"connect", "check", "create"}
                   PROVE  Fresh(p)'
      BY <2>k DEF CleanOf
    <3>2. p \in Paths /\ Alone(d, p) /\ p \notin Claims(c)' /\ Unmoved(p)
      BY <2>a, <2>c, <3>1
    <3>3. Fresh(p)
      BY <2>k, <3>1, <3>2 DEF Parts, CleanOf
    <3> QED
      BY <3>2, <3>3, Untouched
  <2>4. WriteOf(d)'
    <3>1. SUFFICES ASSUME call[d].pc \in {"copy", "finish"}, ~call[d].err, Alone(d, call[d].path)'
                   PROVE  /\ call[d].node \in Nodes /\ dir'[call[d].path] = call[d].node
                          /\ \A b \in 1 .. call[d].pos : data'[call[d].node][b] = d
      BY <2>k DEF WriteOf
    <3>2. PICK p \in Paths : p = call[d].path /\ Sends(d)
      BY <2>k, <3>1 DEF Parts, CallOf, Sends
    <3>3. Alone(d, p)'
      BY <2>k, <3>1, <3>2 DEF Alone
    <3>4. Alone(d, p) /\ p \notin Claims(c)' /\ Unmoved(p)
      BY <2>a, <3>2, <3>3
    <3>5. call[d].node \in Nodes /\ dir[p] = call[d].node /\ \A b \in 1 .. call[d].pos : data[call[d].node][b] = d
      BY <2>k, <3>1, <3>2, <3>4 DEF Parts, WriteOf
    <3>6. dir'[p] = dir[p] /\ data'[dir[p]] = data[dir[p]]
      BY <3>4, <3>5, Untouched, NodesAssumption
    <3> QED
      BY <3>2, <3>5, <3>6
  <2>5. SentOf(d)'
    <3>1. SUFFICES ASSUME Sends(d), NEW p \in call[d].sent, Alone(d, p)'
                   PROVE  dir'[p] # None /\ Whole(dir[p], d)'
      BY <2>k DEF SentOf
    <3>2. p \in Paths /\ Alone(d, p) /\ p \notin Claims(c)' /\ Unmoved(p)
      BY <2>a, <2>c, <3>1
    <3>3. dir[p] # None /\ Whole(dir[p], d)
      BY <2>k, <3>1, <3>2 DEF Parts, SentOf
    <3> QED
      BY <3>2, <3>3, Untouched
  <2>6. FailOf(d)'
    <3>1. SUFFICES ASSUME Sends(d), call[d].status \in {"failed", "cancelled"},
                          NEW p \in Claims(d) \ call[d].sent, Alone(d, p)'
                   PROVE  Fresh(p)' \/ d \in refused' \/ (call[d].link = "lost" /\ Remote(p))
      BY <2>k DEF FailOf, Remote
    <3>2. p \in Paths /\ Alone(d, p) /\ p \notin Claims(c)' /\ Unmoved(p)
      BY <2>a, <2>c, <3>1
    <3>3. Fresh(p) \/ d \in refused \/ (call[d].link = "lost" /\ Remote(p))
      BY <2>k, <3>1, <3>2 DEF Parts, FailOf
    <3> QED
      BY <3>2, <3>3, Untouched
  <2>7. OldOf(d)'
    <3>1. SUFFICES ASSUME NEW p \in OldPaths, Unmoved(p)', p \notin call[d].overwrite
                   PROVE  /\ call[d].pc = "create" /\ call[d].path = p /\ call[d].link = "up" => dir'[p] # p
                          /\ call[d].pc = "copy" => call[d].node # p
      BY <2>k DEF OldOf
    <3>2. Unmoved(p) /\ (dir'[p] = p => dir[p] = p)
      BY <1>b, <3>1 DEF Local
    <3> QED
      BY <2>k, <3>1, <3>2 DEF Parts, OldOf
  <2> QED
    BY <2>1, <2>2, <2>3, <2>4, <2>5, <2>6, <2>7 DEF Parts
<1> QED
  BY <1>1, <1>2, <1>3

(***************************************************************************)
(* Steps that touch no file                                                *)
(***************************************************************************)
\* The request of c and the other calls stay as they are.
Keeps(c) ==
    /\ call' \in [Calls -> CallRec]
    /\ \A d \in Calls \ {c} : call'[d] = call[d]
    /\ call'[c].op = call[c].op /\ call'[c].path = call[c].path /\ call'[c].to = call[c].to
    /\ call'[c].rest = call[c].rest /\ call'[c].sent = call[c].sent
    /\ call'[c].overwrite = call[c].overwrite /\ call'[c].async = call[c].async

\* A call whose fields change to those of k.
LEMMA CallSet ==
    ASSUME Typed, NEW c \in Calls, NEW k \in CallRec, call' = [call EXCEPT ![c] = k],
           k.op = call[c].op, k.path = call[c].path, k.to = call[c].to, k.rest = call[c].rest,
           k.sent = call[c].sent, k.overwrite = call[c].overwrite, k.async = call[c].async
    PROVE  Keeps(c) /\ call'[c] = k
<1>1. call' \in [Calls -> CallRec] /\ call'[c] = k /\ \A d \in Calls \ {c} : call'[d] = call[d]
  BY DEF Typed
<1> QED
  BY <1>1 DEF Keeps

LEMMA ToFacts ==
    ASSUME Typed, NEW c \in Calls, NEW pc \in Places, To(c, pc)
    PROVE  /\ Keeps(c) /\ call'[c].pc = pc /\ call'[c].node = call[c].node /\ call'[c].pos = call[c].pos
           /\ call'[c].err = call[c].err /\ call'[c].link = call[c].link
           /\ call'[c].cancelled = call[c].cancelled /\ call'[c].status = call[c].status
<1> DEFINE k == [call[c] EXCEPT !.pc = pc]
<1>1. call[c] \in CallRec /\ call \in [Calls -> CallRec]
  BY DEF Typed
<1>2. k \in CallRec
  BY <1>1 DEF CallRec
<1>3. /\ k.pc = pc /\ k.status = call[c].status /\ k.node = call[c].node /\ k.pos = call[c].pos
      /\ k.err = call[c].err /\ k.link = call[c].link /\ k.cancelled = call[c].cancelled
      /\ k.op = call[c].op /\ k.path = call[c].path /\ k.to = call[c].to /\ k.rest = call[c].rest
      /\ k.sent = call[c].sent /\ k.overwrite = call[c].overwrite /\ k.async = call[c].async
  BY <1>1 DEF CallRec
<1>4. call' = [call EXCEPT ![c] = k]
  BY <1>1 DEF To
<1> HIDE DEF k
<1> QED
  BY <1>2, <1>3, <1>4, CallSet

LEMMA EndFacts ==
    ASSUME Typed, NEW c \in Calls, NEW s \in Results, End(c, s)
    PROVE  /\ Keeps(c) /\ call'[c].pc = "over" /\ call'[c].node = call[c].node /\ call'[c].pos = call[c].pos
           /\ call'[c].err = call[c].err /\ call'[c].link = call[c].link
           /\ call'[c].cancelled = call[c].cancelled /\ call'[c].status = s
<1> DEFINE k == [call[c] EXCEPT !.pc = "over", !.status = s]
<1>1. call[c] \in CallRec /\ call \in [Calls -> CallRec]
  BY DEF Typed
<1>2. k \in CallRec
  BY <1>1 DEF CallRec, Places
<1>3. /\ k.pc = "over" /\ k.status = s /\ k.node = call[c].node /\ k.pos = call[c].pos /\ k.err = call[c].err
      /\ k.link = call[c].link /\ k.cancelled = call[c].cancelled /\ k.op = call[c].op
      /\ k.path = call[c].path /\ k.to = call[c].to /\ k.rest = call[c].rest /\ k.sent = call[c].sent
      /\ k.overwrite = call[c].overwrite /\ k.async = call[c].async
  BY <1>1 DEF CallRec
<1>4. call' = [call EXCEPT ![c] = k]
  BY <1>1 DEF End
<1> HIDE DEF k
<1>5. call' \in [Calls -> CallRec] /\ call'[c] = k /\ \A d \in Calls \ {c} : call'[d] = call[d]
  BY <1>1, <1>2, <1>4
<1> QED
  BY <1>3, <1>5 DEF Keeps

LEMMA KeepsBase ==
    ASSUME NEW c \in Calls, Keeps(c), listed' \subseteq listed \cup {c}
    PROVE  Base(c) /\ Claims(c)' = Claims(c) /\ (Sends(c)' <=> Sends(c))
BY DEF Keeps, Base, Claims, Sends

LEMMA Quiet ==
    ASSUME TransfersInv, NEW c \in Calls, Base(c), UNCHANGED <<dir, data>>
    PROVE  Local(c) /\ DirInv' /\ (\A p \in Paths : Fresh(p)' <=> Fresh(p))
<1>1. Local(c)
  BY DEF Local
<1>2. DirInv'
  BY Grow DEF TransfersInv, DirInv, Of
<1>3. \A p \in Paths : Fresh(p)' <=> Fresh(p)
  BY DEF Fresh, Whole
<1> QED
  BY <1>1, <1>2, <1>3

\* What has been shown of a step of c.
Done(c) == Local(c) /\ Typed' /\ DirInv' /\ Parts(c)'

LEMMA QuietStep ==
    ASSUME TransfersInv, refused \subseteq refused', NEW c \in Calls, Keeps(c), listed' \subseteq listed \cup {c}, UNCHANGED <<dir, data>>,
           CallOf(c)',
           call'[c].pc \in {"connect", "check", "create"} => call[c].pc \in {"connect", "check", "create"},
           call'[c].pc = "copy" => call[c].pc = "copy" /\ call'[c].node = call[c].node,
           call'[c].pc \in {"copy", "finish"} /\ ~call'[c].err =>
              /\ call[c].pc \in {"copy", "finish"} /\ ~call[c].err
              /\ call'[c].node = call[c].node /\ call'[c].pos = call[c].pos,
           call'[c].pc = "create" /\ call'[c].link = "up" /\ call[c].path \notin call[c].overwrite =>
              \/ call[c].pc = "create" /\ call[c].link = "up"
              \/ dir[call[c].path] = None,
           call'[c].status \in {"failed", "cancelled"} =>
              \/ call[c].status \in {"failed", "cancelled"} /\ call'[c].link = call[c].link
              \/ ~Sends(c)
              \/ call[c].pc \in {"connect", "check", "create"}
    PROVE  Done(c)
<1>b. Base(c) /\ Claims(c)' = Claims(c) /\ (Sends(c)' <=> Sends(c))
  BY KeepsBase
<1>q. Local(c) /\ DirInv' /\ (\A p \in Paths : Fresh(p)' <=> Fresh(p))
  BY <1>b, Quiet
<1>k. Parts(c) /\ Claims(c) \subseteq Paths /\ call[c].sent \subseteq Paths
  BY NodesAssumption DEF TransfersInv, Typed, CallRec, Claims
<1>a. \A p : (Unmoved(p)' => Unmoved(p)) /\ (Alone(c, p)' => Alone(c, p))
  BY <1>b, Grow
<1>1. NodeOf(c)'
  BY <1>a, <1>k DEF Parts, NodeOf, Of, Keeps
<1>2. CleanOf(c)'
  BY <1>a, <1>b, <1>k, <1>q DEF Parts, CleanOf, Keeps
<1>3. WriteOf(c)'
  <2>1. SUFFICES ASSUME call'[c].pc \in {"copy", "finish"}, ~call'[c].err, Alone(c, call[c].path)'
                 PROVE  /\ call'[c].node \in Nodes /\ dir[call[c].path] = call'[c].node
                        /\ \A b \in 1 .. call'[c].pos : data[call'[c].node][b] = c
    BY DEF WriteOf, Keeps, Alone
  <2>2. Alone(c, call[c].path)
    BY <1>b, <2>1 DEF Alone, Base, Claims, Keeps
  <2> QED
    BY <1>k, <2>1, <2>2 DEF Parts, WriteOf
<1>4. SentOf(c)'
  BY <1>a, <1>b, <1>k DEF Parts, SentOf, Whole, Keeps
<1>5. FailOf(c)'
  <2>1. SUFFICES ASSUME Sends(c), call'[c].status \in {"failed", "cancelled"},
                        NEW p \in Claims(c) \ call[c].sent, Alone(c, p)
                 PROVE  Fresh(p) \/ c \in refused' \/ (call'[c].link = "lost" /\ Remote(p))
    BY <1>a, <1>b, <1>k, <1>q DEF FailOf, Keeps, Remote
  <2>2. CASE call[c].status \in {"failed", "cancelled"} /\ call'[c].link = call[c].link
    BY <1>k, <2>1, <2>2 DEF Parts, FailOf
  <2>3. CASE call[c].pc \in {"connect", "check", "create"}
    BY <1>k, <2>1, <2>3 DEF Parts, CleanOf
  <2> QED
    BY <2>1, <2>2, <2>3
<1>6. OldOf(c)'
  <2>1. SUFFICES ASSUME NEW p \in OldPaths, Unmoved(p), p \notin call[c].overwrite
                 PROVE  /\ call'[c].pc = "create" /\ call[c].path = p /\ call'[c].link = "up" => dir[p] # p
                        /\ call'[c].pc = "copy" => call'[c].node # p
    BY <1>a DEF OldOf, Keeps
  <2>2. p # None
    BY TransfersAssumption, NodesAssumption DEF Paths
  <2> QED
    BY <1>k, <2>1, <2>2 DEF Parts, OldOf
<1>7. Typed'
  BY DEF TransfersInv, Typed, Keeps
<1> QED
  BY <1>q, <1>1, <1>2, <1>3, <1>4, <1>5, <1>6, <1>7 DEF Done, Parts

LEMMA EndQuiet ==
    ASSUME TransfersInv, refused \subseteq refused', NEW c \in Calls, NEW s \in {"failed", "completed"}, End(c, s),
           UNCHANGED <<listed, dir, data>>, call[c].pc # "idle",
           s = "failed" => ~Sends(c) \/ call[c].pc \in {"connect", "check", "create"}
    PROVE  Done(c)
<1>1. Typed /\ Parts(c) /\ s \in Results
  BY DEF TransfersInv, Results
<1>2. /\ Keeps(c) /\ call'[c].pc = "over" /\ call'[c].node = call[c].node /\ call'[c].pos = call[c].pos
      /\ call'[c].err = call[c].err /\ call'[c].link = call[c].link
      /\ call'[c].cancelled = call[c].cancelled /\ call'[c].status = s
  BY <1>1, EndFacts
<1>3. CallOf(c)'
  BY <1>1, <1>2 DEF Parts, CallOf, Keeps
<1> QED
  BY <1>2, <1>3, QuietStep

LEMMA ConnectStep ==
    ASSUME TransfersInv, refused \subseteq refused', NEW c \in Calls, Connect(c)
    PROVE  Done(c)
<1>1. Typed /\ Parts(c) /\ call[c] \in CallRec /\ call \in [Calls -> CallRec]
  BY DEF TransfersInv, Typed
<1>2. CASE End(c, "failed")
  BY <1>2, EndQuiet DEF Connect
<1>3. CASE call' = [call EXCEPT ![c].link = "up", ![c].pc = IF call[c].op = "rm" THEN "remove" ELSE "check"]
  <2> DEFINE pc == IF call[c].op = "rm" THEN "remove" ELSE "check"
             k == [call[c] EXCEPT !.link = "up", !.pc = pc]
  <2>0. pc \in Places /\ pc \in {"remove", "check"} /\ (pc = "remove" <=> call[c].op = "rm")
    BY DEF Places
  <2> HIDE DEF pc
  <2>1. k \in CallRec
    BY <1>1, <2>0 DEF CallRec
  <2>2. /\ k.pc = pc /\ k.link = "up" /\ k.status = call[c].status /\ k.node = call[c].node /\ k.pos = call[c].pos
        /\ k.err = call[c].err /\ k.cancelled = call[c].cancelled /\ k.op = call[c].op
        /\ k.path = call[c].path /\ k.to = call[c].to /\ k.rest = call[c].rest /\ k.sent = call[c].sent
        /\ k.overwrite = call[c].overwrite /\ k.async = call[c].async
    BY <1>1 DEF CallRec
  <2>3. call' = [call EXCEPT ![c] = k]
    BY <1>1, <1>3 DEF pc
  <2> HIDE DEF k
  <2>4. call' \in [Calls -> CallRec] /\ call'[c] = k /\ \A d \in Calls \ {c} : call'[d] = call[d]
    BY <1>1, <2>1, <2>3
  <2>5. Keeps(c)
    BY <2>2, <2>4 DEF Keeps
  <2>6. CallOf(c)'
    BY <1>1, <2>0, <2>2, <2>4 DEF Parts, CallOf, Connect, CallRec, Ops
  <2> QED
    BY <1>1, <2>0, <2>2, <2>4, <2>5, <2>6, QuietStep DEF Connect, Parts, CallOf
<1> QED
  BY <1>2, <1>3 DEF Connect

LEMMA CheckStep ==
    ASSUME TransfersInv, refused \subseteq refused', NEW c \in Calls, CheckOverwrite(c)
    PROVE  Done(c)
<1>1. Typed /\ Parts(c)
  BY DEF TransfersInv
<1>2. CASE End(c, "failed")
  BY <1>2, EndQuiet DEF CheckOverwrite
<1>3. CASE To(c, "create") /\ ~(call[c].path \notin call[c].overwrite /\ Exists(c, call[c].path))
  <2>1. /\ Keeps(c) /\ call'[c].pc = "create" /\ call'[c].node = call[c].node /\ call'[c].pos = call[c].pos
        /\ call'[c].err = call[c].err /\ call'[c].link = call[c].link
        /\ call'[c].cancelled = call[c].cancelled /\ call'[c].status = call[c].status
    BY <1>1, <1>3, ToFacts DEF Places
  <2>2. CallOf(c)'
    BY <1>1, <2>1 DEF Parts, CallOf, Keeps, CheckOverwrite
  <2>3. call[c].link = "up" /\ call[c].path \notin call[c].overwrite => dir[call[c].path] = None
    BY <1>3 DEF Exists, Reaches
  <2>4. call[c].status \notin {"failed", "cancelled"}
    BY <1>1 DEF Parts, CallOf, CheckOverwrite
  <2> QED
    BY <2>1, <2>2, <2>3, <2>4, QuietStep DEF CheckOverwrite
<1> QED
  BY <1>2, <1>3 DEF CheckOverwrite

LEMMA CancelStep ==
    ASSUME TransfersInv, refused \subseteq refused', NEW c \in Calls, OpCancel(c)
    PROVE  Done(c)
<1>1. Typed /\ Parts(c) /\ call[c] \in CallRec /\ call \in [Calls -> CallRec]
  BY DEF TransfersInv, Typed
<1>2. /\ Keeps(c) /\ call'[c].pc = call[c].pc /\ call'[c].node = call[c].node /\ call'[c].pos = call[c].pos
      /\ call'[c].err = call[c].err /\ call'[c].link = call[c].link /\ call'[c].status = call[c].status
  BY <1>1 DEF OpCancel, Keeps, CallRec
<1>3. call[c].pc # "idle"
  BY <1>1 DEF Parts, CallOf, OpCancel, Running
<1>4. CallOf(c)'
  BY <1>1, <1>2, <1>3 DEF Parts, CallOf, Keeps, OpCancel
<1> QED
  BY <1>2, <1>4, QuietStep DEF OpCancel

LEMMA ReaperStep ==
    ASSUME TransfersInv, refused \subseteq refused', NEW c \in Calls, TransferReaper(c)
    PROVE  Done(c)
<1>1. Keeps(c)
  BY DEF TransferReaper, Keeps, TransfersInv, Typed
<1>2. CallOf(c)'
  BY DEF TransferReaper, TransfersInv, Parts, CallOf
<1> QED
  BY <1>1, <1>2, QuietStep DEF TransferReaper

\* A request as the handlers make it.
Request(r) ==
    /\ r \in CallRec /\ r.op # "none" /\ r.path \in Paths /\ r.sent = {} /\ ~r.err /\ r.path \notin r.rest
    /\ r.op = "upload" => r.path \in RemotePaths /\ r.rest \subseteq RemotePaths /\ r.to = None
    /\ r.op = "download" => r.path \in LocalPaths /\ r.rest = {} /\ r.to = None
    /\ r.op = "rename" => r.to \in Paths

LEMMA BeginDone ==
    ASSUME TransfersInv, refused \subseteq refused', NEW c \in Calls, NEW r, Request(r), Begin(c, r), listed' \subseteq listed \cup {c}
    PROVE  Done(c)
<1>1. Typed /\ Parts(c) /\ call \in [Calls -> CallRec] /\ r \in CallRec
  BY DEF TransfersInv, Typed, Request
<1> DEFINE k == [r EXCEPT !.pc = "connect", !.status = "running"]
<1>2. k \in CallRec
  BY <1>1 DEF CallRec, Places, Results
<1>3. /\ k.pc = "connect" /\ k.status = "running" /\ k.op = r.op /\ k.path = r.path /\ k.to = r.to
      /\ k.rest = r.rest /\ k.sent = r.sent /\ k.err = r.err
  BY <1>1 DEF CallRec
<1>4. call' = [call EXCEPT ![c] = k]
  BY DEF Begin
<1> HIDE DEF k
<1>5. call' \in [Calls -> CallRec] /\ call'[c] = k /\ \A d \in Calls \ {c} : call'[d] = call[d]
  BY <1>1, <1>2, <1>4
<1>6. Claims(c) = {}
  BY <1>1 DEF Parts, CallOf, Begin, Unused, Claims
<1>7. Base(c)
  BY <1>5, <1>6 DEF Base
<1>8. Local(c) /\ DirInv' /\ (\A p \in Paths : Fresh(p)' <=> Fresh(p))
  BY <1>7, Quiet DEF Begin
<1>9. CallOf(c)'
  BY <1>3, <1>5 DEF CallOf, Request
<1>10. CleanOf(c)'
  <2>1. SUFFICES ASSUME NEW p \in Claims(c)', Alone(c, p)' PROVE Fresh(p)'
    BY DEF CleanOf
  <2>2. Free(p) /\ p \in Paths
    <3>1. Claims(c)' \subseteq Paths
      <4>1. k.path \in Paths \cup {None} /\ k.to \in Paths \cup {None} /\ k.rest \subseteq Paths /\ k.sent \subseteq Paths
        BY <1>2 DEF CallRec
      <4> QED
        BY <1>5, <4>1 DEF Claims
    <3>2. Alone(c, p)
      BY <1>7, <2>1, Grow
    <3> QED
      BY <1>6, <2>1, <3>1, <3>2 DEF Alone, Free
  <2> QED
    BY <1>8, <2>2 DEF TransfersInv, FreeInv
<1>11. NodeOf(c)' /\ WriteOf(c)' /\ SentOf(c)' /\ FailOf(c)' /\ OldOf(c)'
  BY <1>3, <1>5 DEF NodeOf, WriteOf, SentOf, FailOf, OldOf, Request
<1>12. Typed'
  BY <1>1, <1>5 DEF Typed, Begin
<1> QED
  BY <1>8, <1>9, <1>10, <1>11, <1>12 DEF Done, Parts

LEMMA UnusedTyped == Unused \in CallRec
<1>1. "none" \in Ops /\ "idle" \in Places /\ "none" \in Results /\ 0 \in 0 .. Blocks
  BY TransfersAssumption DEF Ops, Places, Results
<1> QED
  BY <1>1 DEF Unused, CallRec

LEMMA StartStep ==
    ASSUME TransfersInv, refused \subseteq refused', NEW c \in Calls,
           StartAsyncUpload(c) \/ StartAsyncDownload(c) \/ OpUpload(c) \/ OpUploadMany(c) \/ OpDownload(c) \/ Handle(c)
    PROVE  Done(c)
<1>p. Paths = RemotePaths \cup LocalPaths /\ None \notin Paths
  BY NodesAssumption DEF Paths
<1>u. {"upload", "download", "rm", "rename"} \subseteq Ops /\ "none" \notin {"upload", "download", "rm", "rename"}
  BY DEF Ops
<1>1. CASE StartAsyncUpload(c)
  <2>1. PICK p \in RemotePaths, ow \in SUBSET Paths : /\ AllocateTransferID(c)
          /\ Begin(c, [Unused EXCEPT !.op = "upload", !.async = TRUE, !.path = p, !.overwrite = ow])
    BY <1>1, <1>p DEF StartAsyncUpload
  <2>2. Request([Unused EXCEPT !.op = "upload", !.async = TRUE, !.path = p, !.overwrite = ow])
    <3> DEFINE r == [Unused EXCEPT !.op = "upload", !.async = TRUE, !.path = p, !.overwrite = ow]
    <3>1. "upload" \in Ops /\ p \in Paths \cup {None}
      BY <1>p, <1>u
    <3>2. r \in CallRec
      BY <3>1, UnusedTyped DEF CallRec
    <3>3. r.op = "upload" /\ r.path = p /\ r.to = None /\ r.rest = {} /\ r.sent = {} /\ ~r.err
      BY DEF Unused
    <3> HIDE DEF r
    <3>4. Request(r)
      BY <1>p, <1>u, <3>2, <3>3 DEF Request
    <3> QED
      BY <3>4 DEF r
  <2> QED
    BY <2>1, <2>2, BeginDone DEF AllocateTransferID
<1>2. CASE StartAsyncDownload(c)
  <2>1. PICK p \in LocalPaths, ow \in SUBSET Paths : /\ AllocateTransferID(c)
          /\ Begin(c, [Unused EXCEPT !.op = "download", !.async = TRUE, !.path = p, !.overwrite = ow])
    BY <1>2, <1>p DEF StartAsyncDownload
  <2>2. Request([Unused EXCEPT !.op = "download", !.async = TRUE, !.path = p, !.overwrite = ow])
    <3> DEFINE r == [Unused EXCEPT !.op = "download", !.async = TRUE, !.path = p, !.overwrite = ow]
    <3>1. "download" \in Ops /\ p \in Paths \cup {None}
      BY <1>p, <1>u
    <3>2. r \in CallRec
      BY <3>1, UnusedTyped DEF CallRec
    <3>3. r.op = "download" /\ r.path = p /\ r.to = None /\ r.rest = {} /\ r.sent = {} /\ ~r.err
      BY DEF Unused
    <3> HIDE DEF r
    <3>4. Request(r)
      BY <1>p, <1>u, <3>2, <3>3 DEF Request
    <3> QED
      BY <3>4 DEF r
  <2> QED
    BY <2>1, <2>2, BeginDone DEF AllocateTransferID
<1>3. CASE OpUpload(c)
  <2>1. PICK p \in RemotePaths, ow \in SUBSET Paths :
          Begin(c, [Unused EXCEPT !.op = "upload", !.path = p, !.overwrite = ow]) /\ UNCHANGED listed
    BY <1>3, <1>p DEF OpUpload
  <2>2. Request([Unused EXCEPT !.op = "upload", !.path = p, !.overwrite = ow])
    <3> DEFINE r == [Unused EXCEPT !.op = "upload", !.path = p, !.overwrite = ow]
    <3>1. "upload" \in Ops /\ p \in Paths \cup {None}
      BY <1>p, <1>u
    <3>2. r \in CallRec
      BY <3>1, UnusedTyped DEF CallRec
    <3>3. r.op = "upload" /\ r.path = p /\ r.to = None /\ r.rest = {} /\ r.sent = {} /\ ~r.err
      BY DEF Unused
    <3> HIDE DEF r
    <3>4. Request(r)
      BY <1>p, <1>u, <3>2, <3>3 DEF Request
    <3> QED
      BY <3>4 DEF r
  <2> QED
    BY <2>1, <2>2, BeginDone
<1>4. CASE OpUploadMany(c)
  <2>1. PICK p, q \in RemotePaths, ow \in SUBSET Paths : /\ p # q /\ UNCHANGED listed
          /\ Begin(c, [Unused EXCEPT !.op = "upload", !.path = p, !.rest = {q}, !.overwrite = ow])
    BY <1>4, <1>p DEF OpUploadMany
  <2>2. Request([Unused EXCEPT !.op = "upload", !.path = p, !.rest = {q}, !.overwrite = ow])
    <3> DEFINE r == [Unused EXCEPT !.op = "upload", !.path = p, !.rest = {q}, !.overwrite = ow]
    <3>1. "upload" \in Ops /\ p \in Paths \cup {None} /\ {q} \in SUBSET Paths
      BY <1>p, <1>u
    <3>2. r \in CallRec
      BY <3>1, UnusedTyped DEF CallRec
    <3>3. r.op = "upload" /\ r.path = p /\ r.to = None /\ r.rest = {q} /\ r.sent = {} /\ ~r.err
      BY DEF Unused
    <3> HIDE DEF r
    <3>4. Request(r)
      BY <1>p, <1>u, <2>1, <3>2, <3>3 DEF Request
    <3> QED
      BY <3>4 DEF r
  <2> QED
    BY <2>1, <2>2, BeginDone
<1>5. CASE OpDownload(c)
  <2>1. PICK p \in LocalPaths, ow \in SUBSET Paths :
          Begin(c, [Unused EXCEPT !.op = "download", !.path = p, !.overwrite = ow]) /\ UNCHANGED listed
    BY <1>5, <1>p DEF OpDownload
  <2>2. Request([Unused EXCEPT !.op = "download", !.path = p, !.overwrite = ow])
    <3> DEFINE r == [Unused EXCEPT !.op = "download", !.path = p, !.overwrite = ow]
    <3>1. "download" \in Ops /\ p \in Paths \cup {None}
      BY <1>p, <1>u
    <3>2. r \in CallRec
      BY <3>1, UnusedTyped DEF CallRec
    <3>3. r.op = "download" /\ r.path = p /\ r.to = None /\ r.rest = {} /\ r.sent = {} /\ ~r.err
      BY DEF Unused
    <3> HIDE DEF r
    <3>4. Request(r)
      BY <1>p, <1>u, <3>2, <3>3 DEF Request
    <3> QED
      BY <3>4 DEF r
  <2> QED
    BY <2>1, <2>2, BeginDone
<1>6. CASE Handle(c)
  <2>1. PICK p, q \in RemotePaths, ow \in SUBSET Paths : /\ UNCHANGED listed
          /\ \/ Begin(c, [Unused EXCEPT !.op = "rm", !.path = p])
             \/ Begin(c, [Unused EXCEPT !.op = "rename", !.path = p, !.to = q, !.overwrite = ow])
    BY <1>6, <1>p DEF Handle
  <2>2. Request([Unused EXCEPT !.op = "rm", !.path = p])
    <3> DEFINE r == [Unused EXCEPT !.op = "rm", !.path = p]
    <3>1. "rm" \in Ops /\ p \in Paths \cup {None}
      BY <1>p, <1>u
    <3>2. r \in CallRec
      BY <3>1, UnusedTyped DEF CallRec
    <3>3. r.op = "rm" /\ r.path = p /\ r.to = None /\ r.rest = {} /\ r.sent = {} /\ ~r.err
      BY DEF Unused
    <3> HIDE DEF r
    <3>4. Request(r)
      BY <1>p, <1>u, <3>2, <3>3 DEF Request
    <3> QED
      BY <3>4 DEF r
  <2>3. Request([Unused EXCEPT !.op = "rename", !.path = p, !.to = q, !.overwrite = ow])
    <3> DEFINE r == [Unused EXCEPT !.op = "rename", !.path = p, !.to = q, !.overwrite = ow]
    <3>1. "rename" \in Ops /\ p \in Paths \cup {None} /\ q \in Paths \cup {None}
      BY <1>p, <1>u
    <3>2. r \in CallRec
      BY <3>1, UnusedTyped DEF CallRec
    <3>3. r.op = "rename" /\ r.path = p /\ r.to = q /\ r.rest = {} /\ r.sent = {} /\ ~r.err
      BY DEF Unused
    <3> HIDE DEF r
    <3>4. Request(r)
      BY <1>p, <1>u, <3>2, <3>3 DEF Request
    <3> QED
      BY <3>4 DEF r
  <2> QED
    BY <2>1, <2>2, <2>3, BeginDone
<1> QED
  BY <1>1, <1>2, <1>3, <1>4, <1>5, <1>6

(***************************************************************************)
(* Steps that write, remove or rename                                      *)
(***************************************************************************)
\* A name keeps its file when it and the nodes made under it stay.
LEMMA Kept ==
    ASSUME TransfersInv, NEW p \in Paths, Unmoved(p), dir'[p] = dir[p],
           \A n \in Nodes : data'[n] # data[n] => ~Of(n, p)
    PROVE  /\ Fresh(p) => Fresh(p)'
           /\ \A w : dir[p] # None /\ Whole(dir[p], w) => dir'[p] # None /\ Whole(dir[p], w)'
<1>1. dir[p] # None => data'[dir[p]] = data[dir[p]]
  BY DEF TransfersInv, Typed, DirInv
<1>2. Fresh(p) => Fresh(p)'
  BY <1>1 DEF Fresh, Whole
<1>3. \A w : dir[p] # None /\ Whole(dir[p], w) => dir'[p] # None /\ Whole(dir[p], w)'
  BY <1>1 DEF Whole
<1> QED
  BY <1>2, <1>3

\* A file made under a name of its own.
LEMMA NewNode ==
    ASSUME NEW c \in Calls, NEW p \in Paths
    PROVE  /\ <<c, p>> \in Nodes /\ Of(<<c, p>>, p) /\ <<c, p>> \notin OldPaths
           /\ \A q : Of(<<c, p>>, q) => q = p
<1>1. <<c, p>> \in Calls \X Paths
  OBVIOUS
<1>2. <<c, p>> \in Nodes /\ <<c, p>> \notin OldPaths
  BY <1>1, NodesAssumption DEF Nodes
<1>3. \A q : Of(<<c, p>>, q) => q = p
  BY <1>2 DEF Of
<1> QED
  BY <1>2, <1>3 DEF Of

\* Node n is written for c, which may have made it under its name.
LEMMA WriteStep ==
    ASSUME TransfersInv, NEW c \in Calls, NEW p \in Paths, NEW n \in Nodes, Keeps(c), UNCHANGED listed,
           p = call[c].path, Sends(c), call[c].pc \in {"create", "copy"}, call'[c].pc \in {"copy", "over"},
           \A q \in Paths : Unmoved(q) /\ Of(n, q) => q = p,
           p \in OldPaths /\ Unmoved(p) /\ Spared(p) => n # p,
           data' \in [Nodes -> [1 .. Blocks -> Calls \cup {None, Old}]],
           \A m \in Nodes \ {n} : data'[m] = data[m],
           \/ dir' = dir
           \/ dir' = [dir EXCEPT ![p] = n] /\ (n = dir[p] \/ n = <<c, p>>)
    PROVE  Local(c) /\ DirInv' /\ Typed' /\ CleanOf(c)' /\ SentOf(c)'
<1>b. Base(c) /\ Claims(c)' = Claims(c) /\ (Sends(c)' <=> Sends(c))
  BY KeepsBase
<1>k. Typed /\ DirInv /\ Parts(c) /\ Claims(c) \subseteq Paths /\ call[c].sent \subseteq Paths /\ p \in Claims(c)
  BY NodesAssumption DEF TransfersInv, Typed, CallRec, Claims
<1>d. dir \in [Paths -> Nodes \cup {None}] /\ p # None /\ n # None
  BY <1>k, NodesAssumption DEF Typed
<1>e. \A q \in Paths \ {p} : dir'[q] = dir[q]
  BY <1>d
<1>f. dir'[p] = dir[p] \/ (dir'[p] = n /\ n = <<c, p>>)
  BY <1>d
<1>g. dir' \in [Paths -> Nodes \cup {None}]
  BY <1>d
<1>o. OldPaths \subseteq Paths /\ \A q \in OldPaths : Of(q, q) /\ q \in Nodes
  BY TransfersAssumption DEF Paths, Of, Nodes
<1>1. Local(c)
  <2>1. \A q \in Paths : dir'[q] # dir[q] => q \in Claims(c)'
    BY <1>b, <1>e, <1>k
  <2>2. \A m \in Nodes : data'[m] # data[m] => \A q \in Paths : Unmoved(q) /\ Of(m, q) => q \in Claims(c)'
    BY <1>b, <1>k
  <2>3. ASSUME NEW q \in OldPaths, Unmoved(q)'
        PROVE  (dir'[q] = q => dir[q] = q) /\ (Spared(q)' => data'[q] = data[q])
    <3>1. Unmoved(q) /\ (Spared(q)' => Spared(q))
      BY <1>b, <2>3, Grow
    <3>2. dir'[q] = q => dir[q] = q
      BY <1>e, <1>f, <1>o, NewNode
    <3>3. Spared(q)' => data'[q] = data[q]
      BY <1>o, <3>1
    <3> QED
      BY <3>2, <3>3
  <2> QED
    BY <1>b, <2>1, <2>2, <2>3 DEF Local
<1>2. DirInv'
  <2>1. SUFFICES ASSUME NEW q \in Paths, Unmoved(q)
                 PROVE  /\ dir'[q] # None => Of(dir'[q], q)
                        /\ \A r \in Paths : dir'[r] # None /\ Of(dir'[r], q) => r = q
    BY <1>b, Grow DEF DirInv, Of
  <2>2. dir'[q] # None => Of(dir'[q], q)
    BY <1>e, <1>f, <1>k, <2>1, NewNode DEF DirInv
  <2>3. ASSUME NEW r \in Paths, dir'[r] # None, Of(dir'[r], q) PROVE r = q
    BY <1>e, <1>f, <1>k, <2>1, <2>3, NewNode DEF DirInv
  <2> QED
    BY <2>2, <2>3
<1>3. Typed'
  BY <1>g, <1>k DEF Typed, Keeps
<1>4. ASSUME NEW q \in Claims(c), q # p, Alone(c, q)'
      PROVE  /\ Alone(c, q) /\ (Fresh(q) => Fresh(q)')
             /\ \A w : dir[q] # None /\ Whole(dir[q], w) => dir'[q] # None /\ Whole(dir[q], w)'
  <2>1. Alone(c, q) /\ Unmoved(q) /\ q \in Paths
    BY <1>b, <1>k, <1>4, Grow, AloneUnmoved DEF Sends
  <2>2. dir'[q] = dir[q] /\ \A m \in Nodes : data'[m] # data[m] => ~Of(m, q)
    BY <1>e, <1>4, <2>1
  <2> QED
    BY <2>1, <2>2, Kept
<1>5. CleanOf(c)'
  BY <1>4, <1>b, <1>k DEF CleanOf, Parts, Keeps
<1>6. SentOf(c)'
  <2>1. p \notin call[c].sent /\ call[c].sent \subseteq Claims(c)
    BY <1>k, NodesAssumption DEF Parts, CallOf, Claims
  <2> QED
    BY <1>4, <1>b, <1>k, <2>1 DEF SentOf, Parts, Keeps
<1> QED
  BY <1>1, <1>2, <1>3, <1>5, <1>6

LEMMA CreateStep ==
    ASSUME TransfersInv, refused \subseteq refused', NEW c \in Calls, Create(c)
    PROVE  Done(c)
<1>k. /\ Typed /\ DirInv /\ Parts(c) /\ call[c] \in CallRec /\ call \in [Calls -> CallRec]
      /\ call[c].pc = "create" /\ UNCHANGED listed
  BY DEF TransfersInv, Typed, Create
<1>p. PICK p \in Paths : p = call[c].path /\ Sends(c) /\ call[c].op # "rename"
  BY <1>k DEF Parts, CallOf, Sends
<1>n. PICK n : n = IF dir[p] = None THEN <<c, p>> ELSE dir[p]
  OBVIOUS
<1>f. /\ n \in Nodes /\ (n = dir[p] \/ n = <<c, p>>) /\ n # None
      /\ \A q \in Paths : Unmoved(q) /\ Of(n, q) => q = p
  <2>1. dir[p] \in Nodes \cup {None} /\ <<c, p>> \in Nodes /\ None \notin Nodes
    BY <1>k, NewNode, NodesAssumption DEF Typed
  <2> QED
    BY <1>k, <1>n, <2>1, NewNode DEF DirInv
<1>1. CASE End(c, "failed") /\ UNCHANGED <<dir, data>>
  BY <1>1, <1>k, EndQuiet
<1>2. CASE /\ call[c].link = "up"
           /\ dir' = [dir EXCEPT ![p] = n] /\ data' = [data EXCEPT ![n] = Empty]
           /\ call' = [call EXCEPT ![c].pc = "copy", ![c].node = n, ![c].pos = 0]
  <2>1. n \in Nodes /\ (n = dir[p] \/ n = <<c, p>>) /\ n # None
    BY <1>f
  <2>2. \A q \in Paths : Unmoved(q) /\ Of(n, q) => q = p
    BY <1>f
  <2>3. ASSUME NEW q \in OldPaths, Unmoved(q), q \notin call[c].overwrite PROVE n # q
    <3>1. q \in Paths /\ Of(q, q)
      BY TransfersAssumption DEF Paths, Of
    <3>2. n = q => q = p
      BY <2>2, <2>3, <3>1
    <3>3. q = p => dir[p] # p
      BY <1>2, <1>k, <1>p, <2>3 DEF Parts, OldOf
    <3> QED
      BY <1>n, <3>2, <3>3, NewNode
  <2>4. p \in OldPaths /\ Unmoved(p) /\ Spared(p) => n # p
    <3>1. p \in Claims(c)
      BY <1>p, NodesAssumption DEF Claims
    <3>2. Spared(p) => p \notin call[c].overwrite
      BY <3>1 DEF Spared
    <3> QED
      BY <2>3, <3>2
  <2> DEFINE k == [call[c] EXCEPT !.pc = "copy", !.node = n, !.pos = 0]
  <2>5. k \in CallRec
    <3>1. 0 \in 0 .. Blocks /\ "copy" \in Places /\ n \in Nodes \cup {None}
      BY <2>1, TransfersAssumption DEF Places
    <3> QED
      BY <1>k, <3>1 DEF CallRec
  <2>6. /\ k.pc = "copy" /\ k.node = n /\ k.pos = 0 /\ k.op = call[c].op /\ k.path = call[c].path
        /\ k.to = call[c].to /\ k.rest = call[c].rest /\ k.sent = call[c].sent
        /\ k.overwrite = call[c].overwrite /\ k.async = call[c].async
        /\ k.err = call[c].err /\ k.link = call[c].link /\ k.status = call[c].status
    BY <1>k DEF CallRec
  <2>7. call' = [call EXCEPT ![c] = k]
    BY <1>2, <1>k
  <2> HIDE DEF k
  <2>8. Keeps(c) /\ call'[c] = k
    BY <1>k, <2>5, <2>6, <2>7, CallSet
  <2>9. Empty \in [1 .. Blocks -> Calls \cup {None, Old}]
    BY DEF Empty
  <2>10. /\ data' \in [Nodes -> [1 .. Blocks -> Calls \cup {None, Old}]]
         /\ \A m \in Nodes \ {n} : data'[m] = data[m]
    BY <1>2, <1>k, <2>1, <2>9 DEF Typed
  <2>11. Local(c) /\ DirInv' /\ Typed' /\ CleanOf(c)' /\ SentOf(c)'
    <3>1. call'[c].pc \in {"copy", "over"} /\ call[c].pc \in {"create", "copy"}
      BY <1>k, <2>6, <2>8
    <3>2. dir' = [dir EXCEPT ![p] = n] /\ (n = dir[p] \/ n = <<c, p>>)
      BY <1>2, <2>1
    <3> QED
      BY <1>k, <1>p, <2>1, <2>2, <2>4, <2>8, <2>10, <3>1, <3>2, WriteStep
  <2>12. CallOf(c)'
    BY <1>k, <1>p, <2>1, <2>6, <2>8 DEF Parts, CallOf
  <2>13. \A q : Unmoved(q)' => Unmoved(q)
    BY <2>11, Grow DEF Local
  <2>14. NodeOf(c)' /\ OldOf(c)'
    BY <1>p, <2>2, <2>3, <2>6, <2>8, <2>13 DEF NodeOf, OldOf, Of
  <2>15. WriteOf(c)'
    <3>1. dir'[p] = n
      BY <1>2, <1>k DEF Typed
    <3>2. \A b \in 1 .. 0 : FALSE
      OBVIOUS
    <3> QED
      BY <1>p, <2>1, <2>6, <2>8, <3>1, <3>2 DEF WriteOf
  <2>16. FailOf(c)'
    BY <1>k, <2>6, <2>8 DEF FailOf, Parts, CallOf
  <2> QED
    BY <2>11, <2>12, <2>14, <2>15, <2>16 DEF Done, Parts
<1>3. CASE /\ call[c].link = "lost" /\ Remote(p) /\ (p \in call[c].overwrite \/ dir[p] = None)
           /\ dir' = [dir EXCEPT ![p] = n] /\ data' = [data EXCEPT ![n] = Empty]
           /\ End(c, "failed")
  <2>e. /\ Keeps(c) /\ call'[c].pc = "over" /\ call'[c].err = call[c].err /\ call'[c].link = call[c].link
        /\ call'[c].status = "failed"
    BY <1>3, <1>k, EndFacts DEF Results
  <2>b. Base(c) /\ Claims(c)' = Claims(c) /\ (Sends(c)' <=> Sends(c)) /\ p \in Claims(c)
    BY <1>k, <1>p, <2>e, KeepsBase, NodesAssumption DEF Claims
  <2>1. p \in OldPaths /\ Unmoved(p) /\ Spared(p) => n # p
    BY <1>3, <1>n, <2>b, NewNode DEF Spared
  <2>2. /\ data' \in [Nodes -> [1 .. Blocks -> Calls \cup {None, Old}]]
        /\ \A m \in Nodes \ {n} : data'[m] = data[m]
    <3>1. Empty \in [1 .. Blocks -> Calls \cup {None, Old}]
      BY DEF Empty
    <3> QED
      BY <1>3, <1>k, <1>f, <3>1 DEF Typed
  <2>3. Local(c) /\ DirInv' /\ Typed' /\ CleanOf(c)' /\ SentOf(c)'
    <3>1. call'[c].pc \in {"copy", "over"} /\ call[c].pc \in {"create", "copy"}
      BY <1>k, <2>e
    <3>2. dir' = [dir EXCEPT ![p] = n] /\ (n = dir[p] \/ n = <<c, p>>)
      BY <1>3, <1>f
    <3> QED
      BY <1>k, <1>p, <1>f, <2>1, <2>2, <2>e, <3>1, <3>2, WriteStep
  <2>4. CallOf(c)'
    BY <1>k, <2>e DEF Parts, CallOf, Keeps
  <2>5. NodeOf(c)' /\ WriteOf(c)' /\ OldOf(c)'
    BY <2>e DEF NodeOf, WriteOf, OldOf
  <2>6. FailOf(c)'
    <3>1. SUFFICES ASSUME NEW q \in Claims(c) \ call[c].sent, Alone(c, q)'
                   PROVE  Fresh(q)' \/ (call[c].link = "lost" /\ Remote(q))
      BY <2>b, <2>e DEF FailOf, Keeps, Remote
    <3>2. CASE q = p
      BY <1>3, <3>2
    <3>3. CASE q # p
      BY <1>p, <2>3, <2>b, <2>e, <3>1, <3>3 DEF CleanOf, Keeps
    <3> QED
      BY <3>2, <3>3
  <2> QED
    BY <2>3, <2>4, <2>5, <2>6 DEF Done, Parts
<1> QED
  BY <1>1, <1>2, <1>3, <1>k, <1>n, <1>p DEF Create

LEMMA CopyStep ==
    ASSUME TransfersInv, refused \subseteq refused', NEW c \in Calls, CopyBlock(c)
    PROVE  Done(c)
<1>k. /\ Typed /\ DirInv /\ Parts(c) /\ call[c] \in CallRec /\ call \in [Calls -> CallRec]
      /\ call[c].pc = "copy" /\ UNCHANGED <<listed, dir>> /\ call[c].pos \in 0 .. Blocks
  BY DEF TransfersInv, Typed, CopyBlock, CallRec
<1>p. PICK p \in Paths : p = call[c].path /\ Sends(c) /\ call[c].op # "rename"
  BY <1>k DEF Parts, CallOf, Sends
<1>1. CASE call' = [call EXCEPT ![c].pc = "finish", ![c].err = TRUE] /\ UNCHANGED data
  <2> DEFINE k == [call[c] EXCEPT !.pc = "finish", !.err = TRUE]
  <2>1. k \in CallRec
    BY <1>k DEF CallRec, Places
  <2>2. /\ k.pc = "finish" /\ k.err /\ k.node = call[c].node /\ k.pos = call[c].pos /\ k.op = call[c].op
        /\ k.path = call[c].path /\ k.to = call[c].to /\ k.rest = call[c].rest /\ k.sent = call[c].sent
        /\ k.overwrite = call[c].overwrite /\ k.async = call[c].async
        /\ k.link = call[c].link /\ k.status = call[c].status
    BY <1>k DEF CallRec
  <2>3. call' = [call EXCEPT ![c] = k]
    BY <1>1, <1>k
  <2> HIDE DEF k
  <2>4. Keeps(c) /\ call'[c] = k
    BY <1>k, <2>1, <2>2, <2>3, CallSet
  <2>5. CallOf(c)' /\ k.status \notin {"failed", "cancelled"}
    BY <1>k, <2>2, <2>4 DEF Parts, CallOf
  <2> QED
    BY <1>1, <1>k, <2>2, <2>4, <2>5, QuietStep
<1>2. CASE call[c].pos = Blocks /\ To(c, "finish") /\ UNCHANGED data
  <2>1. /\ Keeps(c) /\ call'[c].pc = "finish" /\ call'[c].node = call[c].node /\ call'[c].pos = call[c].pos
        /\ call'[c].err = call[c].err /\ call'[c].link = call[c].link
        /\ call'[c].cancelled = call[c].cancelled /\ call'[c].status = call[c].status
    BY <1>2, <1>k, ToFacts DEF Places
  <2>2. CallOf(c)' /\ call'[c].status \notin {"failed", "cancelled"}
    BY <1>2, <1>k, <2>1 DEF Parts, CallOf, Keeps
  <2> QED
    BY <1>2, <1>k, <2>1, <2>2, QuietStep
<1>3. CASE /\ call[c].pos < Blocks
           /\ data' = [data EXCEPT ![call[c].node][call[c].pos + 1] = c]
           /\ call' = [call EXCEPT ![c].pos = call[c].pos + 1]
  <2>1. PICK n \in Nodes : n = call[c].node
    BY <1>k DEF Parts, CallOf
  <2>2. PICK i \in 1 .. Blocks : i = call[c].pos + 1
    BY <1>3, <1>k, TransfersAssumption
  <2>3. \A q \in Paths : Unmoved(q) /\ Of(n, q) => q = p
    BY <1>k, <1>p, <2>1 DEF Parts, NodeOf
  <2>4. \A q \in OldPaths : Unmoved(q) /\ q \notin call[c].overwrite => n # q
    BY <1>k, <2>1 DEF Parts, OldOf
  <2>5. p \in OldPaths /\ Unmoved(p) /\ Spared(p) => n # p
    <3>1. p \in Claims(c)
      BY <1>p, NodesAssumption DEF Claims
    <3>2. Spared(p) => p \notin call[c].overwrite
      BY <3>1 DEF Spared
    <3> QED
      BY <2>4, <3>2
  <2>6. /\ Keeps(c) /\ call'[c].pc = "copy" /\ call'[c].node = n /\ call'[c].pos = i
        /\ call'[c].err = call[c].err /\ call'[c].link = call[c].link /\ call'[c].status = call[c].status
    <3>1. i \in 0 .. Blocks /\ call' = [call EXCEPT ![c].pos = i]
      BY <1>3, <2>2
    <3> QED
      BY <1>k, <2>1, <3>1 DEF CallRec, Keeps
  <2>7. data \in [Nodes -> [1 .. Blocks -> Calls \cup {None, Old}]] /\ data' = [data EXCEPT ![n][i] = c]
    BY <1>3, <1>k, <2>1, <2>2 DEF Typed
  <2>8. /\ data' \in [Nodes -> [1 .. Blocks -> Calls \cup {None, Old}]]
        /\ \A m \in Nodes \ {n} : data'[m] = data[m]
    BY <2>7
  <2>9. Local(c) /\ DirInv' /\ Typed' /\ CleanOf(c)' /\ SentOf(c)'
    BY <1>k, <1>p, <2>3, <2>5, <2>6, <2>8, WriteStep
  <2>10. CallOf(c)' /\ FailOf(c)'
    BY <1>k, <1>p, <2>6 DEF Parts, CallOf, FailOf, Keeps
  <2>11. \A q : (Unmoved(q)' => Unmoved(q)) /\ (Alone(c, q)' => Alone(c, q))
    BY <2>9, Grow DEF Local
  <2>12. NodeOf(c)' /\ OldOf(c)'
    BY <1>p, <2>3, <2>4, <2>6, <2>11 DEF NodeOf, OldOf, Of, Keeps
  <2>13. WriteOf(c)'
    <3>1. SUFFICES ASSUME ~call'[c].err, Alone(c, p)'
                   PROVE  dir[p] = n /\ \A b \in 1 .. i : data'[n][b] = c
      BY <1>k, <1>p, <2>6 DEF WriteOf, Keeps, Alone
    <3>2. dir[p] = n /\ \A b \in 1 .. call[c].pos : data[n][b] = c
      BY <1>k, <1>p, <2>1, <2>6, <2>11, <3>1 DEF Parts, WriteOf
    <3>3. ASSUME NEW b \in 1 .. i PROVE data'[n][b] = c
      <4>1. CASE b = i
        BY <2>7, <4>1
      <4>2. CASE b # i
        <5>1. b \in 1 .. call[c].pos /\ b \in 1 .. Blocks
          BY <1>k, <2>2, <4>2, TransfersAssumption
        <5> QED
          BY <2>7, <3>2, <4>2, <5>1
      <4> QED
        BY <4>1, <4>2
    <3> QED
      BY <3>2, <3>3
  <2> QED
    BY <2>9, <2>10, <2>12, <2>13 DEF Done, Parts
<1> QED
  BY <1>1, <1>2, <1>3 DEF CopyBlock

\* The name of a call that is over afterwards is removed, or cannot be.
LEMMA RemoveStep ==
    ASSUME TransfersInv, refused \subseteq refused', NEW c \in Calls, NEW s \in {"completed", "failed", "cancelled"}, End(c, s),
           \/ dir' = [dir EXCEPT ![call[c].path] = None]
           \/ dir' = dir /\ (c \in refused' \/ ~Sends(c)),
           UNCHANGED <<listed, data>>, call[c].pc \in {"finish", "remove"}
    PROVE  Done(c)
<1>k. Typed /\ DirInv /\ Parts(c) /\ s \in Results
  BY DEF TransfersInv, Results
<1>p. PICK p \in Paths : p = call[c].path
  BY <1>k DEF Parts, CallOf
<1>e. /\ Keeps(c) /\ call'[c].pc = "over" /\ call'[c].node = call[c].node /\ call'[c].pos = call[c].pos
      /\ call'[c].err = call[c].err /\ call'[c].link = call[c].link
      /\ call'[c].cancelled = call[c].cancelled /\ call'[c].status = s
  BY <1>k, EndFacts
<1>b. Base(c) /\ Claims(c)' = Claims(c) /\ (Sends(c)' <=> Sends(c))
  BY <1>e, KeepsBase
<1>c. Claims(c) \subseteq Paths /\ call[c].sent \subseteq Claims(c) /\ p \in Claims(c) /\ p # None
  BY <1>k, <1>p, NodesAssumption DEF Typed, CallRec, Claims
<1>d. dir' \in [Paths -> Nodes \cup {None}] /\ \A q \in Paths \ {p} : dir'[q] = dir[q]
  BY <1>k, <1>p DEF Typed
<1>n. dir'[p] = None \/ (dir'[p] = dir[p] /\ (c \in refused' \/ ~Sends(c)))
  BY <1>k, <1>p DEF Typed
<1>g. \A q : (Unmoved(q)' => Unmoved(q)) /\ (Alone(c, q)' => Alone(c, q))
  BY <1>b, Grow
<1>1. Local(c)
  <2>1. \A q \in Paths : dir'[q] # dir[q] => q \in Claims(c)'
    BY <1>b, <1>c, <1>d
  <2>2. \A q \in OldPaths : q \in Paths /\ (dir'[q] = q => dir[q] = q)
    BY <1>d, <1>n, <1>c, TransfersAssumption, NodesAssumption DEF Paths
  <2> QED
    BY <1>b, <2>1, <2>2 DEF Local
<1>2. DirInv'
  <2>1. \A q \in Paths : dir'[q] # None => dir'[q] = dir[q]
    BY <1>d, <1>n
  <2> QED
    BY <1>g, <1>k, <2>1 DEF DirInv, Of
<1>3. Typed'
  BY <1>d, <1>e, <1>k DEF Typed, Keeps
<1>4. CallOf(c)'
  BY <1>e, <1>k DEF Parts, CallOf, Keeps
<1>5. NodeOf(c)' /\ WriteOf(c)' /\ OldOf(c)'
  BY <1>e DEF NodeOf, WriteOf, OldOf
<1>6. ASSUME NEW q \in Claims(c), q # p, Sends(c), Alone(c, q)'
      PROVE  /\ Alone(c, q) /\ (Fresh(q) => Fresh(q)')
             /\ \A w : dir[q] # None /\ Whole(dir[q], w) => dir'[q] # None /\ Whole(dir[q], w)'
  <2>1. Alone(c, q) /\ Unmoved(q) /\ q \in Paths
    BY <1>c, <1>g, <1>6, AloneUnmoved DEF Sends
  <2> QED
    BY <1>d, <1>6, <2>1, Kept
<1>7. CleanOf(c)'
  BY <1>6, <1>b, <1>e, <1>k, <1>p DEF CleanOf, Parts, Keeps
<1>8. SentOf(c)'
  <2>1. Sends(c) => p \notin call[c].sent
    BY <1>k, <1>p DEF Parts, CallOf
  <2> QED
    BY <1>6, <1>b, <1>c, <1>e, <1>k, <2>1 DEF SentOf, Parts, Keeps
<1>9. FailOf(c)'
  <2>1. SUFFICES ASSUME Sends(c), NEW q \in Claims(c) \ call[c].sent, Alone(c, q)'
                 PROVE  Fresh(q)' \/ c \in refused'
    BY <1>b, <1>e DEF FailOf, Keeps
  <2>2. CASE q # p
    BY <1>6, <1>k, <1>p, <2>1, <2>2 DEF Parts, CleanOf
  <2>3. CASE q = p
    <3>1. dir'[p] = None => Fresh(p)'
      BY DEF Fresh
    <3> QED
      BY <1>n, <2>1, <2>3, <3>1
  <2> QED
    BY <2>2, <2>3
<1> QED
  BY <1>1, <1>2, <1>3, <1>4, <1>5, <1>7, <1>8, <1>9 DEF Done, Parts

LEMMA RmStep ==
    ASSUME TransfersInv, refused \subseteq refused', NEW c \in Calls, OpRm(c)
    PROVE  Done(c)
<1>1. call[c].pc = "remove" /\ UNCHANGED <<listed, data>> /\ ~Sends(c)
  BY DEF OpRm, TransfersInv, Parts, CallOf, Sends
<1>2. CASE End(c, "completed") /\ Unlink(c, call[c].path)
  BY <1>1, <1>2, RemoveStep DEF Unlink
<1>3. CASE End(c, "failed") /\ UNCHANGED dir
  BY <1>1, <1>3, RemoveStep
<1> QED
  BY <1>2, <1>3 DEF OpRm

LEMMA RenameStep ==
    ASSUME TransfersInv, refused \subseteq refused', NEW c \in Calls, OpRename(c)
    PROVE  Done(c)
<1>k. Typed /\ DirInv /\ Parts(c) /\ UNCHANGED <<listed, data>> /\ call[c].pc \in {"check", "rename"}
  BY DEF TransfersInv, OpRename
<1>o. call[c].op = "rename" /\ ~Sends(c)
  BY <1>k DEF Parts, CallOf, OpRename, Sends
<1>1. CASE End(c, "failed") /\ UNCHANGED dir
  BY <1>1, <1>k, <1>o, EndQuiet
<1>2. CASE To(c, "rename") /\ UNCHANGED dir
  <2>1. /\ Keeps(c) /\ call'[c].pc = "rename" /\ call'[c].node = call[c].node /\ call'[c].pos = call[c].pos
        /\ call'[c].err = call[c].err /\ call'[c].link = call[c].link
        /\ call'[c].cancelled = call[c].cancelled /\ call'[c].status = call[c].status
    BY <1>2, <1>k, ToFacts DEF Places
  <2>2. CallOf(c)'
    BY <1>k, <1>o, <2>1 DEF Parts, CallOf, Keeps
  <2> QED
    BY <1>2, <1>k, <1>o, <2>1, <2>2, QuietStep
<1>3. CASE /\ Exists(c, call[c].path) /\ End(c, "completed")
           /\ dir' = [dir EXCEPT ![call[c].path] = IF call[c].to = call[c].path THEN @ ELSE None,
                                 ![call[c].to] = dir[call[c].path]]
  <2>1. PICK p \in Paths, q \in Paths : p = call[c].path /\ q = call[c].to
    BY <1>k, <1>o DEF Parts, CallOf
  <2>e. Keeps(c) /\ call'[c].pc = "over" /\ call'[c].status = "completed" /\ call'[c].err = call[c].err
    BY <1>3, <1>k, EndFacts DEF Results
  <2>b. Base(c) /\ Claims(c)' = Claims(c) /\ (Sends(c)' <=> Sends(c))
    BY <1>k, <2>e, KeepsBase
  <2>c. {p, q} \subseteq Claims(c)
    BY <2>1, NodesAssumption DEF Claims
  <2>2. dir \in [Paths -> Nodes \cup {None}]
        /\ dir' = [dir EXCEPT ![p] = IF q = p THEN @ ELSE None, ![q] = dir[p]]
    BY <1>3, <1>k, <2>1 DEF Typed
  <2>3. /\ dir' \in [Paths -> Nodes \cup {None}] /\ dir'[q] = dir[p] /\ (p # q => dir'[p] = None)
        /\ \A r \in Paths \ {p, q} : dir'[r] = dir[r]
    BY <2>2
  <2>4. \A r : Unmoved(r)' => Unmoved(r) /\ r \notin {p, q}
    BY <1>o, <2>b, <2>c, <2>e, Grow DEF Unmoved, Keeps
  <2>5. Local(c)
    <3>1. \A r \in Paths : dir'[r] # dir[r] => r \in Claims(c)'
      BY <2>b, <2>c, <2>3
    <3>2. \A r \in OldPaths : Unmoved(r)' => dir'[r] = dir[r]
      BY <2>3, <2>4, TransfersAssumption DEF Paths
    <3> QED
      BY <1>k, <2>b, <3>1, <3>2 DEF Local
  <2>6. DirInv'
    <3>1. SUFFICES ASSUME NEW r \in Paths, Unmoved(r), r \notin {p, q}
                   PROVE  /\ dir'[r] # None => Of(dir'[r], r)
                          /\ \A t \in Paths : dir'[t] # None /\ Of(dir'[t], r) => t = r
      BY <2>4 DEF DirInv, Of
    <3>2. dir'[r] # None => Of(dir'[r], r)
      BY <1>k, <2>3, <3>1 DEF DirInv
    <3>3. ASSUME NEW t \in Paths, dir'[t] # None, Of(dir'[t], r) PROVE t = r
      BY <1>k, <2>3, <3>1, <3>3 DEF DirInv
    <3> QED
      BY <3>2, <3>3
  <2>7. Typed'
    BY <1>k, <2>3, <2>e DEF Typed, Keeps
  <2>8. CallOf(c)'
    BY <1>k, <1>o, <2>e DEF Parts, CallOf, Keeps
  <2>9. NodeOf(c)' /\ WriteOf(c)' /\ OldOf(c)' /\ CleanOf(c)' /\ SentOf(c)' /\ FailOf(c)'
    BY <1>o, <2>b, <2>e DEF NodeOf, WriteOf, OldOf, CleanOf, SentOf, FailOf
  <2> QED
    BY <2>5, <2>6, <2>7, <2>8, <2>9 DEF Done, Parts
<1> QED
  BY <1>1, <1>2, <1>3 DEF OpRename

\* A file is sent: the call is over, or goes on to its next name.
LEMMA SentStep ==
    ASSUME TransfersInv, refused \subseteq refused', NEW c \in Calls, UNCHANGED <<listed, dir, data>>,
           call[c].pc = "finish", Sends(c), ~call[c].err,
           NEW k \in CallRec, call' = [call EXCEPT ![c] = k], k.sent = call[c].sent \cup {call[c].path},
           k.op = call[c].op, k.to = call[c].to, k.overwrite = call[c].overwrite,
           k.err = call[c].err, k.link = call[c].link,
           \/ /\ k.pc = "over" /\ k.status = "completed" /\ call[c].rest = {}
              /\ k.path = call[c].path /\ k.rest = call[c].rest
           \/ /\ k.pc = "check" /\ k.status = call[c].status /\ call[c].op = "upload"
              /\ k.path \in call[c].rest /\ k.rest = call[c].rest \ {k.path}
    PROVE  Done(c)
<1>k. /\ Typed /\ Parts(c) /\ call \in [Calls -> CallRec] /\ call[c] \in CallRec
      /\ k.status \notin {"failed", "cancelled"}
  BY DEF TransfersInv, Typed, Parts, CallOf
<1>p. PICK p \in Paths : p = call[c].path
  BY <1>k DEF Parts, CallOf
<1>1. call' \in [Calls -> CallRec] /\ call'[c] = k /\ \A d \in Calls \ {c} : call'[d] = call[d]
  BY <1>k
<1>2. /\ p \notin call[c].rest /\ p \notin call[c].sent /\ call[c].rest \cap call[c].sent = {}
      /\ call[c].rest \subseteq Paths /\ call[c].sent \subseteq Paths
  BY <1>k, <1>p DEF Parts, CallOf, CallRec
<1>3. /\ Claims(c)' = Claims(c) /\ (Sends(c)' <=> Sends(c)) /\ Claims(c) \subseteq Paths
      /\ call[c].sent \subseteq Claims(c)
  BY <1>1, <1>2, <1>k, <1>p, NodesAssumption DEF Claims, Sends, CallRec
<1>4. Base(c)
  BY <1>1, <1>3 DEF Base
<1>5. Local(c) /\ DirInv' /\ (\A q \in Paths : Fresh(q)' <=> Fresh(q))
  BY <1>4, Quiet
<1>6. CallOf(c)'
  BY <1>1, <1>2, <1>k, <1>p DEF Parts, CallOf, Sends
<1>7. NodeOf(c)' /\ WriteOf(c)' /\ OldOf(c)' /\ FailOf(c)'
  BY <1>1, <1>k DEF NodeOf, WriteOf, OldOf, FailOf
<1>8. \A q : Alone(c, q)' => Alone(c, q)
  BY <1>4, Grow
<1>9. CleanOf(c)'
  <2>1. SUFFICES ASSUME NEW q \in Claims(c) \ k.sent, Alone(c, q) PROVE Fresh(q)
    BY <1>1, <1>3, <1>5, <1>8 DEF CleanOf
  <2>2. q # call[c].path /\ q \notin call[c].sent
    BY <2>1
  <2> QED
    BY <1>k, <2>1, <2>2 DEF Parts, CleanOf
<1>10. SentOf(c)'
  <2>1. SUFFICES ASSUME NEW q \in k.sent, Alone(c, q) PROVE dir[q] # None /\ Whole(dir[q], c)
    BY <1>1, <1>3, <1>8 DEF SentOf, Whole
  <2>2. CASE q \in call[c].sent
    BY <1>k, <2>1, <2>2 DEF Parts, SentOf
  <2>3. CASE q = call[c].path
    <3>1. /\ call[c].node \in Nodes /\ dir[q] = call[c].node /\ call[c].pos = Blocks
          /\ \A b \in 1 .. Blocks : data[call[c].node][b] = c
      BY <1>k, <2>1, <2>3 DEF Parts, WriteOf, CallOf
    <3>2. data[call[c].node] \in [1 .. Blocks -> Calls \cup {None, Old}]
      BY <1>k, <3>1 DEF Typed
    <3>3. data[call[c].node] = [b \in 1 .. Blocks |-> c]
      BY <3>1, <3>2
    <3>4. dir[q] # None
      BY <3>1, NodesAssumption
    <3> QED
      BY <3>1, <3>3, <3>4 DEF Whole
  <2> QED
    BY <2>1, <2>2, <2>3
<1>11. Typed'
  BY <1>1, <1>k DEF Typed
<1> QED
  BY <1>5, <1>6, <1>7, <1>9, <1>10, <1>11 DEF Done, Parts

LEMMA FinishStep ==
    ASSUME TransfersInv, refused \subseteq refused', NEW c \in Calls, FinishUpload(c) \/ FinishDownload(c)
    PROVE  Done(c)
<1>k. /\ Typed /\ Parts(c) /\ call \in [Calls -> CallRec] /\ call[c] \in CallRec
      /\ call[c].pc = "finish" /\ Sends(c) /\ UNCHANGED <<listed, data>>
  BY DEF TransfersInv, Typed, FinishUpload, FinishDownload, Sends
<1>p. call[c].path \in Paths /\ call[c].sent \cup {call[c].path} \in SUBSET Paths
  BY <1>k DEF Parts, CallOf, CallRec
<1>1. ASSUME NEW s \in {"failed", "cancelled"}, Discard(c, s) PROVE Done(c)
  <2>1. End(c, s)
    BY <1>1 DEF Discard
  <2>2. \/ dir' = [dir EXCEPT ![call[c].path] = None]
        \/ dir' = dir /\ c \in refused'
    BY <1>1 DEF Discard, Unlink
  <2> QED
    BY <1>1, <1>k, <2>1, <2>2, RemoveStep
<1>2. CASE /\ ~call[c].err /\ UNCHANGED dir /\ call[c].rest = {}
           /\ call' = [call EXCEPT ![c].pc = "over", ![c].status = "completed",
                                   ![c].sent = call[c].sent \cup {call[c].path}]
  <2> DEFINE k == [call[c] EXCEPT !.pc = "over", !.status = "completed",
                                  !.sent = call[c].sent \cup {call[c].path}]
  <2>1. k \in CallRec
    <3>1. "over" \in Places /\ "completed" \in Results
      BY DEF Places, Results
    <3> QED
      BY <1>k, <1>p, <3>1 DEF CallRec
  <2>2. /\ k.pc = "over" /\ k.status = "completed" /\ k.sent = call[c].sent \cup {call[c].path}
        /\ k.op = call[c].op /\ k.to = call[c].to /\ k.overwrite = call[c].overwrite
        /\ k.err = call[c].err /\ k.link = call[c].link /\ k.path = call[c].path /\ k.rest = call[c].rest
    BY <1>k DEF CallRec
  <2>3. call' = [call EXCEPT ![c] = k]
    BY <1>2, <1>k
  <2> HIDE DEF k
  <2> QED
    BY <1>2, <1>k, <2>1, <2>2, <2>3, SentStep
<1>3. CASE /\ ~call[c].err /\ UNCHANGED dir /\ call[c].op = "upload"
           /\ \E q \in call[c].rest :
                 call' = [call EXCEPT ![c].pc = "check", ![c].path = q, ![c].rest = call[c].rest \ {q},
                                      ![c].sent = call[c].sent \cup {call[c].path}]
  <2>0. PICK q \in call[c].rest :
           call' = [call EXCEPT ![c].pc = "check", ![c].path = q, ![c].rest = call[c].rest \ {q},
                                ![c].sent = call[c].sent \cup {call[c].path}]
    BY <1>3
  <2> DEFINE k == [call[c] EXCEPT !.pc = "check", !.path = q, !.rest = call[c].rest \ {q},
                                  !.sent = call[c].sent \cup {call[c].path}]
  <2>1. k \in CallRec
    <3>1. "check" \in Places /\ q \in Paths \cup {None} /\ call[c].rest \ {q} \in SUBSET Paths
      BY <1>k, <2>0 DEF Places, CallRec
    <3> QED
      BY <1>k, <1>p, <3>1 DEF CallRec
  <2>2. /\ k.pc = "check" /\ k.status = call[c].status /\ k.sent = call[c].sent \cup {call[c].path}
        /\ k.op = call[c].op /\ k.to = call[c].to /\ k.overwrite = call[c].overwrite
        /\ k.err = call[c].err /\ k.link = call[c].link /\ k.path = q /\ k.rest = call[c].rest \ {q}
    BY <1>k DEF CallRec
  <2>3. call' = [call EXCEPT ![c] = k]
    BY <1>k, <2>0
  <2> HIDE DEF k
  <2> QED
    BY <1>3, <1>k, <2>0, <2>1, <2>2, <2>3, SentStep
<1>4. CASE FinishUpload(c)
  <2>1. CASE Incomplete(c)
    BY <1>1, <2>1 DEF Incomplete
  <2> QED
    BY <1>2, <1>3, <1>4, <2>1 DEF FinishUpload
<1>5. CASE FinishDownload(c)
  <2>1. CASE Incomplete(c)
    BY <1>1, <2>1 DEF Incomplete
  <2>2. call[c].rest = {} /\ call[c].sent \cup {call[c].path} = {call[c].path}
    BY <1>5, <1>k DEF FinishDownload, Parts, CallOf
  <2> QED
    BY <1>1, <1>2, <1>5, <2>1, <2>2 DEF FinishDownload
<1> QED
  BY <1>4, <1>5

\* The connection is lost for every call that has one.
LEMMA LoseStep ==
    ASSUME TransfersInv, LoseConnection, UNCHANGED refused
    PROVE  TransfersInv'
<1>k. /\ Typed /\ call \in [Calls -> CallRec] /\ UNCHANGED <<listed, dir, data>>
      /\ call' = [c \in Calls |-> IF call[c].link = "up" THEN [call[c] EXCEPT !.link = "lost"] ELSE call[c]]
  BY DEF TransfersInv, Typed, LoseConnection
<1>1. ASSUME NEW c \in Calls
      PROVE  /\ call'[c] \in CallRec /\ call'[c].op = call[c].op /\ call'[c].async = call[c].async
             /\ call'[c].path = call[c].path /\ call'[c].to = call[c].to /\ call'[c].rest = call[c].rest
             /\ call'[c].sent = call[c].sent /\ call'[c].node = call[c].node
             /\ call'[c].overwrite = call[c].overwrite /\ call'[c].pc = call[c].pc
             /\ call'[c].pos = call[c].pos /\ call'[c].err = call[c].err /\ call'[c].status = call[c].status
             /\ call'[c].link = (IF call[c].link = "up" THEN "lost" ELSE call[c].link)
             /\ call[c].link # "up" => call'[c] = call[c]
  <2>1. call[c] \in CallRec /\ call'[c] = IF call[c].link = "up" THEN [call[c] EXCEPT !.link = "lost"] ELSE call[c]
    BY <1>k
  <2>2. CASE call[c].link = "up"
    BY <2>1, <2>2 DEF CallRec
  <2>3. CASE call[c].link # "up"
    BY <2>1, <2>3
  <2> QED
    BY <2>2, <2>3
<1>2. Typed'
  BY <1>1, <1>k DEF Typed
<1>3. \A c \in Calls : Claims(c)' = Claims(c) /\ (Sends(c)' <=> Sends(c))
  BY <1>1 DEF Claims, Sends
<1>4. /\ \A p : (Unmoved(p)' <=> Unmoved(p)) /\ (Free(p)' <=> Free(p)) /\ (Spared(p)' <=> Spared(p))
      /\ \A p : \A c \in Calls : Alone(c, p)' <=> Alone(c, p)
  BY <1>1, <1>3 DEF Unmoved, Free, Spared, Alone
<1>5. \A p \in Paths : Fresh(p)' <=> Fresh(p)
  BY <1>k DEF Fresh, Whole
<1>6. DirInv' /\ FreeInv' /\ OldInv'
  BY <1>4, <1>5, <1>k DEF TransfersInv, DirInv, FreeInv, OldInv, Of, Whole
<1>7. ASSUME NEW c \in Calls PROVE Parts(c)'
  <2>1. Parts(c) /\ Claims(c) \subseteq Paths /\ call[c].link \in {"none", "up", "lost"}
    BY <1>k, NodesAssumption DEF TransfersInv, Typed, CallRec, Claims
  <2>2. CallOf(c)'
    <3>1. call[c].pc = "idle" => call[c].link # "up"
      BY <2>1 DEF Parts, CallOf, Unused
    <3> QED
      BY <1>1, <1>k, <2>1, <3>1 DEF Parts, CallOf
  <2>3. NodeOf(c)'
    BY <1>1, <1>4, <2>1 DEF Parts, NodeOf, Of
  <2>4. CleanOf(c)'
    BY <1>1, <1>3, <1>4, <1>5, <2>1 DEF Parts, CleanOf
  <2>5. WriteOf(c)'
    BY <1>1, <1>4, <1>k, <2>1 DEF Parts, WriteOf
  <2>6. SentOf(c)'
    BY <1>1, <1>3, <1>4, <1>k, <2>1 DEF Parts, SentOf, Whole
  <2>7. FailOf(c)'
    BY <1>1, <1>3, <1>4, <1>5, <2>1 DEF Parts, FailOf
  <2>8. OldOf(c)'
    BY <1>1, <1>4, <1>k, <2>1 DEF Parts, OldOf
  <2> QED
    BY <2>2, <2>3, <2>4, <2>5, <2>6, <2>7, <2>8 DEF Parts
<1> QED
  BY <1>2, <1>6, <1>7 DEF TransfersInv

LEMMA InitInv == TransfersInit => TransfersInv
<1> SUFFICES ASSUME TransfersInit PROVE TransfersInv
  OBVIOUS
<1>1. OldPaths \subseteq Paths /\ OldPaths \subseteq Nodes /\ None \notin Paths
  BY TransfersAssumption, NodesAssumption DEF Paths, Nodes
<1>2. \A c \in Calls : call[c] = Unused /\ Claims(c) = {}
  BY DEF TransfersInit, Unused, Claims
<1>3. Typed
  <2>1. Empty \in [1 .. Blocks -> Calls \cup {None, Old}] /\ [b \in 1 .. Blocks |-> Old] \in [1 .. Blocks -> Calls \cup {None, Old}]
    BY DEF Empty
  <2>2. call \in [Calls -> CallRec] /\ listed \subseteq Calls
    BY UnusedTyped DEF TransfersInit
  <2>3. dir \in [Paths -> Nodes \cup {None}]
    BY <1>1 DEF TransfersInit
  <2>4. data \in [Nodes -> [1 .. Blocks -> Calls \cup {None, Old}]]
    BY <2>1 DEF TransfersInit
  <2> QED
    BY <2>2, <2>3, <2>4 DEF Typed
<1>4. \A p \in Paths : dir[p] = (IF p \in OldPaths THEN p ELSE None)
  BY DEF TransfersInit
<1>5. \A p \in OldPaths : Whole(p, Old)
  BY <1>1 DEF TransfersInit, Whole
<1>6. DirInv
  <2>1. \A p \in OldPaths : \A q \in Paths : Of(p, q) => p = q
    <3>1. SUFFICES ASSUME NEW p \in OldPaths, NEW q \in Paths, NEW d \in Calls, p = <<d, q>> PROVE FALSE
      BY DEF Of
    <3>2. p \in Calls \X Paths
      BY <3>1
    <3> QED
      BY <3>2, NodesAssumption
  <2>2. \A p \in OldPaths : Of(p, p)
    BY DEF Of
  <2> QED
    BY <1>4, <2>1, <2>2 DEF DirInv
<1>7. FreeInv
  BY <1>4, <1>5 DEF FreeInv, Fresh
<1>8. OldInv
  BY <1>5 DEF OldInv
<1>9. \A c \in Calls : Parts(c)
  BY <1>2, <1>7 DEF Parts, CallOf, NodeOf, CleanOf, WriteOf, SentOf, FailOf, OldOf, Sends, Unused, TransfersInit
<1> QED
  BY <1>3, <1>6, <1>7, <1>8, <1>9 DEF TransfersInv

LEMMA StepInv == ASSUME TransfersInv, [TransfersNext]_tvars PROVE TransfersInv'
<1>1. CASE UNCHANGED tvars
  <2> USE <1>1 DEF tvars
  <2>1. Typed' /\ DirInv' /\ FreeInv' /\ OldInv'
    BY DEF TransfersInv, Typed, DirInv, FreeInv, OldInv, Unmoved, Free, Spared, Claims, Fresh, Whole, Of
  <2>2. \A c \in Calls : Parts(c)'
    <3>1. SUFFICES ASSUME NEW c \in Calls PROVE Parts(c)'
      OBVIOUS
    <3>2. Parts(c)
      BY DEF TransfersInv
    <3>3. CallOf(c)' /\ NodeOf(c)' /\ OldOf(c)'
      BY <3>2 DEF Parts, CallOf, NodeOf, OldOf, Unmoved, Claims, Of
    <3>4. CleanOf(c)' /\ FailOf(c)'
      BY <3>2 DEF Parts, CleanOf, FailOf, Alone, Claims, Sends, Fresh, Whole
    <3>5. WriteOf(c)' /\ SentOf(c)'
      BY <3>2 DEF Parts, WriteOf, SentOf, Alone, Claims, Sends, Whole
    <3> QED
      BY <3>3, <3>4, <3>5 DEF Parts
  <2> QED
    BY <2>1, <2>2 DEF TransfersInv
<1>r. refused \subseteq refused'
  BY DEF TransfersNext, FinishUpload, FinishDownload, Incomplete, Discard, tvars
<1>2. ASSUME NEW c \in Calls, Done(c) PROVE TransfersInv'
  <2>1. FreeInv' /\ OldInv' /\ \A d \in Calls \ {c} : Parts(d)'
    BY <1>2, <1>r, Others DEF Done
  <2> QED
    BY <1>2, <2>1 DEF Done, TransfersInv
<1>3. CASE LoseConnection /\ UNCHANGED refused
  BY <1>3, LoseStep
<1>4. ASSUME NEW c \in Calls,
             \/ StartAsyncUpload(c) \/ StartAsyncDownload(c) \/ OpUpload(c) \/ OpUploadMany(c)
             \/ OpDownload(c) \/ Handle(c) \/ Connect(c) \/ CheckOverwrite(c) \/ Create(c)
             \/ CopyBlock(c) \/ FinishUpload(c) \/ FinishDownload(c) \/ OpCancel(c)
             \/ TransferReaper(c) \/ OpRm(c) \/ OpRename(c)
      PROVE  Done(c)
  BY <1>4, <1>r, StartStep, ConnectStep, CheckStep, CreateStep, CopyStep, FinishStep, CancelStep, ReaperStep, RmStep,
     RenameStep
<1> QED
  BY <1>1, <1>2, <1>3, <1>4 DEF TransfersNext

(***************************************************************************)
(* What sftp's transfers keep to, however calls interleave and whenever    *)
(* the connection is lost: the inductive invariant.                        *)
(***************************************************************************)
THEOREM TransfersInvariant == TransfersSpec => []TransfersInv
<1>1. TransfersInv /\ [TransfersNext]_tvars => TransfersInv'
  BY StepInv
<1> QED
  BY <1>1, InitInv, PTL DEF TransfersSpec

\* A step of a transfer starts none but the one it counted.
LEMMA RunStep ==
    ASSUME TransfersInv, [TransfersNext]_tvars
    PROVE  \/ Running' \subseteq Running
           \/ \E c \in Calls : Cardinality(Running) < MaxRunning /\ Running' \subseteq Running \cup {c}
<1> DEFINE Goal == \/ Running' \subseteq Running
                   \/ \E c \in Calls : Cardinality(Running) < MaxRunning /\ Running' \subseteq Running \cup {c}
<1>k. Typed /\ call \in [Calls -> CallRec] /\ listed \subseteq Calls
  BY DEF TransfersInv, Typed
<1>1. ASSUME \A d \in Calls : call'[d].status = "running" => call[d].status = "running",
             listed' \subseteq listed
      PROVE  Goal
  BY <1>1, <1>k DEF Running
<1>2. ASSUME NEW c \in Calls, NEW r, Begin(c, r) PROVE \A d \in Calls \ {c} : call'[d] = call[d]
  BY <1>2, <1>k DEF Begin
<1>3. ASSUME NEW c \in Calls, StartAsyncUpload(c) \/ StartAsyncDownload(c) PROVE Goal
  <2>1. Cardinality(Running) < MaxRunning /\ listed' = listed \cup {c} /\ \A d \in Calls \ {c} : call'[d] = call[d]
    BY <1>2, <1>3 DEF StartAsyncUpload, StartAsyncDownload, AllocateTransferID
  <2> QED
    BY <1>k, <2>1 DEF Running
<1>4. ASSUME NEW c \in Calls, OpUpload(c) \/ OpUploadMany(c) \/ OpDownload(c) \/ Handle(c) PROVE Goal
  <2>1. PICK r : Begin(c, r) /\ UNCHANGED listed
    BY <1>4 DEF OpUpload, OpUploadMany, OpDownload, Handle
  <2>2. c \notin listed /\ \A d \in Calls \ {c} : call'[d] = call[d]
    BY <1>2, <2>1 DEF Begin, TransfersInv, Parts, CallOf
  <2> QED
    BY <1>k, <2>1, <2>2 DEF Running
<1>5. ASSUME NEW c \in Calls, NEW s, End(c, s), s # "running", UNCHANGED listed PROVE Goal
  BY <1>1, <1>5, <1>k DEF End, CallRec
<1>6. ASSUME NEW c \in Calls, Connect(c) PROVE Goal
  <2>1. CASE End(c, "failed")
    BY <1>5, <1>6, <2>1 DEF Connect
  <2>2. CASE call' = [call EXCEPT ![c].link = "up", ![c].pc = IF call[c].op = "rm" THEN "remove" ELSE "check"]
    BY <1>1, <1>6, <1>k, <2>2 DEF Connect, CallRec
  <2> QED
    BY <1>6, <2>1, <2>2 DEF Connect
<1>7. ASSUME NEW c \in Calls, NEW pc, To(c, pc), UNCHANGED listed PROVE Goal
  BY <1>1, <1>7, <1>k DEF To, CallRec
<1>8. ASSUME NEW c \in Calls, CheckOverwrite(c) \/ OpRename(c) PROVE Goal
  BY <1>5, <1>7, <1>8 DEF CheckOverwrite, OpRename
<1>9. ASSUME NEW c \in Calls, Create(c) PROVE Goal
  <2>1. CASE End(c, "failed")
    BY <1>5, <1>9, <2>1 DEF Create
  <2>2. ASSUME NEW n, call' = [call EXCEPT ![c].pc = "copy", ![c].node = n, ![c].pos = 0] PROVE Goal
    BY <1>1, <1>9, <1>k, <2>2 DEF Create, CallRec
  <2> QED
    BY <1>9, <2>1, <2>2 DEF Create
<1>10. ASSUME NEW c \in Calls, CopyBlock(c) PROVE Goal
  <2>1. CASE call' = [call EXCEPT ![c].pc = "finish", ![c].err = TRUE]
    BY <1>1, <1>10, <1>k, <2>1 DEF CopyBlock, CallRec
  <2>2. CASE call' = [call EXCEPT ![c].pos = call[c].pos + 1]
    BY <1>1, <1>10, <1>k, <2>2 DEF CopyBlock, CallRec
  <2> QED
    BY <1>7, <1>10, <2>1, <2>2 DEF CopyBlock
<1>11. ASSUME NEW c \in Calls, NEW s, Discard(c, s), s # "running", UNCHANGED listed PROVE Goal
  BY <1>5, <1>11 DEF Discard
<1>12. ASSUME NEW c \in Calls, NEW sent, UNCHANGED listed,
              call' = [call EXCEPT ![c].pc = "over", ![c].status = "completed", ![c].sent = sent]
       PROVE  Goal
  BY <1>1, <1>12, <1>k DEF CallRec
<1>13. ASSUME NEW c \in Calls, NEW q, NEW rest, NEW sent, UNCHANGED listed,
              call' = [call EXCEPT ![c].pc = "check", ![c].path = q, ![c].rest = rest, ![c].sent = sent]
       PROVE  Goal
  BY <1>1, <1>13, <1>k DEF CallRec
<1>14. ASSUME NEW c \in Calls, FinishUpload(c) \/ FinishDownload(c) PROVE Goal
  BY <1>11, <1>12, <1>13, <1>14 DEF FinishUpload, FinishDownload, Incomplete
<1>15. ASSUME NEW c \in Calls, OpCancel(c) \/ TransferReaper(c) PROVE Goal
  BY <1>1, <1>15, <1>k DEF OpCancel, TransferReaper, CallRec
<1>16. ASSUME NEW c \in Calls, OpRm(c) PROVE Goal
  BY <1>5, <1>16 DEF OpRm
<1>17. CASE LoseConnection
  BY <1>1, <1>17, <1>k DEF LoseConnection, CallRec
<1>18. CASE UNCHANGED tvars
  BY <1>1, <1>18 DEF tvars
<1> QED
  BY <1>3, <1>4, <1>6, <1>8, <1>9, <1>10, <1>14, <1>15, <1>16, <1>17, <1>18 DEF TransfersNext

LEMMA BoundedStep == ASSUME TransfersInv, Bounded, [TransfersNext]_tvars PROVE Bounded'
<1>1. Cardinality(Running) \in Nat
  BY FS_CardinalityType DEF Bounded
<1>2. CASE Running' \subseteq Running
  <2>1. IsFiniteSet(Running') /\ Cardinality(Running') <= Cardinality(Running)
    BY <1>2, FS_Subset DEF Bounded
  <2>2. Cardinality(Running') \in Nat
    BY <2>1, FS_CardinalityType
  <2> QED
    BY <1>1, <2>1, <2>2, TransfersAssumption DEF Bounded
<1>3. ASSUME NEW c \in Calls, Cardinality(Running) < MaxRunning, Running' \subseteq Running \cup {c}
      PROVE  Bounded'
  <2> DEFINE R == Running
             S == Running'
             T == R \cup {c}
  <2>0. IsFiniteSet(R) /\ Cardinality(R) \in Nat /\ Cardinality(R) < MaxRunning /\ S \subseteq T
    BY <1>1, <1>3 DEF Bounded
  <2> HIDE DEF R, S
  <2>1. IsFiniteSet(T)
    BY <2>0, FS_AddElement
  <2>2. Cardinality(T) = IF c \in R THEN Cardinality(R) ELSE Cardinality(R) + 1
    BY <2>0, FS_AddElement, Zenon
  <2> HIDE DEF T
  <2>3. IsFiniteSet(S) /\ Cardinality(S) <= Cardinality(T)
    BY <2>0, <2>1, FS_Subset
  <2>4. Cardinality(T) \in Nat /\ Cardinality(S) \in Nat
    BY <2>1, <2>3, FS_CardinalityType
  <2>5. Cardinality(S) <= MaxRunning
    BY <2>0, <2>2, <2>3, <2>4, TransfersAssumption
  <2> QED
    BY <2>3, <2>5 DEF S, Bounded
<1> QED
  BY <1>2, <1>3, RunStep

(***************************************************************************)
(* What sftp's transfers promise, for any number of calls, names and       *)
(* blocks: at most maxConcurrentTransfers run in the background; a         *)
(* transfer nobody interferes with leaves a whole file when it reports     *)
(* success and no part of one when it does not, unless its removal was     *)
(* tried and failed or the connection to the server that has it was lost;  *)
(* a file that was there is not written without overwrite.                 *)
(***************************************************************************)
THEOREM TransfersAreSafe == TransfersSpec => []TransfersSafe
<1>1. TransfersInit => Bounded
  <2> SUFFICES ASSUME TransfersInit PROVE Bounded
    OBVIOUS
  <2>1. Running = {}
    BY DEF TransfersInit, Running
  <2>2. IsFiniteSet({}) /\ Cardinality({}) = 0
    BY FS_EmptySet
  <2>3. IsFiniteSet(Running) /\ Cardinality(Running) = 0
    BY <2>1, <2>2, Zenon
  <2> QED
    BY <2>3, TransfersAssumption DEF Bounded
<1>2. TransfersInv /\ Bounded /\ [TransfersNext]_tvars => Bounded'
  BY BoundedStep
<1>3. TransfersInv /\ Bounded => TransfersSafe
  <2> SUFFICES ASSUME TransfersInv, Bounded PROVE TransfersSafe
    OBVIOUS
  <2>1. \A c \in Calls : SentOf(c) /\ FailOf(c)
    BY DEF TransfersInv, Parts
  <2>2. ASSUME NEW c \in Calls, Sends(c)
        PROVE  /\ \A p \in call[c].sent : Alone(c, p) => dir[p] # None /\ Whole(dir[p], c)
               /\ call[c].status \in {"failed", "cancelled"} =>
                    \A p \in Claims(c) \ call[c].sent : Alone(c, p) =>
                       dir[p] = None \/ Whole(dir[p], Old) \/ c \in refused \/ (call[c].link = "lost" /\ Remote(p))
    BY <2>1, <2>2 DEF SentOf, FailOf, Fresh
  <2>3. ASSUME NEW p \in OldPaths,
               \A c \in Calls : p \in Claims(c) => p \notin call[c].overwrite /\ call[c].op # "rename"
        PROVE  Whole(p, Old)
    BY <2>3 DEF TransfersInv, OldInv, Unmoved, Spared
  <2> QED
    BY <2>2, <2>3 DEF TransfersSafe, Bounded
<1> QED
  BY <1>1, <1>2, <1>3, TransfersInvariant, PTL DEF TransfersSpec
=============================================================================
