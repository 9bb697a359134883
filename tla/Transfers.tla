----------------------------- MODULE Transfers ------------------------------
(***************************************************************************)
(* sftp: transfers and the remote operations that race with them           *)
(* (tools/sftp).  A call is an upload or a download, in the background     *)
(* (listed under an id, can be cancelled) or not, a removal or a rename.   *)
(* Files are written in place, block by block: a name leads to a node, and *)
(* a node keeps, for every block, the call that wrote it.  The connection  *)
(* is one for all calls; it can be lost at any time, and a later call      *)
(* dials again.                                                            *)
(***************************************************************************)
EXTENDS Naturals, FiniteSets

CONSTANTS Calls,       \* calls of the tool
          RemotePaths, \* names on the server
          LocalPaths,  \* names on this machine
          OldPaths,    \* names that lead to a file at the beginning
          Blocks,      \* blocks of every file that is sent
          MaxRunning,  \* maxConcurrentTransfers
          None         \* no name, node or call

ASSUME TransfersAssumption ==
    /\ RemotePaths \cap LocalPaths = {} /\ OldPaths \subseteq RemotePaths \cup LocalPaths
    /\ Blocks \in Nat \ {0} /\ MaxRunning \in Nat \ {0}

VARIABLES call,    \* what each call is and where it stands
          listed,  \* transfers.m: the background transfers a status can name
          dir,     \* the node a name leads to
          data,    \* the blocks of a node
          refused  \* history: transfers that could not remove what they had not completed
tvars == <<call, listed, dir, data, refused>>

Paths == RemotePaths \cup LocalPaths
Nodes == (Calls \X Paths) \cup OldPaths
Old   == "old"

\* the names of the model are told apart
ASSUME NodesAssumption ==
    /\ None \notin Calls \cup Paths \cup Nodes \cup {Old} /\ Old \notin Calls
    /\ OldPaths \cap (Calls \X Paths) = {}

Empty == [b \in 1 .. Blocks |-> None]
Whole(n, w) == data[n] = [b \in 1 .. Blocks |-> w]

Unused == [op |-> "none", async |-> FALSE, path |-> None, to |-> None, rest |-> {}, sent |-> {},
           node |-> None, overwrite |-> {}, pc |-> "idle", pos |-> 0, err |-> FALSE,
           cancelled |-> FALSE, link |-> "none", status |-> "none"]

TransfersInit ==
    /\ call = [c \in Calls |-> Unused] /\ listed = {} /\ refused = {}
    /\ dir = [p \in Paths |-> IF p \in OldPaths THEN p ELSE None]
    /\ data = [n \in Nodes |-> IF n \in OldPaths THEN [b \in 1 .. Blocks |-> Old] ELSE Empty]

To(c, pc)      == call' = [call EXCEPT ![c].pc = pc]
End(c, status) == call' = [call EXCEPT ![c].pc = "over", ![c].status = status]

\* the server does not answer over a connection that is lost
Remote(p)    == p \in RemotePaths
Reaches(c, p) == Remote(p) => call[c].link = "up"
Unlink(c, p) == Reaches(c, p) /\ dir' = [dir EXCEPT ![p] = None]

(***************************************************************************)
(* Beginning                                                               *)
(***************************************************************************)
Running == {c \in listed : call[c].status = "running"}

\* the running entries are counted and the new one is listed under one lock
AllocateTransferID_OneMore(c) == Cardinality(Running) <= MaxRunning /\ listed' = listed \cup {c}
AllocateTransferID(c) == Cardinality(Running) < MaxRunning /\ listed' = listed \cup {c}

Begin(c, request) ==
    /\ call[c].pc = "idle"
    /\ call' = [call EXCEPT ![c] = [request EXCEPT !.pc = "connect", !.status = "running"]]
    /\ UNCHANGED <<dir, data>>

\* In the background; a download has looked at the remote file before, over
\* a connection of its own.
StartAsyncUpload(c) == \E p \in RemotePaths : \E ow \in SUBSET {p} :
    /\ AllocateTransferID(c)
    /\ Begin(c, [Unused EXCEPT !.op = "upload", !.async = TRUE, !.path = p, !.overwrite = ow])
StartAsyncDownload(c) == \E p \in LocalPaths : \E ow \in SUBSET {p} :
    /\ AllocateTransferID(c)
    /\ Begin(c, [Unused EXCEPT !.op = "download", !.async = TRUE, !.path = p, !.overwrite = ow])

\* one file, or several over one session, each with a leave to overwrite or not
OpUpload(c) == \E p \in RemotePaths : \E ow \in SUBSET {p} :
    /\ Begin(c, [Unused EXCEPT !.op = "upload", !.path = p, !.overwrite = ow])
    /\ UNCHANGED listed
OpUploadMany(c) == \E p, q \in RemotePaths : \E ow \in SUBSET {p, q} :
    /\ p # q /\ Begin(c, [Unused EXCEPT !.op = "upload", !.path = p, !.rest = {q}, !.overwrite = ow])
    /\ UNCHANGED listed
OpDownload(c) == \E p \in LocalPaths : \E ow \in SUBSET {p} :
    /\ Begin(c, [Unused EXCEPT !.op = "download", !.path = p, !.overwrite = ow])
    /\ UNCHANGED listed
Handle(c) == \E p, q \in RemotePaths : \E ow \in SUBSET {q} :
    /\ \/ Begin(c, [Unused EXCEPT !.op = "rm", !.path = p])
       \/ Begin(c, [Unused EXCEPT !.op = "rename", !.path = p, !.to = q, !.overwrite = ow])
    /\ UNCHANGED listed

\* ssh.GetClient and NewClient: the connection, or the end of the call
Connect(c) ==
    /\ call[c].pc = "connect"
    /\ \/ call' = [call EXCEPT ![c].link = "up", ![c].pc = IF call[c].op = "rm" THEN "remove" ELSE "check"]
       \/ End(c, "failed")
    /\ UNCHANGED <<listed, dir, data>>

LoseConnection ==
    /\ \E c \in Calls : call[c].link = "up" /\ call[c].pc # "over"
    /\ call' = [c \in Calls |-> IF call[c].link = "up" THEN [call[c] EXCEPT !.link = "lost"] ELSE call[c]]
    /\ UNCHANGED <<listed, dir, data>>

(***************************************************************************)
(* Uploads and downloads, in the background or not                         *)
(***************************************************************************)
\* a Stat that fails counts as a name that is free
Exists(c, p) == Reaches(c, p) /\ dir[p] # None

CheckOverwrite_Skip(c) ==
    /\ call[c].pc = "check" /\ call[c].op \in {"upload", "download"}
    /\ To(c, "create")
    /\ UNCHANGED <<listed, dir, data>>
CheckOverwrite(c) ==
    /\ call[c].pc = "check" /\ call[c].op \in {"upload", "download"}
    /\ IF call[c].path \notin call[c].overwrite /\ Exists(c, call[c].path) THEN End(c, "failed") ELSE To(c, "create")
    /\ UNCHANGED <<listed, dir, data>>

\* The source is opened, then the destination: an existing file loses its
\* blocks, a new node takes the name otherwise.  Over a lost connection
\* neither a remote source nor a remote destination opens; but the server may have
\* carried out a request whose answer was lost, and then nobody removes the file.
Create(c) ==
    LET p == call[c].path  n == IF dir[p] = None THEN <<c, p>> ELSE dir[p]
    IN /\ call[c].pc = "create"
       /\ \/ /\ call[c].link = "up"
             /\ dir' = [dir EXCEPT ![p] = n] /\ data' = [data EXCEPT ![n] = Empty]
             /\ call' = [call EXCEPT ![c].pc = "copy", ![c].node = n, ![c].pos = 0]
          \/ /\ call[c].link = "lost" /\ Remote(p) /\ (p \in call[c].overwrite \/ dir[p] = None)
             /\ dir' = [dir EXCEPT ![p] = n] /\ data' = [data EXCEPT ![n] = Empty]
             /\ End(c, "failed")
          \/ End(c, "failed") /\ UNCHANGED <<dir, data>>
       /\ UNCHANGED listed

\* one turn of copyWithCancel, or of io.Copy: a cancelled context is noticed
\* before a block; a block or the end of the source needs the connection
CopyBlock(c) ==
    LET k == call[c]
        fails == call' = [call EXCEPT ![c].pc = "finish", ![c].err = TRUE] /\ UNCHANGED data
    IN /\ call[c].pc = "copy"
       /\ IF k.async /\ k.cancelled THEN fails
          ELSE \/ k.pos < Blocks /\ k.link = "up"
                     /\ data' = [data EXCEPT ![k.node][k.pos + 1] = c]
                     /\ call' = [call EXCEPT ![c].pos = k.pos + 1]
               \/ k.pos < Blocks /\ fails
               \/ k.pos = Blocks /\ (k.op = "download" => k.link = "up") /\ To(c, "finish") /\ UNCHANGED data
               \/ k.pos = Blocks /\ k.op = "download" /\ fails
       /\ UNCHANGED <<listed, dir>>

\* Under the lock of the entry: what is not complete is removed by its name; a
\* removal that fails, for whatever reason, is ignored.
Discard(c, status) ==
    /\ End(c, status)
    /\ \/ Unlink(c, call[c].path) /\ UNCHANGED refused
       \/ UNCHANGED dir /\ refused' = refused \cup {c}
Incomplete(c) ==
    LET k == call[c]
    IN \/ k.async /\ k.cancelled /\ Discard(c, "cancelled")
       \/ ~(k.async /\ k.cancelled) /\ k.err /\ Discard(c, "failed")

\* the next of several files follows in the same session
FinishUpload_Keep(c) ==
    /\ call[c].pc = "finish" /\ call[c].op = "upload"
    /\ End(c, IF call[c].err THEN "failed" ELSE "completed")
    /\ UNCHANGED <<listed, dir, data, refused>>
FinishUpload(c) ==
    LET k == call[c]
    IN /\ k.pc = "finish" /\ k.op = "upload"
       /\ \/ Incomplete(c)
          \/ /\ ~k.err /\ ~(k.async /\ k.cancelled) /\ UNCHANGED <<dir, refused>>
             /\ IF k.rest = {}
                THEN call' = [call EXCEPT ![c].pc = "over", ![c].status = "completed",
                                          ![c].sent = k.sent \cup {k.path}]
                ELSE \E q \in k.rest :
                        call' = [call EXCEPT ![c].pc = "check", ![c].path = q, ![c].rest = k.rest \ {q},
                                             ![c].sent = k.sent \cup {k.path}]
       /\ UNCHANGED <<listed, data>>

\* closing the local file may fail
FinishDownload(c) ==
    LET k == call[c]
    IN /\ k.pc = "finish" /\ k.op = "download"
       /\ \/ Incomplete(c)
          \/ ~k.err /\ ~(k.async /\ k.cancelled) /\ Discard(c, "failed")
          \/ /\ ~k.err /\ ~(k.async /\ k.cancelled) /\ UNCHANGED <<dir, refused>>
             /\ call' = [call EXCEPT ![c].pc = "over", ![c].status = "completed", ![c].sent = {k.path}]
       /\ UNCHANGED <<listed, data>>

\* the status is read and the context cancelled after it: too late when the
\* transfer is over by then
OpCancel(c) ==
    /\ c \in Running
    /\ call' = [call EXCEPT ![c].cancelled = TRUE]
    /\ UNCHANGED <<listed, dir, data>>

\* an hour after the end
TransferReaper(c) ==
    /\ c \in listed /\ call[c].status # "running"
    /\ listed' = listed \ {c}
    /\ UNCHANGED <<call, dir, data>>

(***************************************************************************)
(* Remote operations                                                       *)
(***************************************************************************)
OpRm(c) ==
    /\ call[c].pc = "remove"
    /\ \/ Exists(c, call[c].path) /\ End(c, "completed") /\ Unlink(c, call[c].path)
       \/ End(c, "failed") /\ UNCHANGED dir
    /\ UNCHANGED <<listed, data>>

\* the source must exist, the new name must be free, and then the rename, which
\* the server may refuse as it may a removal
OpRename(c) ==
    LET k == call[c]  free == k.to \in k.overwrite \/ ~Exists(c, k.to)
    IN \/ /\ k.pc = "check" /\ k.op = "rename"
          /\ IF Exists(c, k.path) /\ free THEN To(c, "rename") ELSE End(c, "failed")
          /\ UNCHANGED <<listed, dir, data>>
       \/ /\ k.pc = "rename"
          /\ \/ /\ Exists(c, k.path) /\ End(c, "completed")
                /\ dir' = [dir EXCEPT ![k.path] = IF k.to = k.path THEN @ ELSE None, ![k.to] = dir[k.path]]
             \/ End(c, "failed") /\ UNCHANGED dir
          /\ UNCHANGED <<listed, data>>

TransfersNext ==
    \/ LoseConnection /\ UNCHANGED refused
    \/ \E c \in Calls :
          \/ FinishUpload(c) \/ FinishDownload(c)
          \/ /\ \/ StartAsyncUpload(c) \/ StartAsyncDownload(c) \/ OpUpload(c) \/ OpUploadMany(c)
                \/ OpDownload(c) \/ Handle(c) \/ Connect(c) \/ CheckOverwrite(c) \/ Create(c)
                \/ CopyBlock(c) \/ OpCancel(c) \/ TransferReaper(c) \/ OpRm(c) \/ OpRename(c)
             /\ UNCHANGED refused

TransfersSpec == TransfersInit /\ [][TransfersNext]_tvars

(***************************************************************************)
(* Properties                                                              *)
(***************************************************************************)
Sends(c) == call[c].op \in {"upload", "download"}

\* the names a call deals with; whether no other call deals with one of them
Claims(c) == ({call[c].path, call[c].to} \cup call[c].rest \cup call[c].sent) \ {None}
Alone(c, p) == \A d \in Calls \ {c} : p \notin Claims(d)

\* What the transfers promise (transfer.go, operations.go).  At most
\* MaxRunning run in the background, however their starts interleave.  A
\* transfer no other call interferes with leaves a whole file when it reports
\* success; when it is over otherwise, no part of a file is left under the
\* name, unless its removal was tried and failed, or the connection to the
\* server that has it was lost.  A file that was there, and is not moved, keeps
\* its content when no call on it says overwrite.
TransfersSafe ==
    /\ Cardinality(Running) <= MaxRunning
    /\ \A c \in Calls : Sends(c) =>
         /\ \A p \in call[c].sent : Alone(c, p) => dir[p] # None /\ Whole(dir[p], c)
         /\ call[c].status \in {"failed", "cancelled"} =>
              \A p \in Claims(c) \ call[c].sent : Alone(c, p) =>
                 \/ dir[p] = None \/ Whole(dir[p], Old)
                 \/ c \in refused \/ (call[c].link = "lost" /\ Remote(p))
    /\ \A p \in OldPaths :
         (\A c \in Calls : p \in Claims(c) => p \notin call[c].overwrite /\ call[c].op # "rename") =>
            Whole(p, Old)
=============================================================================
