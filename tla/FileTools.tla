------------------------------ MODULE FileTools ------------------------------
(***************************************************************************)
(* The tools that change files (edit, multiedit, write, patch,             *)
(* regex_replace on one file, convert_encoding, copy, rename, delete), run *)
(* concurrently over one file system, and the file functions of            *)
(* common/fileutil.go they share.  No lock protects a file: a call reads,  *)
(* works on its own copy, and replaces the file by renaming a temporary    *)
(* one over it, or writes it in place when that fails.                     *)
(*                                                                         *)
(* A path leads to an inode, so that a call that holds a file open keeps   *)
(* it when the path is taken over by another file.  A call creates at most *)
(* one file at a time, whose inode is named after it; the file a path has  *)
(* at the beginning is named after the path.  A text is a sequence of      *)
(* tokens, each a fragment or line in which non-ASCII characters occur.    *)
(***************************************************************************)
EXTENDS Integers, Sequences, FiniteSets

CONSTANTS Calls, Paths,
          Tokens,    \* fragments of text
          Wide,      \* the tokens a legacy charset cannot represent
          Garbage,   \* what bytes of a legacy charset become when re-encoded as UTF-8
          NoFile, NoOp,
          Ops,       \* the requests clients may send
          FirstFiles \* what each path may lead to at the beginning

Charsets == {"UTF-8", "UTF-16LE", "legacy"}
Modes    == {"0600", "0644", "0755"}
Text     == Seq(Tokens \cup {Garbage})
Tools    == {"edit", "multiedit", "write", "patch", "regex_replace", "convert_encoding",
             "copy", "rename", "delete"}
Changers == {"edit", "multiedit", "write", "patch", "regex_replace", "convert_encoding"}

\* A file: its text, how that is encoded, its permissions, and whether all of
\* what its last writer meant to write is there.
File == [text: Text, charset: Charsets, bom: BOOLEAN, mode: Modes, whole: BOOLEAN]

EditOp == [old: Tokens, new: Tokens, replaceAll: BOOLEAN]
Hunk   == [srcStart: Nat, del: Seq(Tokens), add: Seq(Tokens)]

\* A request.  edits has one element for edit and regex_replace; a hunk removes
\* at least one line (a line of context is removed and added).
\* guard: expected_hash is given (edit), overwrite is false (copy).
Op == [tool: Tools, path: Paths, dst: Paths, edits: Seq(EditOp), hunks: Seq(Hunk),
       text: Seq(Tokens), charset: Charsets, bom: BOOLEAN, dry: BOOLEAN, guard: BOOLEAN]

ASSUME FileAssumption ==
    /\ Calls \cap Paths = {} /\ NoFile \notin Calls \cup Paths
    /\ Wide \subseteq Tokens /\ Garbage \notin Tokens /\ NoOp \notin Ops
    /\ \A o \in Ops :
          /\ o \in Op
          /\ o.tool = "multiedit" => o.edits # <<>>
          /\ o.tool \in {"edit", "regex_replace"} => Len(o.edits) = 1
          /\ o.tool = "patch" => o.hunks # <<>>
          /\ o.tool \in {"copy", "rename"} => o.path # o.dst
          /\ \A i \in DOMAIN o.hunks : o.hunks[i].del # <<>>
          /\ o.bom => o.charset = "UTF-8"
    /\ \A f \in FirstFiles : f \in File /\ f.whole /\ (f.bom => f.charset # "legacy")

VARIABLES
    dir,     \* dir[p]: the inode path p leads to, or NoFile
    inode,   \* inode[i]: the file itself
    tmp,     \* calls whose temporary file (inode of the same name) exists
    pc, op,  \* where a call is and what was asked of it
    want,    \* the content whose hash the client gave as expected_hash
    seen,    \* the file as the call read it
    buf,     \* the text the call works on, with the EncodingInfo and mode to write
    fd,      \* the inode a call holds open
    direct,  \* calls that fell back to writing the file in place
    changed  \* calls that changed what a path leads to or what it contains

fsVars == <<dir, inode, tmp>>
vars   == <<fsVars, pc, op, want, seen, buf, fd, direct, changed>>

Inodes == Calls \cup Paths
Ended  == {"ok", "error", "dead"}
Steps  == {"idle", "stat", "hash", "read", "apply", "perm", "temp", "fill", "rename",
           "truncate", "inplace", "copyDst", "copyOpen", "copyFill", "copyRename",
           "moveDst", "move", "recheck", "remove"} \cup Ended

\* What a call works on.  raw: the bytes are of a legacy charset that was not
\* recognised and are carried along undecoded.  n: edits or hunks done.
Buffer == [text: Text, charset: Charsets, bom: BOOLEAN, raw: BOOLEAN, n: Nat, perm: Modes]

TypeOK ==
    /\ dir \in [Paths -> Inodes \cup {NoFile}]
    /\ inode \in [Inodes -> File]
    /\ tmp \subseteq Calls
    /\ pc \in [Calls -> Steps]
    /\ op \in [Calls -> Ops \cup {NoOp}]
    /\ \A c \in Calls : pc[c] # "idle" => op[c] \in Ops
    /\ want \in [Calls -> File]
    /\ seen \in [Calls -> File]
    /\ buf \in [Calls -> Buffer]
    /\ fd \in [Calls -> Inodes \cup {NoFile}]
    /\ \A c \in Calls : pc[c] \in {"inplace", "copyFill"} => fd[c] \in Inodes
    /\ direct \subseteq Calls /\ changed \subseteq Calls

EmptyFile == [text |-> <<>>, charset |-> "UTF-8", bom |-> FALSE, mode |-> "0600", whole |-> FALSE]
EmptyBuf  == [text |-> <<>>, charset |-> "UTF-8", bom |-> FALSE, raw |-> FALSE, n |-> 0,
              perm |-> "0644"]

Init ==
    /\ \E first \in [Paths -> FirstFiles \cup {NoFile}] :
          /\ dir = [p \in Paths |-> IF first[p] = NoFile THEN NoFile ELSE p]
          /\ inode = [i \in Inodes |-> IF i \in Paths /\ first[i] # NoFile
                                       THEN first[i] ELSE EmptyFile]
    /\ tmp = {}
    /\ pc = [c \in Calls |-> "idle"]
    /\ op = [c \in Calls |-> NoOp]
    /\ want = [c \in Calls |-> EmptyFile]
    /\ seen = [c \in Calls |-> EmptyFile]
    /\ buf = [c \in Calls |-> EmptyBuf]
    /\ fd = [c \in Calls |-> NoFile]
    /\ direct = {} /\ changed = {}

Exists(p)     == dir[p] # NoFile
At(p)         == inode[dir[p]]
\* What ComputeFileHash tells apart: the bytes, not the mode.
Bytes(f)      == <<f.text, f.charset, f.bom>>
Goto(c, step) == pc' = [pc EXCEPT ![c] = step]
Is(c, tools)  == op[c].tool \in tools
-----------------------------------------------------------------------------
(***************************************************************************)
(* Reading and encoding                                                    *)
(***************************************************************************)

\* Mutant of ReadFileWithEncoding: the BOM is stripped and not recorded.
ReadFileWithEncoding_ForgetsBOM(f) ==
    {[text |-> f.text, charset |-> f.charset, bom |-> FALSE, raw |-> FALSE]}

\* The results of reading file f.  A BOM, the NULs of UTF-16 and valid UTF-8
\* are recognised; a legacy charset by an .editorconfig hint or by chardet, or
\* not at all: then the bytes are taken for UTF-8 as they are.
ReadFileWithEncoding(f) ==
    LET known == [text |-> f.text, charset |-> f.charset, bom |-> f.bom, raw |-> FALSE]
    IN  IF f.charset = "legacy"
        THEN {known, [known EXCEPT !.charset = "UTF-8", !.raw = TRUE]}
        ELSE {known}

\* encodeString: a legacy charset has no bytes for some characters, and none
\* for bytes that were never decoded.
Encodable(b) == b.charset = "legacy" => ~b.raw /\ \A i \in DOMAIN b.text : b.text[i] \in Tokens \ Wide

\* The file with permissions m that the buffer b is written as.  Undecoded
\* bytes survive as UTF-8 without a BOM and nothing else.
Encoded(b, m) ==
    LET kept == b.raw /\ b.charset = "UTF-8" /\ ~b.bom
    IN  [text    |-> IF b.raw /\ ~kept THEN [i \in DOMAIN b.text |-> Garbage] ELSE b.text,
         charset |-> IF b.text = <<>> /\ ~b.bom THEN "UTF-8" ELSE IF kept THEN "legacy" ELSE b.charset,
         bom     |-> b.bom,
         mode    |-> m,
         whole   |-> TRUE]

-----------------------------------------------------------------------------
(***************************************************************************)
(* A request, and the checks before the file is read                       *)
(***************************************************************************)

\* The client's expected_hash is that of the file as it is now.
Begin(c, o) ==
    /\ pc[c] = "idle"
    /\ op' = [op EXCEPT ![c] = o]
    /\ want' = IF Exists(o.path) THEN [want EXCEPT ![c] = At(o.path)] ELSE want
    /\ Goto(c, IF o.tool = "patch" THEN "read" ELSE "stat")
    /\ UNCHANGED <<fsVars, seen, buf, fd, direct, changed>>

NotFound(c) ==
    /\ pc[c] = "stat"
    /\ ~Is(c, {"write"})
    /\ ~Exists(op[c].path)
    /\ Goto(c, "error")
    /\ UNCHANGED <<fsVars, op, want, seen, buf, fd, direct, changed>>

Found(c) ==
    /\ pc[c] = "stat"
    /\ Is(c, Changers)
    /\ Exists(op[c].path)
    /\ Goto(c, IF Is(c, {"edit"}) /\ op[c].guard THEN "hash" ELSE "read")
    /\ UNCHANGED <<fsVars, op, want, seen, buf, fd, direct, changed>>

HashCheck(c) ==
    /\ pc[c] = "hash"
    /\ Goto(c, IF Exists(op[c].path) /\ Bytes(At(op[c].path)) = Bytes(want[c]) THEN "read" ELSE "error")
    /\ UNCHANGED <<fsVars, op, want, seen, buf, fd, direct, changed>>

\* write to a path without a file: the charset is the hint's, or UTF-8.
NewFile(c) ==
    /\ pc[c] = "stat"
    /\ Is(c, {"write"})
    /\ ~Exists(op[c].path)
    /\ \E cs \in Charsets :
          buf' = [buf EXCEPT ![c] = [EmptyBuf EXCEPT !.text = op[c].text, !.charset = cs]]
    /\ Goto(c, "perm")
    /\ UNCHANGED <<fsVars, op, want, seen, fd, direct, changed>>

\* The file has gone, or is too large, or cannot be read: write goes on in
\* UTF-8, everything else reports the error.
ReadFails(c) ==
    /\ pc[c] = "read"
    /\ buf' = IF Is(c, {"write"}) THEN [buf EXCEPT ![c] = [EmptyBuf EXCEPT !.text = op[c].text]]
                                  ELSE buf
    /\ Goto(c, IF Is(c, {"write"}) THEN "perm" ELSE "error")
    /\ UNCHANGED <<fsVars, op, want, seen, fd, direct, changed>>

\* write keeps the encoding and drops the text.
Read(c) ==
    /\ pc[c] = "read"
    /\ Exists(op[c].path)
    /\ seen' = [seen EXCEPT ![c] = At(op[c].path)]
    /\ \E r \in ReadFileWithEncoding(At(op[c].path)) :
          buf' = [buf EXCEPT ![c] =
                    [EmptyBuf EXCEPT !.text    = IF Is(c, {"write"}) THEN op[c].text ELSE r.text,
                                     !.charset = r.charset,
                                     !.bom     = r.bom,
                                     !.raw     = r.raw /\ ~Is(c, {"write"})]]
    /\ Goto(c, IF Is(c, {"write"}) THEN "perm" ELSE "apply")
    /\ UNCHANGED <<fsVars, op, want, fd, direct, changed>>

-----------------------------------------------------------------------------
(***************************************************************************)
(* The change, made in memory                                              *)
(***************************************************************************)
Matches(b, t)     == IF b.raw THEN {} ELSE {i \in DOMAIN b.text : b.text[i] = t}
Replaced(s, e)    == [i \in DOMAIN s |-> IF s[i] = e.old THEN e.new ELSE s[i]]

\* Replace: <<the new text>>, or <<>> when old_string is missing or ambiguous.
Replace(b, e) ==
    LET m == Matches(b, e.old)
    IN  IF m = {} \/ (~e.replaceAll /\ Cardinality(m) > 1) THEN <<>> ELSE <<Replaced(b.text, e)>>

\* The lines of a hunk are all there, from its start on.
HunkFits(b, h) ==
    /\ ~b.raw /\ h.srcStart > 0
    /\ h.srcStart + Len(h.del) <= Len(b.text) + 1
    /\ \A i \in DOMAIN h.del : b.text[h.srcStart + i - 1] = h.del[i]

\* One hunk: its removed lines make room for its added ones.
ApplyHunk(s, h) ==
    SubSeq(s, 1, h.srcStart - 1) \o h.add \o SubSeq(s, h.srcStart + Len(h.del), Len(s))

\* Mutant of AfterLast: dry_run is not looked at.
AfterLast_NoDryRun(c) == "perm"

\* dry_run ends a call when its change is known.
AfterLast(c) == IF op[c].dry THEN "ok" ELSE "perm"

\* edit has one edit, multiedit several; the first that fails ends the call.
ApplyEdit(c) ==
    /\ pc[c] = "apply"
    /\ Is(c, {"edit", "multiedit"})
    /\ LET n == buf[c].n + 1
           r == Replace(buf[c], op[c].edits[n])
       IN  /\ n \in DOMAIN op[c].edits
           /\ buf' = IF r = <<>> THEN buf ELSE [buf EXCEPT ![c] = [@ EXCEPT !.text = r[1], !.n = n]]
           /\ Goto(c, IF r = <<>> THEN "error"
                      ELSE IF n = Len(op[c].edits) THEN AfterLast(c) ELSE "apply")
    /\ UNCHANGED <<fsVars, op, want, seen, fd, direct, changed>>

\* The hunks of a patch are applied from the last to the first.
ApplyPatch(c) ==
    /\ pc[c] = "apply"
    /\ Is(c, {"patch"})
    /\ LET n == buf[c].n + 1
           h == op[c].hunks[Len(op[c].hunks) + 1 - n]
       IN  /\ n \in DOMAIN op[c].hunks
           /\ buf' = IF HunkFits(buf[c], h)
                     THEN [buf EXCEPT ![c] = [@ EXCEPT !.text = ApplyHunk(buf[c].text, h), !.n = n]]
                     ELSE buf
           /\ Goto(c, IF ~HunkFits(buf[c], h) THEN "error"
                      ELSE IF n = Len(op[c].hunks) THEN AfterLast(c) ELSE "apply")
    /\ UNCHANGED <<fsVars, op, want, seen, fd, direct, changed>>

\* regex_replace: every match; none is no error, and nothing is written.
ApplyRegex(c) ==
    /\ pc[c] = "apply"
    /\ Is(c, {"regex_replace"})
    /\ LET e == op[c].edits[1]
       IN  /\ buf' = [buf EXCEPT ![c].text = IF buf[c].raw THEN @ ELSE Replaced(@, e)]
           /\ Goto(c, IF Matches(buf[c], e.old) = {} THEN "ok" ELSE AfterLast(c))
    /\ UNCHANGED <<fsVars, op, want, seen, fd, direct, changed>>

\* convert_encoding: nothing is written when the file is in the target encoding.
Convert(c) ==
    /\ pc[c] = "apply"
    /\ Is(c, {"convert_encoding"})
    /\ buf' = [buf EXCEPT ![c] = [@ EXCEPT !.charset = op[c].charset, !.bom = op[c].bom]]
    /\ Goto(c, IF buf[c].charset = op[c].charset /\ buf[c].bom = op[c].bom THEN "ok" ELSE "perm")
    /\ UNCHANGED <<fsVars, op, want, seen, fd, direct, changed>>

-----------------------------------------------------------------------------
(***************************************************************************)
(* WriteFileWithEncoding                                                   *)
(***************************************************************************)

\* The permissions of the file there is, and the bytes to write, if the
\* charset has them.
StatPerm(c) ==
    /\ pc[c] = "perm"
    /\ buf' = [buf EXCEPT ![c].perm = IF Exists(op[c].path) THEN At(op[c].path).mode ELSE "0644"]
    /\ Goto(c, IF Encodable(buf[c]) THEN "temp" ELSE "error")
    /\ UNCHANGED <<fsVars, op, want, seen, fd, direct, changed>>

CreateTemp(c) ==
    /\ pc[c] = "temp"
    /\ tmp' = tmp \cup {c}
    /\ inode' = [inode EXCEPT ![c] = EmptyFile]
    /\ Goto(c, "fill")
    /\ UNCHANGED <<dir, op, want, seen, buf, fd, direct, changed>>

\* No temporary file can be created in the directory: write in place.
CreateTempFails(c) ==
    /\ pc[c] = "temp"
    /\ direct' = direct \cup {c}
    /\ Goto(c, "truncate")
    /\ UNCHANGED <<fsVars, op, want, seen, buf, fd, changed>>

\* Mutant of FillTemp: a short write goes unnoticed.
FillTemp_ErrorIgnored(c) ==
    /\ pc[c] = "fill"
    /\ \E h \in {inode[c], Encoded(buf[c], buf[c].perm)} : inode' = [inode EXCEPT ![c] = h]
    /\ Goto(c, "rename")
    /\ UNCHANGED <<dir, tmp, op, want, seen, buf, fd, direct, changed>>

\* Write, Close, Chmod.  A failure of Chmod is ignored.
FillTemp(c) ==
    /\ pc[c] = "fill"
    /\ \E m \in {buf[c].perm, "0600"} : inode' = [inode EXCEPT ![c] = Encoded(buf[c], m)]
    /\ Goto(c, "rename")
    /\ UNCHANGED <<dir, tmp, op, want, seen, buf, fd, direct, changed>>

\* Mutant of FillTempFails: the temporary file is left behind.
FillTempFails_NoRemove(c) ==
    /\ pc[c] \in {"fill", "copyFill"}
    /\ Goto(c, "error")
    /\ UNCHANGED <<fsVars, op, want, seen, buf, fd, direct, changed>>

\* Write or Close (or, in copy, Chmod) fails: the temporary file is removed.
FillTempFails(c) ==
    /\ pc[c] \in {"fill", "copyFill"}
    /\ tmp' = tmp \ {c}
    /\ Goto(c, "error")
    /\ UNCHANGED <<dir, inode, op, want, seen, buf, fd, direct, changed>>

Rename(c) ==
    /\ pc[c] = "rename"
    /\ dir' = [dir EXCEPT ![op[c].path] = c]
    /\ tmp' = tmp \ {c}
    /\ changed' = changed \cup {c}
    /\ Goto(c, "ok")
    /\ UNCHANGED <<inode, op, want, seen, buf, fd, direct>>

RenameFails(c) ==
    /\ pc[c] = "rename"
    /\ tmp' = tmp \ {c}
    /\ direct' = direct \cup {c}
    /\ Goto(c, "truncate")
    /\ UNCHANGED <<dir, inode, op, want, seen, buf, fd, changed>>

\* os.WriteFile opens and truncates the file, or creates it, ...
Truncate(c) ==
    LET p == op[c].path
        i == IF Exists(p) THEN dir[p] ELSE c
    IN  /\ pc[c] = "truncate"
        /\ dir' = [dir EXCEPT ![p] = i]
        /\ inode' = [inode EXCEPT ![i] = [EmptyFile EXCEPT !.mode =
                                             IF Exists(p) THEN inode[i].mode ELSE buf[c].perm]]
        /\ fd' = [fd EXCEPT ![c] = i]
        /\ changed' = changed \cup {c}
        /\ Goto(c, "inplace")
        /\ UNCHANGED <<tmp, op, want, seen, buf, direct>>

\* ... then writes from its start: over what another such write has put there,
\* of which a longer tail remains.
Overlay(f, g) ==
    IF Len(f.text) <= Len(g.text) THEN g
    ELSE [g EXCEPT !.text = g.text \o SubSeq(f.text, Len(g.text) + 1, Len(f.text)), !.whole = FALSE]

WriteInPlace(c) ==
    /\ pc[c] = "inplace"
    /\ inode' = [inode EXCEPT ![fd[c]] = Overlay(@, Encoded(buf[c], @.mode))]
    /\ Goto(c, "ok")
    /\ UNCHANGED <<dir, tmp, op, want, seen, buf, fd, direct, changed>>

\* The file cannot be opened, or the write fails half-way.
WriteInPlaceFails(c) ==
    /\ pc[c] \in {"truncate", "inplace"}
    /\ Goto(c, "error")
    /\ UNCHANGED <<fsVars, op, want, seen, buf, fd, direct, changed>>

-----------------------------------------------------------------------------
(***************************************************************************)
(* copy (of a file), rename, delete                                        *)
(***************************************************************************)

\* Lstat of the source: its permissions are those the copy will have.
CopyStat(c) ==
    /\ pc[c] = "stat"
    /\ Is(c, {"copy"})
    /\ Exists(op[c].path)
    /\ buf' = [buf EXCEPT ![c].perm = At(op[c].path).mode]
    /\ Goto(c, "copyDst")
    /\ UNCHANGED <<fsVars, op, want, seen, fd, direct, changed>>

CopyCheckDst(c) ==
    /\ pc[c] = "copyDst"
    /\ Goto(c, IF op[c].guard /\ Exists(op[c].dst) THEN "error"
               ELSE IF op[c].dry THEN "ok" ELSE "copyOpen")
    /\ UNCHANGED <<fsVars, op, want, seen, buf, fd, direct, changed>>

\* Open the source and create the temporary file beside the destination.
CopyOpen(c) ==
    /\ pc[c] = "copyOpen"
    /\ Exists(op[c].path)
    /\ fd' = [fd EXCEPT ![c] = dir[op[c].path]]
    /\ tmp' = tmp \cup {c}
    /\ inode' = [inode EXCEPT ![c] = EmptyFile]
    /\ Goto(c, "copyFill")
    /\ UNCHANGED <<dir, op, want, seen, buf, direct, changed>>

CopyOpenFails(c) ==
    /\ pc[c] = "copyOpen"
    /\ Goto(c, "error")
    /\ UNCHANGED <<fsVars, op, want, seen, buf, fd, direct, changed>>

\* io.Copy from the open source, Close, Chmod.
CopyFill(c) ==
    /\ pc[c] = "copyFill"
    /\ inode' = [inode EXCEPT ![c] = [inode[fd[c]] EXCEPT !.mode = buf[c].perm]]
    /\ Goto(c, "copyRename")
    /\ UNCHANGED <<dir, tmp, op, want, seen, buf, fd, direct, changed>>

CopyRename(c) ==
    /\ pc[c] = "copyRename"
    /\ dir' = [dir EXCEPT ![op[c].dst] = c]
    /\ tmp' = tmp \ {c}
    /\ changed' = changed \cup {c}
    /\ Goto(c, "ok")
    /\ UNCHANGED <<inode, op, want, seen, buf, fd, direct>>

CopyRenameFails(c) ==
    /\ pc[c] = "copyRename"
    /\ tmp' = tmp \ {c}
    /\ Goto(c, "error")
    /\ UNCHANGED <<dir, inode, op, want, seen, buf, fd, direct, changed>>

\* rename: the old path exists, then the new one does not, then os.Rename,
\* which would replace it.
MoveStat(c) ==
    /\ pc[c] = "stat"
    /\ Is(c, {"rename"})
    /\ Exists(op[c].path)
    /\ Goto(c, "moveDst")
    /\ UNCHANGED <<fsVars, op, want, seen, buf, fd, direct, changed>>

MoveCheckDst(c) ==
    /\ pc[c] = "moveDst"
    /\ Goto(c, IF Exists(op[c].dst) THEN "error" ELSE IF op[c].dry THEN "ok" ELSE "move")
    /\ UNCHANGED <<fsVars, op, want, seen, buf, fd, direct, changed>>

Move(c) ==
    /\ pc[c] = "move"
    /\ Exists(op[c].path)
    /\ dir' = [dir EXCEPT ![op[c].dst] = dir[op[c].path], ![op[c].path] = NoFile]
    /\ changed' = changed \cup {c}
    /\ Goto(c, "ok")
    /\ UNCHANGED <<inode, tmp, op, want, seen, buf, fd, direct>>

\* delete: Lstat, and once more before os.Remove.
DeleteStat(c) ==
    /\ pc[c] = "stat"
    /\ Is(c, {"delete"})
    /\ Exists(op[c].path)
    /\ Goto(c, IF op[c].dry THEN "ok" ELSE "recheck")
    /\ UNCHANGED <<fsVars, op, want, seen, buf, fd, direct, changed>>

DeleteRecheck(c) ==
    /\ pc[c] = "recheck"
    /\ Goto(c, IF Exists(op[c].path) THEN "remove" ELSE "error")
    /\ UNCHANGED <<fsVars, op, want, seen, buf, fd, direct, changed>>

Delete(c) ==
    /\ pc[c] = "remove"
    /\ Exists(op[c].path)
    /\ dir' = [dir EXCEPT ![op[c].path] = NoFile]
    /\ changed' = changed \cup {c}
    /\ Goto(c, "ok")
    /\ UNCHANGED <<inode, tmp, op, want, seen, buf, fd, direct>>

\* os.Rename or os.Remove fails, as it does when the file has gone.
MoveOrDeleteFails(c) ==
    /\ pc[c] \in {"move", "remove"}
    /\ Goto(c, "error")
    /\ UNCHANGED <<fsVars, op, want, seen, buf, fd, direct, changed>>

-----------------------------------------------------------------------------
\* The server is killed; another may be started for the calls still to come.
Crash ==
    /\ \E c \in Calls : pc[c] \notin Ended \cup {"idle"}
    /\ pc' = [c \in Calls |-> IF pc[c] \in Ended \cup {"idle"} THEN pc[c] ELSE "dead"]
    /\ UNCHANGED <<fsVars, op, want, seen, buf, fd, direct, changed>>

ReadSteps(c)  == \/ NotFound(c) \/ Found(c) \/ HashCheck(c) \/ NewFile(c) \/ ReadFails(c) \/ Read(c)
ApplySteps(c) == \/ ApplyEdit(c) \/ ApplyPatch(c) \/ ApplyRegex(c) \/ Convert(c)
WriteSteps(c) == \/ StatPerm(c) \/ CreateTemp(c) \/ CreateTempFails(c) \/ FillTemp(c)
                 \/ FillTempFails(c) \/ Rename(c) \/ RenameFails(c)
                 \/ Truncate(c) \/ WriteInPlace(c) \/ WriteInPlaceFails(c)
MoveSteps(c)  == \/ CopyStat(c) \/ CopyCheckDst(c) \/ CopyOpen(c) \/ CopyOpenFails(c)
                 \/ CopyFill(c) \/ CopyRename(c) \/ CopyRenameFails(c)
                 \/ MoveStat(c) \/ MoveCheckDst(c) \/ Move(c)
                 \/ DeleteStat(c) \/ DeleteRecheck(c) \/ Delete(c) \/ MoveOrDeleteFails(c)

Next ==
    \/ Crash
    \/ \E c \in Calls : \/ \E o \in Ops : Begin(c, o)
                        \/ ReadSteps(c) \/ ApplySteps(c) \/ WriteSteps(c) \/ MoveSteps(c)

Spec == Init /\ [][Next]_vars

-----------------------------------------------------------------------------
(***************************************************************************)
(* Properties                                                              *)
(***************************************************************************)

\* A path leads to a file that is not completely written only if some call had
\* to give up the temporary file and write in place: whatever the calls do to
\* each other, and wherever the server is killed, a reader of a path finds one
\* complete version (the "Atomic write" of WriteFileWithEncoding and copy).
WholeFiles == \A p \in Paths : Exists(p) /\ ~At(p).whole => direct # {}

\* A temporary file belongs to a call that is about to rename it, or to one the
\* server was killed in; no path leads to it, and no file has two paths.  Every
\* error path of WriteFileWithEncoding and copyFileAtomic removes it.
TempsPrivate ==
    /\ \A c \in tmp : pc[c] \in {"fill", "rename", "copyFill", "copyRename", "dead"}
    /\ \A p \in Paths : dir[p] \notin tmp
    /\ \A p, q \in Paths : Exists(p) /\ dir[p] = dir[q] => p = q

\* What a call reports is what it did: an error means that no file was changed
\* (multiedit: "if any edit fails, the file is not modified at all"), unless the
\* write in place failed; a preview changes nothing; and success means that the
\* change was made, except where there was nothing to replace or convert.
HonestResults ==
    \A c \in Calls :
        /\ pc[c] = "error" /\ c \in changed => c \in direct
        /\ pc[c] = "ok" /\ op[c].dry /\ ~Is(c, {"write", "convert_encoding"}) => c \notin changed
        /\ pc[c] = "ok" /\ ~op[c].dry /\ ~Is(c, {"regex_replace", "convert_encoding"})
              => c \in changed

\* What the text s becomes under the edits es, one after the other.
EditsDone(s, es) ==
    LET done[n \in 0 .. Len(es)] == IF n = 0 THEN s ELSE Replaced(done[n - 1], es[n])
    IN  done[Len(es)]

\* What s becomes under the hunks hs, taken from the first to the last: each
\* moves by as many lines as the ones before it have added.
PatchDone(s, hs) ==
    LET shift[n \in 0 .. Len(hs)] ==
            IF n = 0 THEN 0 ELSE shift[n - 1] + Len(hs[n].add) - Len(hs[n].del)
        done[n \in 0 .. Len(hs)] ==
            IF n = 0 THEN s
            ELSE ApplyHunk(done[n - 1], [hs[n] EXCEPT !.srcStart = @ + shift[n - 1]])
    IN  done[Len(hs)]

\* The text that request o means for the text s.
Meant(o, s) == CASE o.tool = "write"            -> o.text
                 [] o.tool = "convert_encoding" -> s
                 [] o.tool = "patch"            -> PatchDone(s, o.hunks)
                 [] OTHER                       -> EditsDone(s, o.edits)

\* The hunks of a diff are in the order of the lines they change.
InOrder(hs) == \A i, j \in DOMAIN hs : i < j => hs[i].srcStart + Len(hs[i].del) <= hs[j].srcStart

\* Call c replaces a file that is as c has read it, with the permissions c has
\* taken from it (between the two, another file may have been there).
Replaces(c) ==
    LET p == op[c].path
    IN  /\ pc[c] = "rename" /\ pc'[c] = "ok" /\ Is(c, Changers)
        /\ Exists(p) /\ At(p) = seen[c] /\ At(p).mode = buf[c].perm /\ At(p).text # <<>>

\* The new file has the text that was asked for.
TextAsMeant(c) ==
    LET old == At(op[c].path)  new == At(op[c].path)'
    IN  \/ new.text = Meant(op[c], old.text)
        \/ Is(c, {"convert_encoding"}) /\ old.charset = "legacy"
        \/ Is(c, {"patch"}) /\ ~InOrder(op[c].hunks)

\* It has the encoding, the BOM and the permissions of the old one.
FormatKept(c) ==
    LET old == At(op[c].path)  new == At(op[c].path)'
    IN  /\ new.mode \in {old.mode, "0600"}
        /\ ~Is(c, {"convert_encoding"}) =>
              /\ new.bom = old.bom
              /\ \/ new.charset = old.charset \/ new.text = <<>>
                 \/ Is(c, {"write"}) /\ old.charset = "legacy"

\* If the file is still as the call read it when the call replaces it, the new
\* file is the change asked for and nothing else: its text, and the encoding,
\* the BOM and the permissions of the old file (permissions shrink to 0600 when
\* Chmod fails; a file whose charset was not recognised becomes UTF-8 when it
\* is overwritten, and is garbled when it is converted; an empty file has no
\* charset).  Reading, decoding, encoding and stat happen in different steps,
\* between which other calls run.
ExactUpdate == [][\A c \in Calls : Replaces(c) => TextAsMeant(c) /\ FormatKept(c)]_vars

\* An edit with expected_hash replaces only the file that hash was computed
\* from ("If provided and mismatched, edit is rejected (optimistic concurrency)").
HashGuardsEdit ==
    [][\A c \in Calls :
         pc[c] = "rename" /\ pc'[c] = "ok" /\ Is(c, {"edit"}) /\ op[c].guard /\ Exists(op[c].path)
         => Bytes(At(op[c].path)) = Bytes(want[c])]_vars

=============================================================================
