--------------------------- MODULE FileToolsProofs ---------------------------
(***************************************************************************)
(* Proofs about FileTools for any number of calls and paths, any requests  *)
(* and any files.                                                          *)
(***************************************************************************)
EXTENDS FileTools, TLAPS, WellFoundedInduction, SequenceTheorems

\* The steps at which a call has a temporary file, and the steps from which on
\* the inode it may have created is no longer changed by creating it again.
Filling == {"fill", "rename", "copyFill", "copyRename"}
Settled == {"inplace", "ok", "error", "dead"}

\* Who may lead to a call's inode: its temporary file first, then one path.
OwnInv == /\ \A c \in Calls : pc[c] \in Filling => c \in tmp
          /\ \A c \in tmp : pc[c] \in Filling \cup {"dead"}
          /\ \A p \in Paths : dir[p] \in Calls => pc[dir[p]] \in Settled /\ dir[p] \notin tmp
          /\ \A p, q \in Paths : dir[p] # NoFile /\ dir[p] = dir[q] => p = q
          /\ \A c \in Calls : pc[c] \in {"inplace", "copyFill"} /\ fd[c] \in Calls => pc[fd[c]] \in Settled

\* What is about to be put at a path is complete, or some call wrote in place.
WholeInv == /\ \A p \in Paths : dir[p] # NoFile => inode[dir[p]].whole \/ direct # {}
            /\ \A c \in Calls :
                  /\ pc[c] = "rename" => inode[c].whole
                  /\ pc[c] = "copyRename" => inode[c].whole \/ direct # {}
                  /\ pc[c] = "copyFill" => inode[fd[c]].whole \/ direct # {}
                  /\ pc[c] \in {"truncate", "inplace"} => c \in direct

\* A call has changed nothing before its last step, unless it writes in place,
\* and a preview does not get as far as the steps that change something.
Writing == {"perm", "temp", "fill", "rename", "truncate", "inplace"}
Moving  == {"copyOpen", "copyFill", "copyRename", "move", "recheck", "remove"}
ResultInv == \A c \in Calls :
    /\ c \in changed => pc[c] \in {"inplace", "ok", "dead"} \/ (pc[c] = "error" /\ c \in direct)
    /\ pc[c] = "inplace" => c \in changed
    /\ pc[c] \in Writing => ~op[c].dry \/ op[c].tool \in {"write", "convert_encoding"}
    /\ pc[c] \in Moving => ~op[c].dry

FileInv == TypeOK /\ OwnInv /\ WholeInv /\ ResultInv /\ HonestResults

\* What a buffer with which the file s was read for request o still has of it.
FormatOf(b, s, o) ==
    /\ o.tool = "write" => b.text = o.text /\ ~b.raw
    /\ o.tool = "convert_encoding" => b.text = s.text /\ (b.raw => s.charset = "legacy")
    /\ o.tool # "convert_encoding" =>
          /\ b.bom = s.bom
          /\ \/ ~b.raw /\ b.charset = s.charset
             \/ b.raw /\ b.charset = "UTF-8" /\ ~b.bom /\ s.charset = "legacy"
             \/ o.tool = "write" /\ s.charset = "legacy"

\* A call has seen nothing before it reads, and its buffer remembers the format
\* of what it has read, until the renaming; no legacy charset has a BOM; a
\* temporary file to be renamed is the encoded buffer.
SeenInv   == \A c \in Calls : pc[c] \in {"idle", "stat", "hash", "read"} => seen[c].text = <<>>
BomInv    == /\ \A i \in Inodes : inode[i].bom => inode[i].charset # "legacy"
             /\ \A c \in Calls : buf[c].bom => buf[c].charset # "legacy"
FormatInv == \A c \in Calls : pc[c] \in {"apply", "perm", "temp", "fill", "rename"} /\ seen[c].text # <<>>
                                 => FormatOf(buf[c], seen[c], op[c])
TempInv   == \A c \in Calls : pc[c] = "rename" =>
                                 \E m \in {buf[c].perm, "0600"} : inode[c] = Encoded(buf[c], m)
UpdateInv == SeenInv /\ BomInv /\ FormatInv /\ TempInv

-----------------------------------------------------------------------------
(***************************************************************************)
(* The operators on texts and files                                        *)
(***************************************************************************)

\* The fields of a buffer.
LEMMA BufferFields ==
    ASSUME NEW b \in Buffer
    PROVE  /\ b.text \in Text /\ b.n \in Nat /\ b.perm \in Modes
           /\ b.charset \in Charsets /\ b.bom \in BOOLEAN /\ b.raw \in BOOLEAN
  BY DEF Buffer

\* A buffer with another text.
LEMMA BufferText ==
    ASSUME NEW b \in Buffer, NEW t \in Text
    PROVE  [b EXCEPT !.text = t] \in Buffer
  BY DEF Buffer

\* A buffer after one more edit or hunk.
LEMMA BufferTextN ==
    ASSUME NEW b \in Buffer, NEW t \in Text, NEW k \in Nat
    PROVE  [b EXCEPT !.text = t, !.n = k] \in Buffer
  BY DEF Buffer

\* A buffer with other permissions.
LEMMA BufferPerm ==
    ASSUME NEW b \in Buffer, NEW m \in Modes
    PROVE  [b EXCEPT !.perm = m] \in Buffer
  BY DEF Buffer

\* A buffer with another encoding.
LEMMA BufferEnc ==
    ASSUME NEW b \in Buffer, NEW cs \in Charsets, NEW bo \in BOOLEAN
    PROVE  [b EXCEPT !.charset = cs, !.bom = bo] \in Buffer
  BY DEF Buffer

\* A buffer for a new file.
LEMMA BufferNew ==
    ASSUME NEW b \in Buffer, NEW t \in Text, NEW cs \in Charsets
    PROVE  [b EXCEPT !.text = t, !.charset = cs] \in Buffer
  BY DEF Buffer

\* A buffer with what was read.
LEMMA BufferRead ==
    ASSUME NEW b \in Buffer, NEW t \in Text, NEW cs \in Charsets, NEW bo \in BOOLEAN, NEW ra \in BOOLEAN
    PROVE  [b EXCEPT !.text = t, !.charset = cs, !.bom = bo, !.raw = ra] \in Buffer
  BY DEF Buffer

\* The fields of a file.
LEMMA FileFields ==
    ASSUME NEW h \in File
    PROVE  h.text \in Text /\ h.charset \in Charsets /\ h.bom \in BOOLEAN /\ h.mode \in Modes
  BY DEF File

\* A file with other permissions.
LEMMA FileMode ==
    ASSUME NEW h \in File, NEW m \in Modes
    PROVE  [h EXCEPT !.mode = m] \in File
  BY DEF File

\* Replacing a fragment of a text gives a text.
LEMMA ReplacedType == ASSUME NEW s \in Text, NEW e \in EditOp PROVE Replaced(s, e) \in Text
  BY DEF Replaced, Text, EditOp

\* A hunk that fits turns a text into a text.
LEMMA HunkType ==
    ASSUME NEW b \in Buffer, NEW h \in Hunk, HunkFits(b, h)
    PROVE  ApplyHunk(b.text, h) \in Text
<1> DEFINE s == b.text
           k == h.srcStart
<1>1. s \in Seq(Tokens \cup {Garbage}) /\ h.add \in Seq(Tokens \cup {Garbage}) /\ h.del \in Seq(Tokens)
  BY DEF Buffer, Text, Hunk
<1>2. k \in Nat /\ k > 0 /\ k + Len(h.del) <= Len(s) + 1 /\ Len(h.del) \in Nat
  BY <1>1 DEF HunkFits, Hunk
<1>3. SubSeq(s, 1, k - 1) \in Seq(Tokens \cup {Garbage})
  BY <1>1, <1>2
<1>4. SubSeq(s, k + Len(h.del), Len(s)) \in Seq(Tokens \cup {Garbage})
  BY <1>1, <1>2
<1> QED BY <1>1, <1>3, <1>4 DEF ApplyHunk, Text

\* What is written is a complete file with the permissions asked for.
LEMMA EncodedType ==
    ASSUME NEW b \in Buffer, NEW m \in Modes
    PROVE  Encoded(b, m) \in File /\ Encoded(b, m).whole
<1>1. [i \in DOMAIN b.text |-> Garbage] \in Text
  BY DEF Buffer, Text
<1> QED BY <1>1 DEF Encoded, Buffer, File, Charsets

\* The tail of a longer file behind a shorter text.
LEMMA OverlayText ==
    ASSUME NEW g \in File, NEW h \in File, Len(g.text) > Len(h.text)
    PROVE  h.text \o SubSeq(g.text, Len(h.text) + 1, Len(g.text)) \in Text
  <2>1. g.text \in Seq(Tokens \cup {Garbage}) /\ h.text \in Seq(Tokens \cup {Garbage})
    BY DEF File, Text
  <2>2. SubSeq(g.text, Len(h.text) + 1, Len(g.text)) \in Seq(Tokens \cup {Garbage})
    BY <2>1
  <2> QED BY <2>1, <2>2 DEF Text

\* A write over another is a file again.
LEMMA OverlayType == ASSUME NEW g \in File, NEW h \in File PROVE Overlay(g, h) \in File
<1> DEFINE t == h.text \o SubSeq(g.text, Len(h.text) + 1, Len(g.text))
<1>1. Len(g.text) \in Nat /\ Len(h.text) \in Nat
  BY DEF File, Text
<1>2. CASE Len(g.text) <= Len(h.text)
  BY <1>2 DEF Overlay
<1>3. CASE Len(g.text) > Len(h.text)
  <2>1. t \in Text
    BY <1>3, OverlayText
  <2>2. [h EXCEPT !.text = t, !.whole = FALSE] \in File
    <3> HIDE DEF t
    <3> QED BY <2>1 DEF File
  <2>3. Overlay(g, h) = [h EXCEPT !.text = t, !.whole = FALSE]
    BY <1>1, <1>3 DEF Overlay
  <2> QED BY <2>2, <2>3
<1> QED BY <1>1, <1>2, <1>3

\* What is read from a file is a text in a charset.
LEMMA ReadType ==
    ASSUME NEW g \in File, NEW r \in ReadFileWithEncoding(g)
    PROVE  r.text \in Text /\ r.charset \in Charsets /\ r.bom \in BOOLEAN /\ r.raw \in BOOLEAN
<1> DEFINE known == [text |-> g.text, charset |-> g.charset, bom |-> g.bom, raw |-> FALSE]
<1>1. r = known \/ r = [known EXCEPT !.charset = "UTF-8", !.raw = TRUE]
  BY DEF ReadFileWithEncoding
<1>2. CASE r = known
  BY <1>2, FileFields
<1>3. CASE r = [known EXCEPT !.charset = "UTF-8", !.raw = TRUE]
  BY <1>3, FileFields DEF Charsets
<1> QED BY <1>1, <1>2, <1>3

\* The inodes of calls, the inodes of paths and NoFile are all different.
LEMMA Names == Calls \cap Paths = {} /\ NoFile \notin Calls \cup Paths /\ NoOp \notin Ops
  BY FileAssumption

\* A request's texts are texts.
LEMMA RequestType ==
    ASSUME NEW o \in Ops
    PROVE  /\ o.tool \in Tools /\ o.path \in Paths /\ o.dst \in Paths
           /\ o.text \in Text /\ o.charset \in Charsets /\ o.bom \in BOOLEAN
           /\ o.dry \in BOOLEAN /\ o.guard \in BOOLEAN
           /\ o.edits \in Seq(EditOp) /\ o.hunks \in Seq(Hunk)
           /\ o.tool \in {"edit", "multiedit", "regex_replace"} => o.edits[1] \in EditOp
<1>1. o \in Op /\ (o.tool \in {"edit", "multiedit", "regex_replace"} => o.edits # <<>>)
  BY FileAssumption
<1>2. o.text \in Text
  BY <1>1 DEF Op, Text
<1> QED BY <1>1, <1>2 DEF Op

-----------------------------------------------------------------------------
(***************************************************************************)
(* The steps                                                               *)
(***************************************************************************)

\* Nothing is under way at first, and the files are complete.
LEMMA InitOK == Init => FileInv
<1> SUFFICES ASSUME Init PROVE FileInv
  OBVIOUS
<1> USE FileAssumption DEF Init, Inodes
<1>1. EmptyFile \in File /\ EmptyBuf \in Buffer
  BY DEF EmptyFile, EmptyBuf, File, Buffer, Text, Charsets, Modes
<1>2. PICK first \in [Paths -> FirstFiles \cup {NoFile}] :
          /\ dir = [p \in Paths |-> IF first[p] = NoFile THEN NoFile ELSE p]
          /\ inode = [i \in Inodes |-> IF i \in Paths /\ first[i] # NoFile
                                       THEN first[i] ELSE EmptyFile]
  OBVIOUS
<1>3. TypeOK
  BY <1>1, <1>2 DEF TypeOK, Steps
<1>4. OwnInv
  BY <1>2 DEF OwnInv, Filling
<1>5. WholeInv
  BY <1>2 DEF WholeInv
<1>6. ResultInv /\ HonestResults
  BY DEF ResultInv, HonestResults, Writing, Moving
<1> QED BY <1>3, <1>4, <1>5, <1>6 DEF FileInv

\* Every step keeps the types.
LEMMA TypeStep ==
    ASSUME TypeOK, [Next]_vars
    PROVE  TypeOK'
<1> USE Names, RequestType DEF TypeOK, Steps, Ended, Inodes, fsVars
<1>a. EmptyFile \in File /\ EmptyBuf \in Buffer
  BY DEF EmptyFile, EmptyBuf, File, Buffer, Text, Charsets, Modes
<1>1. ASSUME Crash PROVE TypeOK'
  BY <1>1 DEF Crash, Ended
<1>2. ASSUME NEW c \in Calls, NEW o \in Ops, Begin(c, o) PROVE TypeOK'
  BY <1>2 DEF Begin, Goto, Exists, At
<1>3. ASSUME NEW c \in Calls, NotFound(c) PROVE TypeOK'
  BY <1>3 DEF NotFound, Goto, Exists, Is
<1>4. ASSUME NEW c \in Calls, Found(c) PROVE TypeOK'
  BY <1>4 DEF Found, Goto, Exists, Is, Changers
<1>5. ASSUME NEW c \in Calls, HashCheck(c) PROVE TypeOK'
  BY <1>5 DEF HashCheck, Goto
<1>6. ASSUME NEW c \in Calls, NewFile(c) PROVE TypeOK'
  <2>1. op[c] \in Ops /\ buf' \in [Calls -> Buffer]
    <3>1. PICK cs \in Charsets :
            buf' = [buf EXCEPT ![c] = [EmptyBuf EXCEPT !.text = op[c].text, !.charset = cs]]
      BY <1>6 DEF NewFile
    <3>2. op[c] \in Ops /\ [EmptyBuf EXCEPT !.text = op[c].text, !.charset = cs] \in Buffer
      BY <1>6, <1>a, BufferNew DEF NewFile
    <3> QED BY <3>1, <3>2
  <2> QED BY <1>6, <2>1 DEF NewFile, Goto
<1>7. ASSUME NEW c \in Calls, ReadFails(c) PROVE TypeOK'
  <2>1. op[c] \in Ops /\ buf' \in [Calls -> Buffer]
    BY <1>7, <1>a, BufferText DEF ReadFails
  <2> QED BY <1>7, <2>1 DEF ReadFails, Goto
<1>8. ASSUME NEW c \in Calls, Read(c) PROVE TypeOK'
  <2>1. op[c] \in Ops /\ At(op[c].path) \in File
    BY <1>8 DEF Read, Exists, At
  <2>2. PICK r \in ReadFileWithEncoding(At(op[c].path)) :
          buf' = [buf EXCEPT ![c] =
                    [EmptyBuf EXCEPT !.text    = IF Is(c, {"write"}) THEN op[c].text ELSE r.text,
                                     !.charset = r.charset,
                                     !.bom     = r.bom,
                                     !.raw     = r.raw /\ ~Is(c, {"write"})]]
    BY <1>8 DEF Read
  <2>3. buf' \in [Calls -> Buffer]
    <3>1. (r.raw /\ ~Is(c, {"write"})) \in BOOLEAN
      OBVIOUS
    <3>2. (IF Is(c, {"write"}) THEN op[c].text ELSE r.text) \in Text
      BY <2>1, ReadType
    <3> QED BY <2>1, <2>2, <3>1, <3>2, <1>a, BufferRead, ReadType
  <2> QED BY <1>8, <2>1, <2>3 DEF Read, Goto
<1>9. ASSUME NEW c \in Calls, ApplyEdit(c) PROVE TypeOK'
  <2> DEFINE n == buf[c].n + 1
             e == op[c].edits[n]
  <2>1. op[c] \in Ops /\ buf[c] \in Buffer /\ n \in DOMAIN op[c].edits
    BY <1>9 DEF ApplyEdit
  <2>2. e \in EditOp /\ n \in Nat
    BY <2>1, BufferFields
  <2>3. Replace(buf[c], e) # <<>> => Replace(buf[c], e)[1] \in Text
    BY <2>1, <2>2, ReplacedType, BufferFields DEF Replace
  <2>4. buf' \in [Calls -> Buffer]
    BY <1>9, <2>1, <2>2, <2>3, BufferTextN DEF ApplyEdit
  <2> QED BY <1>9, <2>1, <2>4 DEF ApplyEdit, Goto, AfterLast
<1>10. ASSUME NEW c \in Calls, ApplyPatch(c) PROVE TypeOK'
  <2> DEFINE n == buf[c].n + 1
             h == op[c].hunks[Len(op[c].hunks) + 1 - n]
  <2>1. op[c] \in Ops /\ buf[c] \in Buffer /\ n \in DOMAIN op[c].hunks
    BY <1>10 DEF ApplyPatch
  <2>2. h \in Hunk /\ n \in Nat
    BY <2>1, BufferFields
  <2>3. HunkFits(buf[c], h) => ApplyHunk(buf[c].text, h) \in Text
    BY <2>1, <2>2, HunkType
  <2>4. buf' \in [Calls -> Buffer]
    <3>1. CASE HunkFits(buf[c], h)
      <4>1. [buf[c] EXCEPT !.text = ApplyHunk(buf[c].text, h), !.n = n] \in Buffer
        BY <3>1, <2>1, <2>2, <2>3, BufferTextN
      <4>2. buf' = [buf EXCEPT ![c] = [buf[c] EXCEPT !.text = ApplyHunk(buf[c].text, h), !.n = n]]
        BY <1>10, <3>1 DEF ApplyPatch
      <4> QED BY <4>1, <4>2
    <3>2. CASE ~HunkFits(buf[c], h)
      BY <1>10, <3>2 DEF ApplyPatch
    <3> QED BY <3>1, <3>2
  <2> QED BY <1>10, <2>1, <2>4 DEF ApplyPatch, Goto, AfterLast
<1>11. ASSUME NEW c \in Calls, ApplyRegex(c) PROVE TypeOK'
  <2>1. op[c] \in Ops /\ buf[c] \in Buffer /\ op[c].edits[1] \in EditOp
    BY <1>11 DEF ApplyRegex, Is
  <2>2. Replaced(buf[c].text, op[c].edits[1]) \in Text
    BY <2>1, BufferFields, ReplacedType
  <2>3. buf' \in [Calls -> Buffer]
    BY <1>11, <2>1, <2>2, BufferText, BufferFields DEF ApplyRegex
  <2> QED BY <1>11, <2>1, <2>3 DEF ApplyRegex, Goto, AfterLast
<1>12. ASSUME NEW c \in Calls, Convert(c) PROVE TypeOK'
  <2>1. op[c] \in Ops /\ buf' \in [Calls -> Buffer]
    BY <1>12, BufferEnc DEF Convert
  <2> QED BY <1>12, <2>1 DEF Convert, Goto
<1>13. ASSUME NEW c \in Calls, StatPerm(c) PROVE TypeOK'
  <2>1. op[c] \in Ops /\ (Exists(op[c].path) => At(op[c].path) \in File)
    BY <1>13 DEF StatPerm, Exists, At
  <2>2. (IF Exists(op[c].path) THEN At(op[c].path).mode ELSE "0644") \in Modes
    BY <2>1, FileFields DEF Modes
  <2>3. buf' \in [Calls -> Buffer]
    BY <1>13, <2>2, BufferPerm DEF StatPerm
  <2> QED BY <1>13, <2>1, <2>3 DEF StatPerm, Goto
<1>14. ASSUME NEW c \in Calls, CreateTemp(c) PROVE TypeOK'
  BY <1>14, <1>a DEF CreateTemp, Goto
<1>15. ASSUME NEW c \in Calls, CreateTempFails(c) PROVE TypeOK'
  BY <1>15 DEF CreateTempFails, Goto
<1>16. ASSUME NEW c \in Calls, FillTemp(c) PROVE TypeOK'
  <2>1. \A m \in {buf[c].perm, "0600"} : Encoded(buf[c], m) \in File
    BY BufferFields, EncodedType DEF Modes
  <2>2. inode' \in [Inodes -> File]
    BY <1>16, <2>1 DEF FillTemp
  <2> QED BY <1>16, <2>2 DEF FillTemp, Goto
<1>17. ASSUME NEW c \in Calls, FillTempFails(c) PROVE TypeOK'
  BY <1>17 DEF FillTempFails, Goto
<1>18. ASSUME NEW c \in Calls, Rename(c) PROVE TypeOK'
  BY <1>18 DEF Rename, Goto
<1>19. ASSUME NEW c \in Calls, RenameFails(c) PROVE TypeOK'
  BY <1>19 DEF RenameFails, Goto
<1>20. ASSUME NEW c \in Calls, Truncate(c) PROVE TypeOK'
  <2> DEFINE p == op[c].path
             i == IF Exists(p) THEN dir[p] ELSE c
  <2>1. op[c] \in Ops /\ p \in Paths /\ i \in Inodes
    BY <1>20 DEF Truncate, Exists
  <2>2. [EmptyFile EXCEPT !.mode = IF Exists(p) THEN inode[i].mode ELSE buf[c].perm] \in File
    BY <2>1, <1>a, BufferFields, FileFields, FileMode
  <2> QED BY <1>20, <2>1, <2>2 DEF Truncate, Goto
<1>21. ASSUME NEW c \in Calls, WriteInPlace(c) PROVE TypeOK'
  <2>1. fd[c] \in Inodes /\ inode[fd[c]] \in File
    BY <1>21 DEF WriteInPlace
  <2>2. Overlay(inode[fd[c]], Encoded(buf[c], inode[fd[c]].mode)) \in File
    BY <2>1, FileFields, EncodedType, OverlayType
  <2>3. inode' \in [Inodes -> File]
    BY <1>21, <2>1, <2>2 DEF WriteInPlace
  <2> QED BY <1>21, <2>3 DEF WriteInPlace, Goto
<1>22. ASSUME NEW c \in Calls, WriteInPlaceFails(c) PROVE TypeOK'
  BY <1>22 DEF WriteInPlaceFails, Goto
<1>23. ASSUME NEW c \in Calls, CopyStat(c) PROVE TypeOK'
  <2>1. op[c] \in Ops /\ At(op[c].path).mode \in Modes
    BY <1>23, FileFields DEF CopyStat, Exists, At
  <2>2. buf' \in [Calls -> Buffer]
    BY <1>23, <2>1, BufferPerm DEF CopyStat
  <2> QED BY <1>23, <2>1, <2>2 DEF CopyStat, Goto
<1>24. ASSUME NEW c \in Calls, CopyCheckDst(c) PROVE TypeOK'
  BY <1>24 DEF CopyCheckDst, Goto, Exists
<1>25. ASSUME NEW c \in Calls, CopyOpen(c) PROVE TypeOK'
  BY <1>25, <1>a DEF CopyOpen, Goto, Exists
<1>26. ASSUME NEW c \in Calls, CopyOpenFails(c) PROVE TypeOK'
  BY <1>26 DEF CopyOpenFails, Goto
<1>27. ASSUME NEW c \in Calls, CopyFill(c) PROVE TypeOK'
  <2>1. inode[fd[c]] \in File /\ buf[c].perm \in Modes
    BY <1>27, BufferFields DEF CopyFill
  <2>2. inode' \in [Inodes -> File]
    BY <1>27, <2>1, FileMode DEF CopyFill
  <2> QED BY <1>27, <2>2 DEF CopyFill, Goto
<1>28. ASSUME NEW c \in Calls, CopyRename(c) PROVE TypeOK'
  BY <1>28 DEF CopyRename, Goto
<1>29. ASSUME NEW c \in Calls, CopyRenameFails(c) PROVE TypeOK'
  BY <1>29 DEF CopyRenameFails, Goto
<1>30. ASSUME NEW c \in Calls, MoveStat(c) PROVE TypeOK'
  BY <1>30 DEF MoveStat, Goto, Is, Exists
<1>31. ASSUME NEW c \in Calls, MoveCheckDst(c) PROVE TypeOK'
  BY <1>31 DEF MoveCheckDst, Goto, Exists
<1>32. ASSUME NEW c \in Calls, Move(c) PROVE TypeOK'
  BY <1>32 DEF Move, Goto, Exists
<1>33. ASSUME NEW c \in Calls, DeleteStat(c) PROVE TypeOK'
  BY <1>33 DEF DeleteStat, Goto, Is, Exists
<1>34. ASSUME NEW c \in Calls, DeleteRecheck(c) PROVE TypeOK'
  BY <1>34 DEF DeleteRecheck, Goto, Exists
<1>35. ASSUME NEW c \in Calls, Delete(c) PROVE TypeOK'
  BY <1>35 DEF Delete, Goto, Exists
<1>36. ASSUME NEW c \in Calls, MoveOrDeleteFails(c) PROVE TypeOK'
  BY <1>36 DEF MoveOrDeleteFails, Goto
<1>37. ASSUME UNCHANGED vars PROVE TypeOK'
  BY <1>37 DEF vars
<1> QED
  BY <1>1, <1>2, <1>3, <1>4, <1>5, <1>6, <1>7, <1>8, <1>9, <1>10, <1>11, <1>12,
     <1>13, <1>14, <1>15, <1>16, <1>17, <1>18, <1>19, <1>20, <1>21, <1>22,
     <1>23, <1>24, <1>25, <1>26, <1>27, <1>28, <1>29, <1>30, <1>31, <1>32,
     <1>33, <1>34, <1>35, <1>36, <1>37 DEF Next, ReadSteps, ApplySteps,
     WriteSteps, MoveSteps

\* Every step keeps each inode with its owner.
LEMMA OwnStep ==
    ASSUME TypeOK, OwnInv, [Next]_vars
    PROVE  OwnInv'
<1> USE Names, RequestType DEF TypeOK, OwnInv, Filling, Settled, Steps, Ended, Inodes, fsVars
<1>1. ASSUME Crash PROVE OwnInv'
  BY <1>1 DEF Crash, Ended
<1>2. ASSUME NEW c \in Calls, NEW o \in Ops, Begin(c, o) PROVE OwnInv'
  BY <1>2 DEF Begin, Goto, Exists, At
<1>3. ASSUME NEW c \in Calls, NotFound(c) PROVE OwnInv'
  BY <1>3 DEF NotFound, Goto, Exists, Is
<1>4. ASSUME NEW c \in Calls, Found(c) PROVE OwnInv'
  BY <1>4 DEF Found, Goto, Exists, Is, Changers
<1>5. ASSUME NEW c \in Calls, HashCheck(c) PROVE OwnInv'
  BY <1>5 DEF HashCheck, Goto
<1>6. ASSUME NEW c \in Calls, NewFile(c) PROVE OwnInv'
  BY <1>6 DEF NewFile, Goto, Is, Exists, EmptyBuf
<1>7. ASSUME NEW c \in Calls, ReadFails(c) PROVE OwnInv'
  BY <1>7 DEF ReadFails, Goto, Is, EmptyBuf
<1>8. ASSUME NEW c \in Calls, Read(c) PROVE OwnInv'
  BY <1>8 DEF Read, Goto, Is, Exists, At, EmptyBuf
<1>9. ASSUME NEW c \in Calls, ApplyEdit(c) PROVE OwnInv'
  BY <1>9 DEF ApplyEdit, Goto, Is, AfterLast
<1>10. ASSUME NEW c \in Calls, ApplyPatch(c) PROVE OwnInv'
  <2>1. \E x \in {"ok", "perm", "apply", "error"} : Goto(c, x)
    BY <1>10 DEF ApplyPatch, AfterLast
  <2> QED BY <1>10, <2>1 DEF ApplyPatch, Goto
<1>11. ASSUME NEW c \in Calls, ApplyRegex(c) PROVE OwnInv'
  BY <1>11 DEF ApplyRegex, Goto, Is, AfterLast
<1>12. ASSUME NEW c \in Calls, Convert(c) PROVE OwnInv'
  BY <1>12 DEF Convert, Goto, Is
<1>13. ASSUME NEW c \in Calls, StatPerm(c) PROVE OwnInv'
  BY <1>13 DEF StatPerm, Goto, Exists, At
<1>14. ASSUME NEW c \in Calls, CreateTemp(c) PROVE OwnInv'
  BY <1>14 DEF CreateTemp, Goto, EmptyFile
<1>15. ASSUME NEW c \in Calls, CreateTempFails(c) PROVE OwnInv'
  BY <1>15 DEF CreateTempFails, Goto
<1>16. ASSUME NEW c \in Calls, FillTemp(c) PROVE OwnInv'
  BY <1>16 DEF FillTemp, Goto
<1>17. ASSUME NEW c \in Calls, FillTempFails(c) PROVE OwnInv'
  BY <1>17 DEF FillTempFails, Goto
<1>18. ASSUME NEW c \in Calls, Rename(c) PROVE OwnInv'
  BY <1>18 DEF Rename, Goto
<1>19. ASSUME NEW c \in Calls, RenameFails(c) PROVE OwnInv'
  BY <1>19 DEF RenameFails, Goto
<1>20. ASSUME NEW c \in Calls, Truncate(c) PROVE OwnInv'
  <2> DEFINE p == op[c].path
             i == IF Exists(p) THEN dir[p] ELSE c
  <2>1. p \in Paths /\ pc[c] = "truncate" /\ pc' = [pc EXCEPT ![c] = "inplace"] /\ tmp' = tmp
        /\ fd' = [fd EXCEPT ![c] = i] /\ dir' = [dir EXCEPT ![p] = i]
    BY <1>20 DEF Truncate, Goto
  <2>2. CASE Exists(p)
    <3>1. dir' = dir /\ fd' = [fd EXCEPT ![c] = dir[p]]
      BY <2>1, <2>2
    <3> QED BY <2>1, <2>2, <3>1 DEF Exists
  <2>3. CASE ~Exists(p)
    <3>1. dir' = [dir EXCEPT ![p] = c] /\ fd' = [fd EXCEPT ![c] = c]
      BY <2>1, <2>3
    <3>2. c \notin tmp /\ \A q \in Paths : dir[q] # c
      BY <2>1
    <3>3. \A q \in Paths : dir'[q] = IF q = p THEN c ELSE dir[q]
      BY <2>1, <3>1
    <3>4. \A d \in Calls : pc'[d] = IF d = c THEN "inplace" ELSE pc[d]
      BY <2>1
    <3>5. \A d \in Calls : fd'[d] = IF d = c THEN c ELSE fd[d]
      BY <3>1
    <3> HIDE DEF p
    <3> QED BY <2>1, <3>2, <3>3, <3>4, <3>5
  <2> QED BY <2>2, <2>3
<1>21. ASSUME NEW c \in Calls, WriteInPlace(c) PROVE OwnInv'
  BY <1>21 DEF WriteInPlace, Goto
<1>22. ASSUME NEW c \in Calls, WriteInPlaceFails(c) PROVE OwnInv'
  BY <1>22 DEF WriteInPlaceFails, Goto
<1>23. ASSUME NEW c \in Calls, CopyStat(c) PROVE OwnInv'
  BY <1>23 DEF CopyStat, Goto, Is, Exists, At
<1>24. ASSUME NEW c \in Calls, CopyCheckDst(c) PROVE OwnInv'
  BY <1>24 DEF CopyCheckDst, Goto, Exists
<1>25. ASSUME NEW c \in Calls, CopyOpen(c) PROVE OwnInv'
  BY <1>25 DEF CopyOpen, Goto, Exists, EmptyFile
<1>26. ASSUME NEW c \in Calls, CopyOpenFails(c) PROVE OwnInv'
  BY <1>26 DEF CopyOpenFails, Goto
<1>27. ASSUME NEW c \in Calls, CopyFill(c) PROVE OwnInv'
  BY <1>27 DEF CopyFill, Goto
<1>28. ASSUME NEW c \in Calls, CopyRename(c) PROVE OwnInv'
  BY <1>28 DEF CopyRename, Goto
<1>29. ASSUME NEW c \in Calls, CopyRenameFails(c) PROVE OwnInv'
  BY <1>29 DEF CopyRenameFails, Goto
<1>30. ASSUME NEW c \in Calls, MoveStat(c) PROVE OwnInv'
  BY <1>30 DEF MoveStat, Goto, Is, Exists
<1>31. ASSUME NEW c \in Calls, MoveCheckDst(c) PROVE OwnInv'
  BY <1>31 DEF MoveCheckDst, Goto, Exists
<1>32. ASSUME NEW c \in Calls, Move(c) PROVE OwnInv'
  <2>1. op[c].path \in Paths /\ op[c].dst \in Paths /\ pc' = [pc EXCEPT ![c] = "ok"]
    BY <1>32 DEF Move, Goto
  <2>2. \A q \in Paths : dir'[q] = IF q = op[c].path THEN NoFile
                                  ELSE IF q = op[c].dst THEN dir[op[c].path] ELSE dir[q]
    BY <1>32, <2>1 DEF Move
  <2>3. pc[c] = "move" /\ tmp' = tmp /\ fd' = fd
    BY <1>32 DEF Move
  <2> QED BY <2>1, <2>2, <2>3
<1>33. ASSUME NEW c \in Calls, DeleteStat(c) PROVE OwnInv'
  BY <1>33 DEF DeleteStat, Goto, Is, Exists
<1>34. ASSUME NEW c \in Calls, DeleteRecheck(c) PROVE OwnInv'
  BY <1>34 DEF DeleteRecheck, Goto, Exists
<1>35. ASSUME NEW c \in Calls, Delete(c) PROVE OwnInv'
  BY <1>35 DEF Delete, Goto, Exists
<1>36. ASSUME NEW c \in Calls, MoveOrDeleteFails(c) PROVE OwnInv'
  BY <1>36 DEF MoveOrDeleteFails, Goto
<1>37. ASSUME UNCHANGED vars PROVE OwnInv'
  BY <1>37 DEF vars
<1> QED
  BY <1>1, <1>2, <1>3, <1>4, <1>5, <1>6, <1>7, <1>8, <1>9, <1>10, <1>11, <1>12,
     <1>13, <1>14, <1>15, <1>16, <1>17, <1>18, <1>19, <1>20, <1>21, <1>22,
     <1>23, <1>24, <1>25, <1>26, <1>27, <1>28, <1>29, <1>30, <1>31, <1>32,
     <1>33, <1>34, <1>35, <1>36, <1>37 DEF Next, ReadSteps, ApplySteps,
     WriteSteps, MoveSteps

\* Every step puts only complete files at paths, until a call writes in place.
LEMMA WholeStep ==
    ASSUME TypeOK, OwnInv, WholeInv, [Next]_vars
    PROVE  WholeInv'
<1> USE Names, RequestType DEF TypeOK, OwnInv, WholeInv, Filling, Settled, Steps, Ended, Inodes, fsVars
<1>1. ASSUME Crash PROVE WholeInv'
  BY <1>1 DEF Crash, Ended
<1>2. ASSUME NEW c \in Calls, NEW o \in Ops, Begin(c, o) PROVE WholeInv'
  BY <1>2 DEF Begin, Goto, Exists, At
<1>3. ASSUME NEW c \in Calls, NotFound(c) PROVE WholeInv'
  BY <1>3 DEF NotFound, Goto, Exists, Is
<1>4. ASSUME NEW c \in Calls, Found(c) PROVE WholeInv'
  BY <1>4 DEF Found, Goto, Exists, Is, Changers
<1>5. ASSUME NEW c \in Calls, HashCheck(c) PROVE WholeInv'
  BY <1>5 DEF HashCheck, Goto
<1>6. ASSUME NEW c \in Calls, NewFile(c) PROVE WholeInv'
  BY <1>6 DEF NewFile, Goto, Is, Exists, EmptyBuf
<1>7. ASSUME NEW c \in Calls, ReadFails(c) PROVE WholeInv'
  BY <1>7 DEF ReadFails, Goto, Is, EmptyBuf
<1>8. ASSUME NEW c \in Calls, Read(c) PROVE WholeInv'
  BY <1>8 DEF Read, Goto, Is, Exists, At, EmptyBuf
<1>9. ASSUME NEW c \in Calls, ApplyEdit(c) PROVE WholeInv'
  BY <1>9 DEF ApplyEdit, Goto, Is, AfterLast
<1>10. ASSUME NEW c \in Calls, ApplyPatch(c) PROVE WholeInv'
  BY <1>10 DEF ApplyPatch, Goto, Is, AfterLast
<1>11. ASSUME NEW c \in Calls, ApplyRegex(c) PROVE WholeInv'
  BY <1>11 DEF ApplyRegex, Goto, Is, AfterLast
<1>12. ASSUME NEW c \in Calls, Convert(c) PROVE WholeInv'
  BY <1>12 DEF Convert, Goto, Is
<1>13. ASSUME NEW c \in Calls, StatPerm(c) PROVE WholeInv'
  BY <1>13 DEF StatPerm, Goto, Exists, At
<1>14. ASSUME NEW c \in Calls, CreateTemp(c) PROVE WholeInv'
  <2>1. \A p \in Paths : dir[p] # c
    BY <1>14 DEF CreateTemp
  <2>2. \A d \in Calls : pc[d] = "copyFill" => fd[d] # c
    BY <1>14 DEF CreateTemp
  <2> QED BY <1>14, <2>1, <2>2 DEF CreateTemp, Goto
<1>15. ASSUME NEW c \in Calls, CreateTempFails(c) PROVE WholeInv'
  BY <1>15 DEF CreateTempFails, Goto
<1>16. ASSUME NEW c \in Calls, FillTemp(c) PROVE WholeInv'
  <2>1. \A m \in {buf[c].perm, "0600"} : Encoded(buf[c], m).whole
    BY BufferFields, EncodedType DEF Modes
  <2> QED BY <1>16, <2>1 DEF FillTemp, Goto
<1>17. ASSUME NEW c \in Calls, FillTempFails(c) PROVE WholeInv'
  BY <1>17 DEF FillTempFails, Goto
<1>18. ASSUME NEW c \in Calls, Rename(c) PROVE WholeInv'
  BY <1>18 DEF Rename, Goto
<1>19. ASSUME NEW c \in Calls, RenameFails(c) PROVE WholeInv'
  BY <1>19 DEF RenameFails, Goto
<1>20. ASSUME NEW c \in Calls, Truncate(c) PROVE WholeInv'
  <2>1. direct # {}
    BY <1>20 DEF Truncate
  <2>2. \A d \in Calls : pc[d] = "rename" => d # (IF Exists(op[c].path) THEN dir[op[c].path] ELSE c)
    BY <1>20 DEF Truncate, Exists
  <2>3. inode' = [inode EXCEPT ![IF Exists(op[c].path) THEN dir[op[c].path] ELSE c] =
                    inode'[IF Exists(op[c].path) THEN dir[op[c].path] ELSE c]]
    BY <1>20 DEF Truncate, Exists
  <2>4. direct' = direct /\ c \in direct /\ pc' = [pc EXCEPT ![c] = "inplace"]
    BY <1>20 DEF Truncate, Goto
  <2> QED BY <2>1, <2>2, <2>3, <2>4
<1>21. ASSUME NEW c \in Calls, WriteInPlace(c) PROVE WholeInv'
  <2>1. direct # {}
    BY <1>21 DEF WriteInPlace
  <2>2. \A d \in Calls : pc[d] = "rename" => d # fd[c]
    BY <1>21 DEF WriteInPlace
  <2> QED BY <1>21, <2>1, <2>2 DEF WriteInPlace, Goto
<1>22. ASSUME NEW c \in Calls, WriteInPlaceFails(c) PROVE WholeInv'
  BY <1>22 DEF WriteInPlaceFails, Goto
<1>23. ASSUME NEW c \in Calls, CopyStat(c) PROVE WholeInv'
  BY <1>23 DEF CopyStat, Goto, Is, Exists, At
<1>24. ASSUME NEW c \in Calls, CopyCheckDst(c) PROVE WholeInv'
  BY <1>24 DEF CopyCheckDst, Goto, Exists
<1>25. ASSUME NEW c \in Calls, CopyOpen(c) PROVE WholeInv'
  <2>1. \A p \in Paths : dir[p] # c
    BY <1>25 DEF CopyOpen
  <2>2. \A d \in Calls : pc[d] = "copyFill" => fd[d] # c
    BY <1>25 DEF CopyOpen
  <2>3. fd'[c] = dir[op[c].path] /\ dir[op[c].path] # NoFile
    BY <1>25 DEF CopyOpen, Exists
  <2> QED BY <1>25, <2>1, <2>2, <2>3 DEF CopyOpen, Goto
<1>26. ASSUME NEW c \in Calls, CopyOpenFails(c) PROVE WholeInv'
  BY <1>26 DEF CopyOpenFails, Goto
<1>27. ASSUME NEW c \in Calls, CopyFill(c) PROVE WholeInv'
  <2>1. inode'[c].whole = inode[fd[c]].whole
    BY <1>27 DEF CopyFill, File
  <2> QED BY <1>27, <2>1 DEF CopyFill, Goto
<1>28. ASSUME NEW c \in Calls, CopyRename(c) PROVE WholeInv'
  BY <1>28 DEF CopyRename, Goto
<1>29. ASSUME NEW c \in Calls, CopyRenameFails(c) PROVE WholeInv'
  BY <1>29 DEF CopyRenameFails, Goto
<1>30. ASSUME NEW c \in Calls, MoveStat(c) PROVE WholeInv'
  BY <1>30 DEF MoveStat, Goto, Is, Exists
<1>31. ASSUME NEW c \in Calls, MoveCheckDst(c) PROVE WholeInv'
  BY <1>31 DEF MoveCheckDst, Goto, Exists
<1>32. ASSUME NEW c \in Calls, Move(c) PROVE WholeInv'
  BY <1>32 DEF Move, Goto, Exists
<1>33. ASSUME NEW c \in Calls, DeleteStat(c) PROVE WholeInv'
  BY <1>33 DEF DeleteStat, Goto, Is, Exists
<1>34. ASSUME NEW c \in Calls, DeleteRecheck(c) PROVE WholeInv'
  BY <1>34 DEF DeleteRecheck, Goto, Exists
<1>35. ASSUME NEW c \in Calls, Delete(c) PROVE WholeInv'
  BY <1>35 DEF Delete, Goto, Exists
<1>36. ASSUME NEW c \in Calls, MoveOrDeleteFails(c) PROVE WholeInv'
  BY <1>36 DEF MoveOrDeleteFails, Goto
<1>37. ASSUME UNCHANGED vars PROVE WholeInv'
  BY <1>37 DEF vars
<1> QED
  BY <1>1, <1>2, <1>3, <1>4, <1>5, <1>6, <1>7, <1>8, <1>9, <1>10, <1>11, <1>12,
     <1>13, <1>14, <1>15, <1>16, <1>17, <1>18, <1>19, <1>20, <1>21, <1>22,
     <1>23, <1>24, <1>25, <1>26, <1>27, <1>28, <1>29, <1>30, <1>31, <1>32,
     <1>33, <1>34, <1>35, <1>36, <1>37 DEF Next, ReadSteps, ApplySteps,
     WriteSteps, MoveSteps

\* Every step keeps what a call reports in line with what it changed.
LEMMA ResultStep ==
    ASSUME TypeOK, WholeInv, ResultInv, HonestResults, [Next]_vars
    PROVE  ResultInv' /\ HonestResults'
<1> USE Names, RequestType DEF TypeOK, WholeInv, ResultInv, HonestResults, Writing, Moving, Is, Steps, Ended, fsVars
<1>1. ASSUME Crash PROVE ResultInv' /\ HonestResults'
  BY <1>1 DEF Crash, Ended
<1>2. ASSUME NEW c \in Calls, NEW o \in Ops, Begin(c, o) PROVE ResultInv' /\ HonestResults'
  BY <1>2 DEF Begin, Goto, Exists, At
<1>3. ASSUME NEW c \in Calls, NotFound(c) PROVE ResultInv' /\ HonestResults'
  BY <1>3 DEF NotFound, Goto, Exists, Is
<1>4. ASSUME NEW c \in Calls, Found(c) PROVE ResultInv' /\ HonestResults'
  BY <1>4 DEF Found, Goto, Exists, Is, Changers
<1>5. ASSUME NEW c \in Calls, HashCheck(c) PROVE ResultInv' /\ HonestResults'
  BY <1>5 DEF HashCheck, Goto
<1>6. ASSUME NEW c \in Calls, NewFile(c) PROVE ResultInv' /\ HonestResults'
  BY <1>6 DEF NewFile, Goto, Is, Exists, EmptyBuf
<1>7. ASSUME NEW c \in Calls, ReadFails(c) PROVE ResultInv' /\ HonestResults'
  BY <1>7 DEF ReadFails, Goto, Is, EmptyBuf
<1>8. ASSUME NEW c \in Calls, Read(c) PROVE ResultInv' /\ HonestResults'
  BY <1>8 DEF Read, Goto, Is, Exists, At, EmptyBuf
<1>9. ASSUME NEW c \in Calls, ApplyEdit(c) PROVE ResultInv' /\ HonestResults'
  BY <1>9 DEF ApplyEdit, Goto, Is, AfterLast
<1>10. ASSUME NEW c \in Calls, ApplyPatch(c) PROVE ResultInv' /\ HonestResults'
  BY <1>10 DEF ApplyPatch, Goto, Is, AfterLast
<1>11. ASSUME NEW c \in Calls, ApplyRegex(c) PROVE ResultInv' /\ HonestResults'
  BY <1>11 DEF ApplyRegex, Goto, Is, AfterLast
<1>12. ASSUME NEW c \in Calls, Convert(c) PROVE ResultInv' /\ HonestResults'
  BY <1>12 DEF Convert, Goto, Is
<1>13. ASSUME NEW c \in Calls, StatPerm(c) PROVE ResultInv' /\ HonestResults'
  BY <1>13 DEF StatPerm, Goto, Exists, At
<1>14. ASSUME NEW c \in Calls, CreateTemp(c) PROVE ResultInv' /\ HonestResults'
  BY <1>14 DEF CreateTemp, Goto, EmptyFile
<1>15. ASSUME NEW c \in Calls, CreateTempFails(c) PROVE ResultInv' /\ HonestResults'
  BY <1>15 DEF CreateTempFails, Goto
<1>16. ASSUME NEW c \in Calls, FillTemp(c) PROVE ResultInv' /\ HonestResults'
  BY <1>16 DEF FillTemp, Goto
<1>17. ASSUME NEW c \in Calls, FillTempFails(c) PROVE ResultInv' /\ HonestResults'
  BY <1>17 DEF FillTempFails, Goto
<1>18. ASSUME NEW c \in Calls, Rename(c) PROVE ResultInv' /\ HonestResults'
  BY <1>18 DEF Rename, Goto
<1>19. ASSUME NEW c \in Calls, RenameFails(c) PROVE ResultInv' /\ HonestResults'
  BY <1>19 DEF RenameFails, Goto
<1>20. ASSUME NEW c \in Calls, Truncate(c) PROVE ResultInv' /\ HonestResults'
  BY <1>20 DEF Truncate, Goto, Exists, EmptyFile
<1>21. ASSUME NEW c \in Calls, WriteInPlace(c) PROVE ResultInv' /\ HonestResults'
  BY <1>21 DEF WriteInPlace, Goto
<1>22. ASSUME NEW c \in Calls, WriteInPlaceFails(c) PROVE ResultInv' /\ HonestResults'
  BY <1>22 DEF WriteInPlaceFails, Goto
<1>23. ASSUME NEW c \in Calls, CopyStat(c) PROVE ResultInv' /\ HonestResults'
  BY <1>23 DEF CopyStat, Goto, Is, Exists, At
<1>24. ASSUME NEW c \in Calls, CopyCheckDst(c) PROVE ResultInv' /\ HonestResults'
  BY <1>24 DEF CopyCheckDst, Goto, Exists
<1>25. ASSUME NEW c \in Calls, CopyOpen(c) PROVE ResultInv' /\ HonestResults'
  BY <1>25 DEF CopyOpen, Goto, Exists, EmptyFile
<1>26. ASSUME NEW c \in Calls, CopyOpenFails(c) PROVE ResultInv' /\ HonestResults'
  BY <1>26 DEF CopyOpenFails, Goto
<1>27. ASSUME NEW c \in Calls, CopyFill(c) PROVE ResultInv' /\ HonestResults'
  BY <1>27 DEF CopyFill, Goto
<1>28. ASSUME NEW c \in Calls, CopyRename(c) PROVE ResultInv' /\ HonestResults'
  BY <1>28 DEF CopyRename, Goto
<1>29. ASSUME NEW c \in Calls, CopyRenameFails(c) PROVE ResultInv' /\ HonestResults'
  BY <1>29 DEF CopyRenameFails, Goto
<1>30. ASSUME NEW c \in Calls, MoveStat(c) PROVE ResultInv' /\ HonestResults'
  BY <1>30 DEF MoveStat, Goto, Is, Exists
<1>31. ASSUME NEW c \in Calls, MoveCheckDst(c) PROVE ResultInv' /\ HonestResults'
  BY <1>31 DEF MoveCheckDst, Goto, Exists
<1>32. ASSUME NEW c \in Calls, Move(c) PROVE ResultInv' /\ HonestResults'
  BY <1>32 DEF Move, Goto, Exists
<1>33. ASSUME NEW c \in Calls, DeleteStat(c) PROVE ResultInv' /\ HonestResults'
  BY <1>33 DEF DeleteStat, Goto, Is, Exists
<1>34. ASSUME NEW c \in Calls, DeleteRecheck(c) PROVE ResultInv' /\ HonestResults'
  BY <1>34 DEF DeleteRecheck, Goto, Exists
<1>35. ASSUME NEW c \in Calls, Delete(c) PROVE ResultInv' /\ HonestResults'
  BY <1>35 DEF Delete, Goto, Exists
<1>36. ASSUME NEW c \in Calls, MoveOrDeleteFails(c) PROVE ResultInv' /\ HonestResults'
  BY <1>36 DEF MoveOrDeleteFails, Goto
<1>37. ASSUME UNCHANGED vars PROVE ResultInv' /\ HonestResults'
  BY <1>37 DEF vars
<1> QED
  BY <1>1, <1>2, <1>3, <1>4, <1>5, <1>6, <1>7, <1>8, <1>9, <1>10, <1>11, <1>12,
     <1>13, <1>14, <1>15, <1>16, <1>17, <1>18, <1>19, <1>20, <1>21, <1>22,
     <1>23, <1>24, <1>25, <1>26, <1>27, <1>28, <1>29, <1>30, <1>31, <1>32,
     <1>33, <1>34, <1>35, <1>36, <1>37 DEF Next, ReadSteps, ApplySteps,
     WriteSteps, MoveSteps

-----------------------------------------------------------------------------
(***************************************************************************)
(* What edits and hunks make of a text.  The proofs are by induction over  *)
(* their number; the induction principle is about a set of numbers, which  *)
(* the provers can be given as {n \in Nat : ...}.                          *)
(***************************************************************************)

\* The lines hunk h removes are lines of s; s with the d lines from k on
\* replaced by a.
Fits(s, h) == h.srcStart > 0 /\ h.srcStart + Len(h.del) <= Len(s) + 1
Splice(s, k, d, a) == SubSeq(s, 1, k - 1) \o a \o SubSeq(s, k + d, Len(s))

\* r is lines m to n of s; r is u, a and v one after the other.
IsPart(r, s, m, n) == Len(r) = n - m + 1 /\ \A i \in 1 .. n - m + 1 : r[i] = s[i + m - 1]
AreJoined(r, u, a, v) == /\ Len(r) = Len(u) + Len(a) + Len(v)
                         /\ \A i \in 1 .. Len(u) : r[i] = u[i]
                         /\ \A i \in 1 .. Len(a) : r[Len(u) + i] = a[i]
                         /\ \A i \in 1 .. Len(v) : r[Len(u) + Len(a) + i] = v[i]

\* r is s with the d lines from k on replaced by those of a.
IsSplice(r, s, k, d, a) ==
    /\ Len(r) = Len(s) + Len(a) - d
    /\ \A i \in 1 .. k - 1 : r[i] = s[i]
    /\ \A i \in 1 .. Len(a) : r[k - 1 + i] = a[i]
    /\ \A i \in k + d .. Len(s) : r[i + Len(a) - d] = s[i]

\* f[i] is s after the first i edits; after the last i hunks, each of which fits.
EditsUpTo(f, n, s, es) == f[0] = s /\ \A i \in 1 .. n : f[i] = Replaced(f[i - 1], es[i])
HunksUpTo(f, n, s, hs) ==
    /\ f[0] = s
    /\ \A i \in 1 .. n : /\ Fits(f[i - 1], hs[Len(hs) + 1 - i])
                         /\ f[i] = ApplyHunk(f[i - 1], hs[Len(hs) + 1 - i])

\* Induction over the natural numbers, for a set.
LEMMA SetInduction ==
    ASSUME NEW S, 0 \in S, \A n \in Nat : n \in S => n + 1 \in S
    PROVE  \A n \in Nat : n \in S
<1> DEFINE T == Nat \ S
<1> SUFFICES ASSUME T # {} PROVE FALSE
  OBVIOUS
<1>1. PICK x \in T : \A y \in T : ~ (<<y, x>> \in OpToRel(<, Nat))
  BY WFMin, NatLessThanWellFounded, Zenon
<1>2. x \in Nat /\ x # 0 /\ x - 1 \in Nat /\ x - 1 < x
  OBVIOUS
<1>3. x - 1 \in S
  <2> SUFFICES ASSUME x - 1 \in T PROVE FALSE
    BY <1>2
  <2>1. <<x - 1, x>> \in OpToRel(<, Nat)
    BY <1>2, Zenon DEF OpToRel
  <2> QED BY <1>1, <2>1
<1> QED BY <1>2, <1>3

\* A sequence of edits done one after the other is what EditsDone says.
LEMMA EditsAre ==
    ASSUME NEW s \in Text, NEW es, Len(es) \in Nat, NEW f \in [0 .. Len(es) -> Text],
           EditsUpTo(f, Len(es), s, es)
    PROVE  EditsDone(s, es) = f[Len(es)]
<1> DEFINE N == Len(es)
           Done(h) == h = [n \in 0 .. N |-> IF n = 0 THEN s ELSE Replaced(h[n - 1], es[n])]
<1>1. ASSUME NEW h, Done(h) PROVE h[N] = f[N]
  <2> DEFINE S == {n \in Nat : n <= N => h[n] = f[n]}
  <2>1. 0 \in S
    BY <1>1 DEF EditsUpTo
  <2>2. ASSUME NEW n \in Nat, n \in S PROVE n + 1 \in S
    <3>1. CASE n + 1 <= N
      <4>1. h[n + 1] = Replaced(h[n], es[n + 1]) /\ f[n + 1] = Replaced(f[n], es[n + 1])
        BY <1>1, <3>1 DEF EditsUpTo
      <4> QED BY <4>1, <2>2, <3>1
    <3> QED BY <3>1
  <2> HIDE DEF S
  <2>3. \A n \in Nat : n \in S
    BY <2>1, <2>2, SetInduction
  <2> QED BY <2>3 DEF S
<1>2. Done(f)
  <2>1. \A n \in 0 .. N : f[n] = IF n = 0 THEN s ELSE Replaced(f[n - 1], es[n])
    BY DEF EditsUpTo
  <2> QED BY <2>1
<1>3. Done(CHOOSE h : Done(h))
  BY <1>2
<1>4. EditsDone(s, es) = (CHOOSE h : Done(h))[N]
  BY DEF EditsDone
<1> HIDE DEF Done
<1> QED BY <1>1, <1>3, <1>4

\* Where the elements of two sequences are in their concatenation.
LEMMA ConcatAt ==
    ASSUME NEW T, NEW s \in Seq(T), NEW t \in Seq(T)
    PROVE  /\ s \o t \in Seq(T) /\ Len(s \o t) = Len(s) + Len(t)
           /\ \A i \in 1 .. Len(s) : (s \o t)[i] = s[i]
           /\ \A i \in 1 .. Len(t) : (s \o t)[Len(s) + i] = t[i]
  OBVIOUS

\* A part of a sequence.
LEMMA PartAt ==
    ASSUME NEW T, NEW s \in Seq(T), NEW m \in Nat, m > 0, NEW n \in Nat, n <= Len(s), m <= n + 1
    PROVE  SubSeq(s, m, n) \in Seq(T) /\ IsPart(SubSeq(s, m, n), s, m, n)
<1>1. /\ SubSeq(s, m, n) \in Seq(T) /\ Len(SubSeq(s, m, n)) = n - m + 1
      /\ \A i \in 1 .. n - m + 1 : SubSeq(s, m, n)[i] = s[i + m - 1]
  OBVIOUS
<1> QED BY <1>1 DEF IsPart

\* And those of three sequences.
LEMMA ConcatThreeAt ==
    ASSUME NEW T, NEW u \in Seq(T), NEW a \in Seq(T), NEW v \in Seq(T)
    PROVE  u \o a \o v \in Seq(T) /\ AreJoined(u \o a \o v, u, a, v)
<1>1. PICK w : w = u \o a
  OBVIOUS
<1>2. /\ w \in Seq(T) /\ Len(w) = Len(u) + Len(a)
      /\ \A i \in 1 .. Len(u) : w[i] = u[i]
      /\ \A i \in 1 .. Len(a) : w[Len(u) + i] = a[i]
  BY <1>1, ConcatAt
<1>3. PICK r : r = w \o v
  OBVIOUS
<1>a. w \in Seq(T)
  BY <1>2
<1>4. /\ r \in Seq(T) /\ Len(r) = Len(w) + Len(v)
      /\ \A i \in 1 .. Len(w) : r[i] = w[i]
      /\ \A i \in 1 .. Len(v) : r[Len(w) + i] = v[i]
  BY ONLY <1>a, <1>3, v \in Seq(T), ConcatAt
<1>5. u \o a \o v = r
  BY <1>1, <1>3
<1>6. Len(u) \in Nat /\ Len(a) \in Nat /\ Len(v) \in Nat
  OBVIOUS
<1>7. \A i \in 1 .. Len(u) : r[i] = u[i]
  BY <1>2, <1>4, <1>6
<1>8. \A i \in 1 .. Len(a) : r[Len(u) + i] = a[i]
  <2>1. \A i \in 1 .. Len(a) : Len(u) + i \in 1 .. Len(w)
    BY <1>2, <1>6
  <2> QED BY <1>2, <1>4, <2>1
<1>9. \A i \in 1 .. Len(v) : r[Len(u) + Len(a) + i] = v[i]
  BY <1>2, <1>4
<1>10. r \in Seq(T) /\ Len(r) = Len(u) + Len(a) + Len(v)
  BY <1>2, <1>4
<1>11. AreJoined(r, u, a, v)
  BY <1>7, <1>8, <1>9, <1>10 DEF AreJoined
<1> QED BY <1>5, <1>10, <1>11

\* Lines k to k + d - 1 make room for those of a.
LEMMA SpliceAt ==
    ASSUME NEW T, NEW s \in Seq(T), NEW a \in Seq(T), NEW k \in Nat, k > 0, NEW d \in Nat, k + d <= Len(s) + 1
    PROVE  Splice(s, k, d, a) \in Seq(T) /\ IsSplice(Splice(s, k, d, a), s, k, d, a)
<1>0. PICK r : r = Splice(s, k, d, a)
  OBVIOUS
<1>1. Len(s) \in Nat /\ Len(a) \in Nat
  OBVIOUS
<1>2. PICK u : u = SubSeq(s, 1, k - 1)
  OBVIOUS
<1>3. PICK v : v = SubSeq(s, k + d, Len(s))
  OBVIOUS
<1>a. u \in Seq(T) /\ IsPart(u, s, 1, k - 1)
  <2>1. k - 1 \in Nat /\ k - 1 <= Len(s) /\ 1 <= k - 1 + 1 /\ 1 \in Nat /\ 1 > 0
    BY <1>1
  <2> QED BY <1>2, <2>1, PartAt
<1>b. v \in Seq(T) /\ IsPart(v, s, k + d, Len(s))
  <2>1. k + d \in Nat /\ k + d > 0 /\ Len(s) <= Len(s) /\ k + d <= Len(s) + 1
    BY <1>1
  <2> QED BY <1>1, <1>3, <2>1, PartAt
<1>4. Len(u) = k - 1 /\ \A i \in 1 .. k - 1 : u[i] = s[i]
  BY <1>a DEF IsPart
<1>5. /\ Len(v) = Len(s) - (k + d) + 1
      /\ \A i \in 1 .. Len(s) - (k + d) + 1 : v[i] = s[i + (k + d) - 1]
  BY <1>b DEF IsPart
<1>6. r = u \o a \o v
  BY <1>0, <1>2, <1>3 DEF Splice
<1>c. r \in Seq(T) /\ AreJoined(r, u, a, v)
  BY <1>a, <1>b, <1>6, ConcatThreeAt
<1>7. /\ r \in Seq(T) /\ Len(r) = Len(u) + Len(a) + Len(v)
      /\ \A i \in 1 .. Len(u) : r[i] = u[i]
      /\ \A i \in 1 .. Len(a) : r[Len(u) + i] = a[i]
      /\ \A i \in 1 .. Len(v) : r[Len(u) + Len(a) + i] = v[i]
  BY <1>c DEF AreJoined
<1>8. Len(r) = Len(s) + Len(a) - d
  <2>1. Len(u) = k - 1 /\ Len(v) = Len(s) - (k + d) + 1 /\ Len(r) = Len(u) + Len(a) + Len(v)
    BY <1>4, <1>5, <1>7
  <2> QED BY ONLY <1>1, <2>1, k \in Nat, d \in Nat
<1>9. PICK n \in Nat : n = Len(s)
  BY <1>1
<1>10. PICK l \in Nat : l = Len(a)
  BY <1>1
<1>11. /\ \A i \in 1 .. k - 1 : r[i] = s[i]
       /\ \A i \in 1 .. l : r[k - 1 + i] = a[i]
       /\ \A i \in k + d .. n : r[i + l - d] = s[i]
  <2>1. /\ \A i \in 1 .. n - (k + d) + 1 : v[i] = s[i + (k + d) - 1]
        /\ \A i \in 1 .. k - 1 : r[i] = u[i]
        /\ \A i \in 1 .. l : r[k - 1 + i] = a[i]
        /\ \A i \in 1 .. n - (k + d) + 1 : r[k - 1 + l + i] = v[i]
    BY <1>4, <1>5, <1>7, <1>9, <1>10
  <2>2. \A i \in 1 .. k - 1 : r[i] = s[i]
    BY <1>4, <2>1
  <2>3. ASSUME NEW i \in k + d .. n PROVE r[i + l - d] = s[i]
    <3>1. PICK j : j = i + 1 - k - d
      OBVIOUS
    <3>2. j \in 1 .. n - (k + d) + 1 /\ j + (k + d) - 1 = i /\ k - 1 + l + j = i + l - d
      BY ONLY <3>1, i \in k + d .. n, k \in Nat, d \in Nat, n \in Nat, l \in Nat, k > 0
    <3>3. v[j] = s[j + (k + d) - 1] /\ r[k - 1 + l + j] = v[j]
      BY <2>1, <3>2
    <3> QED BY <3>2, <3>3
  <2> QED BY <2>1, <2>2, <2>3
<1>12. IsSplice(r, s, k, d, a)
  BY <1>8, <1>9, <1>10, <1>11 DEF IsSplice
<1> QED BY <1>0, <1>7, <1>12

\* The lines of a text after a hunk that fits at line k.
LEMMA HunkAt ==
    ASSUME NEW s \in Text, NEW h \in Hunk, NEW k \in Nat, k > 0, k + Len(h.del) <= Len(s) + 1
    PROVE  /\ ApplyHunk(s, [h EXCEPT !.srcStart = k]) \in Text
           /\ IsSplice(ApplyHunk(s, [h EXCEPT !.srcStart = k]), s, k, Len(h.del), h.add)
<1> DEFINE g == [h EXCEPT !.srcStart = k]
<1>1. g.srcStart = k /\ g.del = h.del /\ g.add = h.add
  BY DEF Hunk
<1>2. h.add \in Seq(Tokens \cup {Garbage}) /\ Len(h.del) \in Nat
  BY DEF Hunk
<1> HIDE DEF g
<1>3. ApplyHunk(s, g) = Splice(s, k, Len(h.del), h.add)
  BY <1>1 DEF ApplyHunk, Splice
<1>4. s \in Seq(Tokens \cup {Garbage})
  BY DEF Text
<1>5. /\ Splice(s, k, Len(h.del), h.add) \in Seq(Tokens \cup {Garbage})
      /\ IsSplice(Splice(s, k, Len(h.del), h.add), s, k, Len(h.del), h.add)
  BY <1>2, <1>4, SpliceAt
<1> QED BY <1>3, <1>5 DEF Text, g

\* t is s with what is up to line e changed, and sh lines longer for it.
Back(t, s, e, sh) == /\ Len(t) = Len(s) + sh /\ e + sh >= 0
                     /\ \A i \in e + 1 .. Len(s) : t[i + sh] = s[i]

\* z is t up to line e of the old text, and u after it.
Joined(z, t, u, e, sh) == /\ Len(z) = Len(u) + sh
                          /\ \A i \in 1 .. e + sh : z[i] = t[i]
                          /\ \A i \in e + 1 .. Len(u) : z[i + sh] = u[i]

\* A hunk behind the changed lines, moved by as many lines as the text grew.
LEMMA TailStep ==
    ASSUME NEW s \in Text, NEW t \in Text, NEW r \in Text, NEW a, Len(a) \in Nat,
           NEW k \in Nat, NEW d \in Nat, NEW e \in Nat, NEW sh \in Int,
           e < k, k + d <= Len(s) + 1, Back(t, s, e, sh), IsSplice(r, t, k + sh, d, a)
    PROVE  Back(r, s, k + d - 1, sh + Len(a) - d)
<1>1. PICK l \in Nat : l = Len(a)
  OBVIOUS
<1>2. Len(s) \in Nat /\ Len(t) \in Nat
  BY DEF Text
<1>a. Len(t) = Len(s) + sh /\ e + sh >= 0
  BY DEF Back
<1>b. Len(r) = Len(t) + l - d
  BY <1>1 DEF IsSplice
<1>c. PICK n \in Nat : n = Len(s)
  BY <1>2
<1>d. n + sh + l - d = n + (sh + l - d) /\ k + d - 1 + (sh + l - d) >= 0
  BY ONLY <1>a, e < k, k \in Nat, d \in Nat, e \in Nat, l \in Nat, n \in Nat, sh \in Int
<1>3. Len(r) = Len(s) + (sh + l - d) /\ k + d - 1 + (sh + l - d) >= 0
  BY <1>a, <1>b, <1>c, <1>d
<1>4. ASSUME NEW i \in k + d - 1 + 1 .. Len(s) PROVE r[i + (sh + l - d)] = s[i]
  <2>1. t[i + sh] = s[i] /\ i + sh \in k + sh + d .. Len(t)
    BY <1>2 DEF Back
  <2>2. r[i + sh + l - d] = t[i + sh]
    BY <1>1, <2>1 DEF IsSplice
  <2>3. i + sh + l - d = i + (sh + l - d)
    BY <1>1, <1>2
  <2> QED BY <2>1, <2>2, <2>3
<1> QED BY <1>1, <1>3, <1>4 DEF Back

\* The same hunk on both sides: where the two texts meet moves behind it.
LEMMA JoinedStep ==
    ASSUME NEW s \in Text, NEW t \in Text, NEW r \in Text, NEW u \in Text, NEW v \in Text, NEW z \in Text, NEW a, Len(a) \in Nat,
           NEW k \in Nat, NEW d \in Nat, NEW e \in Nat, NEW sh \in Int,
           e < k, k + d <= Len(u) + 1, k + d <= Len(s) + 1,
           Back(t, s, e, sh), IsSplice(r, t, k + sh, d, a),
           \A i \in 1 .. k - 1 : u[i] = s[i],
           IsSplice(v, u, k, d, a), Joined(z, t, v, e, sh)
    PROVE  Joined(z, r, u, k + d - 1, sh + Len(a) - d)
<1>1. PICK l \in Nat : l = Len(a)
  OBVIOUS
<1>2. Len(s) \in Nat /\ Len(t) \in Nat /\ Len(u) \in Nat /\ Len(v) \in Nat
  BY DEF Text
<1>3. Len(z) = Len(u) + (sh + l - d) /\ Len(v) = Len(u) + l - d
  <2>1. Len(z) = Len(v) + sh
    BY DEF Joined
  <2>2. Len(v) = Len(u) + l - d
    BY <1>1 DEF IsSplice
  <2> QED BY <1>1, <1>2, <2>1, <2>2
<1>4. ASSUME NEW i \in 1 .. k + d - 1 + (sh + l - d) PROVE z[i] = r[i]
  <2>1. CASE i <= e + sh
    <3>1. z[i] = t[i]
      BY <2>1 DEF Joined
    <3>a. i \in 1 .. k + sh - 1
      BY ONLY <2>1, e < k, i \in 1 .. k + d - 1 + (sh + l - d), k \in Nat, d \in Nat, l \in Nat, e \in Nat, sh \in Int
    <3>2. r[i] = t[i]
      BY ONLY <3>a, IsSplice(r, t, k + sh, d, a) DEF IsSplice
    <3> QED BY <3>1, <3>2
  <2>2. CASE i > e + sh /\ i < k + sh
    <3>1. PICK j \in Int : j = i - sh
      OBVIOUS
    <3>d. k - 1 <= Len(s)
      BY ONLY <1>2, k + d <= Len(s) + 1, k \in Nat, d \in Nat
    <3>e. k - 1 <= Len(v)
      BY ONLY <1>2, <1>3, k + d <= Len(u) + 1, k \in Nat, d \in Nat, l \in Nat
    <3>a. k - 1 <= Len(s) /\ k - 1 <= Len(v)
      BY <3>d, <3>e
    <3>b. j \in e + 1 .. k - 1 /\ j \in 1 .. k - 1 /\ j + sh = i
      BY <2>2, <3>1
    <3>2. j \in e + 1 .. k - 1 /\ j \in 1 .. k - 1 /\ j \in e + 1 .. Len(v) /\ j \in e + 1 .. Len(s) /\ j + sh = i
      BY <1>2, <3>a, <3>b
    <3>3. z[i] = v[j] /\ v[j] = u[j] /\ u[j] = s[j] /\ t[i] = s[j]
      BY <3>2 DEF Joined, IsSplice, Back
    <3>c. i \in 1 .. k + sh - 1
      BY <2>2
    <3>4. r[i] = t[i]
      BY ONLY <3>c, IsSplice(r, t, k + sh, d, a) DEF IsSplice
    <3> QED BY <3>3, <3>4
  <2>3. CASE i >= k + sh
    <3>1. PICK j \in Int : j = i - sh - k + 1
      OBVIOUS
    <3>2. /\ j \in 1 .. l /\ k + sh - 1 + j = i /\ k - 1 + j + sh = i
          /\ k - 1 + j \in e + 1 .. Len(v)
      <4>1. j \in 1 .. l /\ k + sh - 1 + j = i /\ k - 1 + j + sh = i
        BY ONLY <2>3, <3>1, i \in 1 .. k + d - 1 + (sh + l - d), j \in Int,
                k \in Nat, d \in Nat, l \in Nat, sh \in Int
      <4>2. k - 1 + j \in e + 1 .. Len(v)
        BY ONLY <1>2, <1>3, <4>1, e < k, k + d <= Len(u) + 1, k \in Nat, d \in Nat, l \in Nat, e \in Nat
      <4> QED BY <4>1, <4>2
    <3>a. r[k + sh - 1 + j] = a[j]
      BY <1>1, <3>2 DEF IsSplice
    <3>b. v[k - 1 + j] = a[j]
      BY <1>1, <3>2 DEF IsSplice
    <3>3. r[i] = a[j] /\ v[k - 1 + j] = a[j]
      BY <3>2, <3>a, <3>b
    <3>4. z[i] = v[k - 1 + j]
      BY <3>2 DEF Joined
    <3> QED BY <3>3, <3>4
  <2> QED BY <2>1, <2>2, <2>3
<1>5. ASSUME NEW i \in k + d - 1 + 1 .. Len(u) PROVE z[i + (sh + l - d)] = u[i]
  <2>1. PICK j \in Int : j = i + l - d
    BY <1>2
  <2>2. v[j] = u[i]
    BY <1>1, <2>1 DEF IsSplice
  <2>3. j \in e + 1 .. Len(v) /\ j + sh = i + (sh + l - d)
    BY <1>2, <1>3, <2>1
  <2>4. z[j + sh] = v[j]
    BY <2>3 DEF Joined
  <2> QED BY <2>2, <2>3, <2>4
<1> QED BY <1>1, <1>3, <1>4, <1>5 DEF Joined

\* By how many lines the first n hunks move what comes after them.
ShiftUpTo(f, n, hs) == f[0] = 0 /\ \A i \in 1 .. n : f[i] = f[i - 1] + Len(hs[i].add) - Len(hs[i].del)

\* What a hunk of a patch is made of.
LEMMA HunkLengths ==
    ASSUME NEW hs \in Seq(Hunk), NEW i \in 1 .. Len(hs)
    PROVE  /\ hs[i] \in Hunk /\ hs[i].srcStart \in Nat /\ hs[i].add \in Seq(Tokens)
           /\ Len(hs[i].add) \in Nat /\ Len(hs[i].del) \in Nat
<1>1. hs[i] \in Hunk
  OBVIOUS
<1> QED BY <1>1 DEF Hunk

\* There are shifts for every patch.
LEMMA ShiftsExist ==
    ASSUME NEW hs \in Seq(Hunk)
    PROVE  \E f \in [0 .. Len(hs) -> Int] : ShiftUpTo(f, Len(hs), hs)
<1> DEFINE N == Len(hs)
           S == {n \in Nat : n <= N => \E f \in [0 .. n -> Int] : ShiftUpTo(f, n, hs)}
<1>0. N \in Nat
  OBVIOUS
<1>1. 0 \in S
  <2> DEFINE f == [i \in 0 .. 0 |-> 0]
  <2>1. f \in [0 .. 0 -> Int] /\ ShiftUpTo(f, 0, hs)
    BY DEF ShiftUpTo
  <2> QED BY <2>1
<1>2. ASSUME NEW n \in Nat, n \in S PROVE n + 1 \in S
  <2> SUFFICES ASSUME n + 1 <= N PROVE \E f \in [0 .. n + 1 -> Int] : ShiftUpTo(f, n + 1, hs)
    OBVIOUS
  <2>1. PICK f \in [0 .. n -> Int] : ShiftUpTo(f, n, hs)
    BY <1>0, <1>2
  <2>a. n + 1 \in 1 .. Len(hs) /\ f[n] \in Int
    BY <1>0
  <2>b. Len(hs[n + 1].add) \in Nat /\ Len(hs[n + 1].del) \in Nat
    BY <2>a, HunkLengths
  <2>2. PICK x \in Int : x = f[n] + Len(hs[n + 1].add) - Len(hs[n + 1].del)
    <3>1. ASSUME NEW x \in Int, NEW y \in Nat, NEW z \in Nat PROVE x + y - z \in Int
      OBVIOUS
    <3>2. f[n] + Len(hs[n + 1].add) - Len(hs[n + 1].del) \in Int
      BY <2>a, <2>b, <3>1, Zenon
    <3> QED BY <3>2, Zenon
  <2> DEFINE g == [i \in 0 .. n + 1 |-> IF i <= n THEN f[i] ELSE x]
  <2>3. g \in [0 .. n + 1 -> Int] /\ g[n + 1] = x /\ \A i \in 0 .. n : g[i] = f[i]
    OBVIOUS
  <2> HIDE DEF g
  <2>4. g[0] = 0
    BY <2>1, <2>3 DEF ShiftUpTo
  <2>5. ASSUME NEW i \in 1 .. n + 1 PROVE g[i] = g[i - 1] + Len(hs[i].add) - Len(hs[i].del)
    <3>1. CASE i = n + 1
      BY <2>2, <2>3, <3>1
    <3>2. CASE i \in 1 .. n
      <4>1. i \in 0 .. n /\ i - 1 \in 0 .. n
        BY <3>2
      <4>2. f[i] = f[i - 1] + Len(hs[i].add) - Len(hs[i].del)
        BY <2>1, <3>2 DEF ShiftUpTo
      <4>3. g[i] = f[i] /\ g[i - 1] = f[i - 1]
        BY <2>3, <4>1
      <4> QED BY ONLY <4>2, <4>3
    <3> QED BY <3>1, <3>2
  <2> QED BY <2>3, <2>4, <2>5 DEF ShiftUpTo
<1> HIDE DEF S
<1>3. \A n \in Nat : n \in S
  BY <1>1, <1>2, SetInduction
<1> QED BY <1>0, <1>3 DEF S

\* Two functions that satisfy the equations of the shift agree.
LEMMA ShiftsUnique ==
    ASSUME NEW hs \in Seq(Hunk), NEW f, NEW g, ShiftUpTo(f, Len(hs), hs), ShiftUpTo(g, Len(hs), hs)
    PROVE  \A n \in 0 .. Len(hs) : f[n] = g[n]
<1> DEFINE N == Len(hs)
           S == {n \in Nat : n <= N => f[n] = g[n]}
<1>0. N \in Nat
  OBVIOUS
<1>1. 0 \in S
  BY DEF ShiftUpTo
<1>2. ASSUME NEW n \in Nat, n \in S PROVE n + 1 \in S
  <2> SUFFICES ASSUME n + 1 <= N PROVE f[n + 1] = g[n + 1]
    OBVIOUS
  <2>1. n + 1 \in 1 .. N /\ n + 1 - 1 = n /\ f[n] = g[n]
    BY <1>0, <1>2
  <2>2. PICK i \in 1 .. N : i = n + 1 /\ i - 1 = n
    BY <2>1
  <2>3. f[i] = f[i - 1] + Len(hs[i].add) - Len(hs[i].del)
    BY <2>2 DEF ShiftUpTo
  <2>4. g[i] = g[i - 1] + Len(hs[i].add) - Len(hs[i].del)
    BY <2>2 DEF ShiftUpTo
  <2> QED BY <2>1, <2>2, <2>3, <2>4
<1> HIDE DEF S
<1>3. \A n \in Nat : n \in S
  BY <1>1, <1>2, SetInduction
<1> QED BY <1>0, <1>3 DEF S

\* Hunks applied from the last on leave the lines before them alone.
LEMMA HeadKept ==
    ASSUME NEW s \in Text, NEW hs \in Seq(Hunk), InOrder(hs), NEW b \in [0 .. Len(hs) -> Text],
           HunksUpTo(b, Len(hs), s, hs), NEW k \in 0 .. Len(hs) - 1
    PROVE  \A i \in 1 .. hs[Len(hs) - k].srcStart - 1 : b[k][i] = s[i]
<1> DEFINE N == Len(hs)
           Start(m) == hs[N - m].srcStart
           S == {m \in Nat : m < N => \A i \in 1 .. Start(m) - 1 : b[m][i] = s[i]}
<1>0. N \in Nat
  OBVIOUS
<1>1. 0 \in S
  BY <1>0 DEF HunksUpTo
<1>2. ASSUME NEW m \in Nat, m \in S PROVE m + 1 \in S
  <2> SUFFICES ASSUME m + 1 < N, NEW i \in 1 .. Start(m + 1) - 1 PROVE b[m + 1][i] = s[i]
    OBVIOUS
  <2>1. PICK h \in Hunk : h = hs[N - m]
    BY <1>0
  <2>2. m + 1 \in 1 .. N /\ m + 1 - 1 = m /\ N + 1 - (m + 1) = N - m /\ m \in 0 .. N
    BY <1>0
  <2>3. Fits(b[m], h) /\ b[m + 1] = ApplyHunk(b[m], h) /\ b[m] \in Text
    <3>1. /\ Fits(b[m + 1 - 1], hs[N + 1 - (m + 1)])
          /\ b[m + 1] = ApplyHunk(b[m + 1 - 1], hs[N + 1 - (m + 1)])
      BY <2>2 DEF HunksUpTo
    <3> QED BY <2>1, <2>2, <3>1
  <2>4. h.srcStart \in Nat /\ h.srcStart > 0 /\ h.srcStart + Len(h.del) <= Len(b[m]) + 1 /\ Len(h.del) \in Nat
    BY <2>3 DEF Fits, Hunk
  <2>5. h = [h EXCEPT !.srcStart = h.srcStart]
    BY DEF Hunk
  <2>6. IsSplice(b[m + 1], b[m], h.srcStart, Len(h.del), h.add)
    BY <2>3, <2>4, <2>5, HunkAt
  <2>7. Start(m + 1) <= h.srcStart /\ Start(m + 1) \in Nat
    <3>1. N - (m + 1) \in 1 .. N /\ N - m \in 1 .. N /\ N - (m + 1) < N - m
      BY <1>0
    <3>2. hs[N - (m + 1)].srcStart + Len(hs[N - (m + 1)].del) <= hs[N - m].srcStart
      BY <3>1 DEF InOrder
    <3>3. hs[N - (m + 1)].srcStart \in Nat /\ Len(hs[N - (m + 1)].del) \in Nat
      BY <3>1, HunkLengths
    <3>4. hs[N - (m + 1)].srcStart + Len(hs[N - (m + 1)].del) <= h.srcStart
      BY <2>1, <3>2
    <3>5. ASSUME NEW x \in Nat, NEW y \in Nat, NEW z \in Nat, x + y <= z PROVE x <= z
      BY ONLY x \in Nat, y \in Nat, z \in Nat, x + y <= z
    <3> HIDE DEF N
    <3> QED BY <2>4, <3>3, <3>4, <3>5, Zenon
  <2>8. i \in 1 .. h.srcStart - 1 /\ b[m + 1][i] = b[m][i]
    <3>1. PICK x \in Nat, y \in Nat : x = Start(m + 1) /\ y = h.srcStart
      BY <2>4, <2>7
    <3>2. i \in 1 .. x - 1 /\ x <= y
      BY <2>7, <3>1
    <3>3. i \in 1 .. y - 1
      BY ONLY <3>2, x \in Nat, y \in Nat
    <3>4. i \in 1 .. h.srcStart - 1
      BY <3>1, <3>3
    <3> QED BY ONLY <2>6, <3>4 DEF IsSplice
  <2>9. h.srcStart = Start(m) /\ m < N
    BY <1>0, <2>1
  <2> QED BY <1>2, <2>8, <2>9
<1> HIDE DEF S
<1>3. \A m \in Nat : m \in S
  BY <1>1, <1>2, SetInduction
<1> QED BY <1>0, <1>3 DEF S

\* Texts that join with the old text behind all changes are the same.
LEMMA SameText ==
    ASSUME NEW s \in Text, NEW t \in Text, NEW z \in Text, NEW e \in Nat, NEW x \in Int,
           Back(t, s, e, x), Joined(z, t, s, e, x)
    PROVE  t = z
<1>1. PICK T : T = Tokens \cup {Garbage}
  OBVIOUS
<1>2. t \in Seq(T) /\ z \in Seq(T) /\ Len(s) \in Nat /\ Len(t) \in Nat
  BY <1>1 DEF Text
<1>3. Len(t) = Len(s) + x /\ Len(z) = Len(s) + x /\ e + x >= 0
  BY DEF Back, Joined
<1>4. ASSUME NEW i \in 1 .. Len(t) PROVE t[i] = z[i]
  <2>1. CASE i <= e + x
    BY <2>1 DEF Joined
  <2>2. CASE i > e + x
    <3>1. PICK j \in Int : j = i - x
      OBVIOUS
    <3>2. j \in e + 1 .. Len(s) /\ j + x = i
      BY <1>2, <1>3, <2>2, <3>1
    <3>3. t[j + x] = s[j] /\ z[j + x] = s[j]
      BY <3>2 DEF Back, Joined
    <3> QED BY <3>2, <3>3
  <2> QED BY <2>1, <2>2
<1>5. Len(t) = Len(z)
  BY <1>3
<1> QED BY <1>2, <1>4, <1>5, SeqEqual

\* The hunks taken from the first to the last, each moved.
MovedUpTo(f, n, s, hs, sh) ==
    f[0] = s /\ \A i \in 1 .. n : f[i] = ApplyHunk(f[i - 1], [hs[i] EXCEPT !.srcStart = @ + sh[i - 1]])

\* The last old line that the first m hunks look at.
Reach(hs, m) == IF m = 0 THEN 0 ELSE hs[m].srcStart + Len(hs[m].del) - 1

\* The next hunk starts behind what the ones before it reach, and fits.
LEMMA NextHunk ==
    ASSUME NEW s \in Text, NEW hs \in Seq(Hunk), InOrder(hs), NEW b \in [0 .. Len(hs) -> Text],
           HunksUpTo(b, Len(hs), s, hs), NEW m \in 0 .. Len(hs) - 1
    PROVE  /\ hs[m + 1].srcStart \in Nat /\ hs[m + 1] \in Hunk
           /\ Reach(hs, m) \in Nat /\ Reach(hs, m) < hs[m + 1].srcStart
           /\ hs[m + 1].srcStart + Len(hs[m + 1].del) <= Len(s) + 1
           /\ Fits(b[Len(hs) - m - 1], hs[m + 1])
           /\ b[Len(hs) - m] = ApplyHunk(b[Len(hs) - m - 1], hs[m + 1])
<1> DEFINE N == Len(hs)
<1>0. N \in Nat /\ m \in Nat /\ m + 1 \in 1 .. N
  OBVIOUS
<1>1. \A i \in 1 .. N : /\ hs[i] \in Hunk /\ hs[i].srcStart \in Nat
                        /\ Len(hs[i].del) \in Nat
  BY HunkLengths
<1>2. \A i \in 1 .. N : /\ Fits(b[i - 1], hs[N + 1 - i])
                        /\ b[i] = ApplyHunk(b[i - 1], hs[N + 1 - i])
  BY DEF HunksUpTo
<1>3. /\ Fits(b[N - m - 1], hs[m + 1]) /\ b[N - m] = ApplyHunk(b[N - m - 1], hs[m + 1])
  <2>1. PICK i \in 1 .. N : i = N - m /\ N + 1 - i = m + 1 /\ i - 1 = N - m - 1
    BY <1>0
  <2> QED BY <1>2, <2>1
<1>4. \A i \in 1 .. N : hs[i].srcStart > 0
  <2> SUFFICES ASSUME NEW i \in 1 .. N PROVE hs[i].srcStart > 0
    OBVIOUS
  <2>a. ASSUME NEW n \in Nat, NEW k \in 1 .. n PROVE n + 1 - k \in 1 .. n /\ n + 1 - (n + 1 - k) = k
    OBVIOUS
  <2>1. PICK j \in 1 .. N : j = N + 1 - i /\ N + 1 - j = i
    BY <1>0, <2>a, Zenon
  <2>2. Fits(b[j - 1], hs[N + 1 - j])
    BY <1>2
  <2>3. Fits(b[j - 1], hs[i])
    BY <2>1, <2>2
  <2> QED BY <2>3 DEF Fits
<1>5. Reach(hs, m) \in Nat /\ Reach(hs, m) < hs[m + 1].srcStart
  <2>1. CASE m = 0
    <3>1. hs[m + 1].srcStart > 0
      BY <1>0, <1>4
    <3> QED BY <2>1, <3>1 DEF Reach
  <2>2. CASE m # 0
    <3>1. m \in 1 .. N /\ m < m + 1
      BY <1>0, <2>2
    <3>2. hs[m].srcStart + Len(hs[m].del) <= hs[m + 1].srcStart
      BY <1>0, <3>1 DEF InOrder
    <3>3. hs[m].srcStart > 0 /\ hs[m].srcStart \in Nat /\ Len(hs[m].del) \in Nat /\ hs[m + 1].srcStart \in Nat
      BY <1>0, <1>1, <1>4, <3>1
    <3>4. Reach(hs, m) = hs[m].srcStart + Len(hs[m].del) - 1
      BY <2>2 DEF Reach
    <3>5. PICK x \in Nat, y \in Nat, z \in Nat :
             x = hs[m].srcStart /\ y = Len(hs[m].del) /\ z = hs[m + 1].srcStart
      BY <3>3
    <3>6. x > 0 /\ x + y <= z /\ Reach(hs, m) = x + y - 1
      BY <3>2, <3>3, <3>4, <3>5
    <3>7. x + y - 1 \in Nat /\ x + y - 1 < z
      BY ONLY <3>6, x \in Nat, y \in Nat, z \in Nat
    <3> QED BY <3>5, <3>6, <3>7, Zenon
  <2> QED BY <2>1, <2>2
<1>6. hs[m + 1].srcStart + Len(hs[m + 1].del) <= Len(s) + 1
  <2>1. N \in 1 .. N /\ 1 \in 1 .. N /\ N + 1 - 1 = N
    BY <1>0
  <2>2. Fits(b[1 - 1], hs[N + 1 - 1])
    BY <1>2, <2>1
  <2>3. hs[N].srcStart + Len(hs[N].del) <= Len(s) + 1
    BY <2>1, <2>2 DEF Fits, HunksUpTo
  <2>4. CASE m + 1 = N
    BY <2>3, <2>4
  <2>5. CASE m + 1 # N
    <3>1. m + 1 < N
      BY <1>0, <2>5
    <3>2. hs[m + 1].srcStart + Len(hs[m + 1].del) <= hs[N].srcStart
      BY <1>0, <2>1, <3>1 DEF InOrder
    <3>3. /\ hs[m + 1].srcStart \in Nat /\ Len(hs[m + 1].del) \in Nat
          /\ hs[N].srcStart \in Nat /\ Len(hs[N].del) \in Nat /\ Len(s) \in Nat
      BY <1>0, <1>1, <2>1 DEF Text
    <3>4. PICK x \in Nat, y \in Nat : x = hs[m + 1].srcStart /\ y = Len(hs[m + 1].del)
      BY <3>3
    <3>5. PICK z \in Nat, d \in Nat : z = hs[N].srcStart /\ d = Len(hs[N].del)
      BY <3>3
    <3>6. PICK l \in Nat : l = Len(s)
      BY <3>3
    <3>7. x + y <= z /\ z + d <= l + 1
      BY <2>3, <3>2, <3>4, <3>5, <3>6
    <3>8. x + y <= l + 1
      BY <3>7
    <3> QED BY <3>4, <3>6, <3>8
  <2> QED BY <2>4, <2>5
<1> QED BY <1>0, <1>1, <1>3, <1>5, <1>6

\* One hunk from the front: both texts and where they meet.
LEMMA FrontStep ==
    ASSUME NEW s \in Text, NEW h \in Hunk, NEW t \in Text, NEW u \in Text, NEW z \in Text, NEW e \in Nat, NEW sh \in Int,
           e < h.srcStart, h.srcStart + Len(h.del) <= Len(s) + 1, Fits(u, h),
           \A i \in 1 .. h.srcStart - 1 : u[i] = s[i],
           Back(t, s, e, sh), Joined(z, t, ApplyHunk(u, h), e, sh),
           NEW r, r = ApplyHunk(t, [h EXCEPT !.srcStart = @ + sh])
    PROVE  /\ r \in Text
           /\ Back(r, s, h.srcStart + Len(h.del) - 1, sh + Len(h.add) - Len(h.del))
           /\ Joined(z, r, u, h.srcStart + Len(h.del) - 1, sh + Len(h.add) - Len(h.del))
<1>0. h.srcStart \in Nat /\ Len(h.del) \in Nat /\ Len(h.add) \in Nat
  BY DEF Hunk
<1>1. PICK k \in Nat, d \in Nat, l \in Nat : k = h.srcStart /\ d = Len(h.del) /\ l = Len(h.add)
  BY <1>0
<1>2. Len(s) \in Nat /\ Len(t) \in Nat /\ Len(u) \in Nat
  BY DEF Text
<1>3. k > 0 /\ e < k /\ k + d <= Len(s) + 1 /\ k + d <= Len(u) + 1 /\ Len(t) = Len(s) + sh /\ e + sh >= 0
  BY <1>1 DEF Fits, Back
<1>a. PICK m \in Nat, n \in Nat : m = Len(s) /\ n = Len(t)
  BY <1>2
<1>b. e < k /\ k + d <= m + 1 /\ n = m + sh /\ e + sh >= 0
  BY <1>3, <1>a
<1>c. k + sh \in Nat /\ k + sh > 0 /\ k + sh + d <= n + 1
  BY ONLY <1>b, k \in Nat, d \in Nat, e \in Nat, m \in Nat, n \in Nat, sh \in Int
<1>4. k + sh \in Nat /\ k + sh > 0 /\ k + sh + d <= Len(t) + 1
  BY <1>a, <1>c
<1>5. h = [h EXCEPT !.srcStart = k] /\ [h EXCEPT !.srcStart = @ + sh] = [h EXCEPT !.srcStart = k + sh]
  BY <1>1 DEF Hunk
<1>6. r \in Text /\ IsSplice(r, t, k + sh, d, h.add)
  <2>1. k + sh + Len(h.del) <= Len(t) + 1
    BY <1>1, <1>4
  <2>2. /\ ApplyHunk(t, [h EXCEPT !.srcStart = k + sh]) \in Text
        /\ IsSplice(ApplyHunk(t, [h EXCEPT !.srcStart = k + sh]), t, k + sh, Len(h.del), h.add)
    BY <1>4, <2>1, HunkAt, Zenon
  <2> QED BY <1>1, <1>5, <2>2, Zenon
<1>7. ApplyHunk(u, h) \in Text /\ IsSplice(ApplyHunk(u, h), u, k, d, h.add)
  <2>1. k + Len(h.del) <= Len(u) + 1
    BY <1>1, <1>3
  <2>2. /\ ApplyHunk(u, [h EXCEPT !.srcStart = k]) \in Text
        /\ IsSplice(ApplyHunk(u, [h EXCEPT !.srcStart = k]), u, k, Len(h.del), h.add)
    BY <1>3, <2>1, HunkAt, Zenon
  <2> QED BY <1>1, <1>5, <2>2, Zenon
<1>8. Len(h.add) \in Nat
  BY <1>1
<1>9. Back(r, s, k + d - 1, sh + Len(h.add) - d)
  BY <1>3, <1>6, <1>8, TailStep
<1>10. Joined(z, r, u, k + d - 1, sh + Len(h.add) - d)
  <2>1. \A i \in 1 .. k - 1 : u[i] = s[i]
    BY <1>1
  <2> QED BY <1>3, <1>6, <1>7, <1>8, <2>1, JoinedStep
<1> QED BY <1>1, <1>6, <1>9, <1>10

\* Hunks in order, applied from the last to the first as the code does, make
\* the text that they make from the first to the last, each moved by what the
\* ones before it have added.
LEMMA PatchAre ==
    ASSUME NEW s \in Text, NEW hs \in Seq(Hunk), InOrder(hs), NEW b \in [0 .. Len(hs) -> Text],
           HunksUpTo(b, Len(hs), s, hs)
    PROVE  PatchDone(s, hs) = b[Len(hs)]
<1>0. PICK N \in Nat : N = Len(hs)
  OBVIOUS
<1> DEFINE IsShift(f) == f = [n \in 0 .. Len(hs) |-> IF n = 0 THEN 0 ELSE f[n - 1] + Len(hs[n].add) - Len(hs[n].del)]
           shift == CHOOSE f : IsShift(f)
           IsDone(g) == g = [n \in 0 .. Len(hs) |->
                               IF n = 0 THEN s ELSE ApplyHunk(g[n - 1], [hs[n] EXCEPT !.srcStart = @ + shift[n - 1]])]
           done == CHOOSE g : IsDone(g)
<1>1. PatchDone(s, hs) = done[Len(hs)]
  BY DEF PatchDone
<1>2. PICK sh \in [0 .. N -> Int] : ShiftUpTo(sh, N, hs)
  BY <1>0, ShiftsExist
<1>3. IsShift(sh)
  <2>1. \A n \in 0 .. Len(hs) : sh[n] = IF n = 0 THEN 0 ELSE sh[n - 1] + Len(hs[n].add) - Len(hs[n].del)
    BY <1>0, <1>2 DEF ShiftUpTo
  <2> QED BY <1>0, <2>1
<1>4. IsShift(shift)
  BY <1>3
<1> HIDE DEF shift
<1>5. \A n \in 0 .. N : shift[n] = sh[n]
  <2>1. ShiftUpTo(shift, Len(hs), hs)
    <3>1. \A n \in 0 .. Len(hs) : shift[n] = IF n = 0 THEN 0 ELSE shift[n - 1] + Len(hs[n].add) - Len(hs[n].del)
      BY <1>4
    <3>2. 0 \in 0 .. Len(hs) /\ \A n \in 1 .. Len(hs) : n \in 0 .. Len(hs) /\ n # 0
      BY <1>0
    <3> QED BY <3>1, <3>2 DEF ShiftUpTo
  <2> QED BY <1>0, <1>2, <2>1, ShiftsUnique
<1> DEFINE S == {m \in Nat : m <= N =>
                   \E f \in [0 .. m -> Text] :
                      /\ MovedUpTo(f, m, s, hs, sh)
                      /\ Back(f[m], s, Reach(hs, m), sh[m])
                      /\ Joined(b[N], f[m], b[N - m], Reach(hs, m), sh[m])}
<1>6. 0 \in S
  <2> DEFINE f == [i \in 0 .. 0 |-> s]
  <2>1. f \in [0 .. 0 -> Text] /\ f[0] = s /\ MovedUpTo(f, 0, s, hs, sh)
    BY DEF MovedUpTo
  <2>2. Reach(hs, 0) = 0 /\ sh[0] = 0 /\ N - 0 = N
    BY <1>2 DEF Reach, ShiftUpTo
  <2>a. N \in 0 .. Len(hs)
    BY <1>0
  <2>b. b[N] \in Text
    BY <2>a, Zenon
  <2>3. Len(s) \in Nat /\ b[N] \in Text /\ Len(b[N]) \in Nat
    BY <2>b DEF Text
  <2>4. Back(s, s, 0, 0)
    BY <2>3 DEF Back
  <2>5. Joined(b[N], s, b[N], 0, 0)
    BY <2>3 DEF Joined
  <2> QED BY <2>1, <2>2, <2>4, <2>5
<1>7. ASSUME NEW m \in Nat, m \in S PROVE m + 1 \in S
  <2> SUFFICES ASSUME m + 1 <= N
               PROVE  \E f \in [0 .. m + 1 -> Text] :
                        /\ MovedUpTo(f, m + 1, s, hs, sh)
                        /\ Back(f[m + 1], s, Reach(hs, m + 1), sh[m + 1])
                        /\ Joined(b[N], f[m + 1], b[N - (m + 1)], Reach(hs, m + 1), sh[m + 1])
    OBVIOUS
  <2>1. PICK f \in [0 .. m -> Text] :
           /\ MovedUpTo(f, m, s, hs, sh)
           /\ Back(f[m], s, Reach(hs, m), sh[m])
           /\ Joined(b[N], f[m], b[N - m], Reach(hs, m), sh[m])
    BY <1>7
  <2>2. m \in 0 .. Len(hs) - 1 /\ m + 1 \in 1 .. Len(hs)
    BY <1>0
  <2>3. PICK h \in Hunk, e \in Nat : h = hs[m + 1] /\ e = Reach(hs, m)
    BY <2>2, NextHunk
  <2>4. /\ e < h.srcStart /\ h.srcStart + Len(h.del) <= Len(s) + 1
        /\ Fits(b[N - m - 1], h) /\ b[N - m] = ApplyHunk(b[N - m - 1], h)
    BY <1>0, <2>2, <2>3, NextHunk
  <2>a. N - m - 1 \in 0 .. N - 1 /\ N - (N - m - 1) = m + 1 /\ N \in 0 .. N
    BY ONLY m \in Nat, N \in Nat, m + 1 <= N
  <2>b. b[N - m - 1] \in Text /\ b[N] \in Text
    <3>1. N - m - 1 \in 0 .. Len(hs) /\ N \in 0 .. Len(hs)
      BY <1>0, <2>a
    <3> QED BY <3>1, Zenon
  <2>5. PICK u \in Text, z \in Text : u = b[N - m - 1] /\ z = b[N]
    BY <2>b
  <2>6. \A i \in 1 .. h.srcStart - 1 : u[i] = s[i]
    <3>1. PICK k \in 0 .. Len(hs) - 1 : k = N - m - 1 /\ Len(hs) - k = m + 1
      BY <1>0, <2>a, Zenon
    <3>2. \A i \in 1 .. hs[Len(hs) - k].srcStart - 1 : b[k][i] = s[i]
      BY HeadKept
    <3> QED BY <2>3, <2>5, <3>1, <3>2
  <2>7. PICK x \in Int, t \in Text : x = sh[m] /\ t = f[m]
    <3>1. m \in 0 .. N /\ m \in 0 .. m
      BY ONLY m \in Nat, N \in Nat, m + 1 <= N
    <3>2. sh[m] \in Int /\ f[m] \in Text
      BY <3>1, Zenon
    <3> QED BY <3>2
  <2>8. Back(t, s, e, x) /\ Joined(z, t, ApplyHunk(u, h), e, x)
    BY <2>1, <2>3, <2>4, <2>5, <2>7
  <2>9. PICK r : r = ApplyHunk(t, [h EXCEPT !.srcStart = @ + x])
    OBVIOUS
  <2>10. /\ r \in Text
         /\ Back(r, s, h.srcStart + Len(h.del) - 1, x + Len(h.add) - Len(h.del))
         /\ Joined(z, r, u, h.srcStart + Len(h.del) - 1, x + Len(h.add) - Len(h.del))
    BY <2>4, <2>5, <2>6, <2>8, <2>9, FrontStep
  <2>11. Reach(hs, m + 1) = h.srcStart + Len(h.del) - 1 /\ sh[m + 1] = x + Len(h.add) - Len(h.del)
    <3>1. PICK i \in 1 .. N : i = m + 1 /\ i - 1 = m /\ i # 0
      BY <1>0, <2>2
    <3>2. sh[i] = sh[i - 1] + Len(hs[i].add) - Len(hs[i].del)
      BY <1>2, <3>1 DEF ShiftUpTo
    <3>3. Reach(hs, i) = hs[i].srcStart + Len(hs[i].del) - 1
      BY <3>1 DEF Reach
    <3> QED BY <2>3, <2>7, <3>1, <3>2, <3>3
  <2> DEFINE g == [i \in 0 .. m + 1 |-> IF i <= m THEN f[i] ELSE r]
  <2>12. g \in [0 .. m + 1 -> Text] /\ g[m + 1] = r /\ \A i \in 0 .. m : g[i] = f[i]
    BY <2>10
  <2> HIDE DEF g
  <2>13. MovedUpTo(g, m + 1, s, hs, sh)
    <3>1. g[0] = s
      BY <2>1, <2>12 DEF MovedUpTo
    <3>2. ASSUME NEW i \in 1 .. m + 1
          PROVE  g[i] = ApplyHunk(g[i - 1], [hs[i] EXCEPT !.srcStart = @ + sh[i - 1]])
      <4>1. CASE i = m + 1
        <5>1. i - 1 = m /\ g[i - 1] = t
          BY <2>7, <2>12, <4>1
        <5> QED BY <2>3, <2>7, <2>9, <2>12, <4>1, <5>1
      <4>2. CASE i \in 1 .. m
        <5>1. i \in 0 .. m /\ i - 1 \in 0 .. m
          BY <4>2
        <5>2. f[i] = ApplyHunk(f[i - 1], [hs[i] EXCEPT !.srcStart = @ + sh[i - 1]])
          BY <2>1, <4>2 DEF MovedUpTo
        <5> QED BY <2>12, <5>1, <5>2
      <4> QED BY <4>1, <4>2
    <3> QED BY <3>1, <3>2 DEF MovedUpTo
  <2>14. N - (m + 1) = N - m - 1
    OBVIOUS
  <2> QED BY <2>5, <2>10, <2>11, <2>12, <2>13, <2>14
<1> HIDE DEF S
<1>8. N \in S
  BY <1>6, <1>7, SetInduction
<1>9. PICK f \in [0 .. N -> Text] : /\ MovedUpTo(f, N, s, hs, sh)
                                    /\ Back(f[N], s, Reach(hs, N), sh[N])
                                    /\ Joined(b[N], f[N], b[N - N], Reach(hs, N), sh[N])
  BY <1>8 DEF S
<1>10. f[N] = b[N]
  <2>1. PICK t \in Text, z \in Text, x \in Int : t = f[N] /\ z = b[N] /\ x = sh[N]
    BY <1>0, <1>2
  <2>2. PICK e \in Nat : e = Reach(hs, N)
    <3>1. CASE N = 0
      BY <3>1 DEF Reach
    <3>2. CASE N # 0
      <4>1. PICK k \in 0 .. Len(hs) - 1 : k = N - 1 /\ k + 1 = N /\ N \in 1 .. Len(hs)
        <5>1. N - 1 \in 0 .. N - 1 /\ N - 1 + 1 = N /\ N \in 1 .. N
          BY ONLY N \in Nat, <3>2
        <5> QED BY <1>0, <5>1, Zenon
      <4>2. hs[k + 1].srcStart \in Nat /\ Reach(hs, k) \in Nat /\ Reach(hs, k) < hs[k + 1].srcStart
        BY NextHunk
      <4>3. hs[N].srcStart \in Nat /\ hs[N].srcStart > 0 /\ Len(hs[N].del) \in Nat
        BY <4>1, <4>2, HunkLengths
      <4>4. Reach(hs, N) = hs[N].srcStart + Len(hs[N].del) - 1
        BY <3>2 DEF Reach
      <4>5. ASSUME NEW x1 \in Nat, NEW y1 \in Nat, x1 > 0 PROVE x1 + y1 - 1 \in Nat
        BY ONLY x1 \in Nat, y1 \in Nat, x1 > 0
      <4>6. hs[N].srcStart + Len(hs[N].del) - 1 \in Nat
        BY <4>3, <4>5, Zenon
      <4> QED BY <4>4, <4>6
    <3> QED BY <3>1, <3>2
  <2>3. Back(t, s, e, x) /\ Joined(z, t, s, e, x)
    <3>1. b[N - N] = s
      BY DEF HunksUpTo
    <3> QED BY <1>9, <2>1, <2>2, <3>1
  <2>4. t = z
    BY <2>3, SameText
  <2> QED BY <2>1, <2>4
<1>11. IsDone(f)
  <2>1. \A n \in 0 .. Len(hs) : f[n] = IF n = 0 THEN s ELSE ApplyHunk(f[n - 1], [hs[n] EXCEPT !.srcStart = @ + shift[n - 1]])
    <3> SUFFICES ASSUME NEW n \in 0 .. N
                 PROVE  f[n] = IF n = 0 THEN s ELSE ApplyHunk(f[n - 1], [hs[n] EXCEPT !.srcStart = @ + shift[n - 1]])
      BY <1>0
    <3>1. CASE n = 0
      BY <1>9, <3>1 DEF MovedUpTo
    <3>2. CASE n # 0
      <4>1. n \in 1 .. N /\ n - 1 \in 0 .. N
        BY <3>2
      <4>2. f[n] = ApplyHunk(f[n - 1], [hs[n] EXCEPT !.srcStart = @ + sh[n - 1]])
        BY <1>9, <4>1 DEF MovedUpTo
      <4> QED BY <1>5, <3>2, <4>1, <4>2
    <3> QED BY <3>1, <3>2
  <2> QED BY <1>0, <2>1
<1>12. IsDone(done)
  BY <1>11
<1> HIDE DEF done
<1>13. done[N] = f[N]
  <2>1. \A n \in 0 .. N : done[n] = IF n = 0 THEN s ELSE ApplyHunk(done[n - 1], [hs[n] EXCEPT !.srcStart = @ + shift[n - 1]])
    BY <1>0, <1>12
  <2>2. \A n \in 0 .. N : f[n] = IF n = 0 THEN s ELSE ApplyHunk(f[n - 1], [hs[n] EXCEPT !.srcStart = @ + shift[n - 1]])
    BY <1>0, <1>11
  <2> DEFINE U == {n \in Nat : n <= N => done[n] = f[n]}
  <2>3. 0 \in U
    BY <2>1, <2>2
  <2>4. ASSUME NEW n \in Nat, n \in U PROVE n + 1 \in U
    <3> SUFFICES ASSUME n + 1 <= N PROVE done[n + 1] = f[n + 1]
      OBVIOUS
    <3>1. PICK i \in 0 .. N : i = n + 1 /\ i # 0 /\ i - 1 = n
      OBVIOUS
    <3>2. done[n] = f[n]
      BY <2>4
    <3>3. /\ done[i] = ApplyHunk(done[i - 1], [hs[i] EXCEPT !.srcStart = @ + shift[i - 1]])
          /\ f[i] = ApplyHunk(f[i - 1], [hs[i] EXCEPT !.srcStart = @ + shift[i - 1]])
      BY <2>1, <2>2, <3>1
    <3> QED BY <3>1, <3>2, <3>3
  <2> HIDE DEF U
  <2>5. N \in U
    BY <2>3, <2>4, SetInduction
  <2> QED BY <2>5 DEF U
<1> QED BY <1>0, <1>1, <1>10, <1>13

-----------------------------------------------------------------------------
(***************************************************************************)
(* From reading a file to replacing it                                     *)
(***************************************************************************)
Early == {"idle", "stat", "hash", "read"}
Late  == {"apply", "perm", "temp", "fill", "rename"}

\* Only the places of calls change, or a request begins.
LEMMA PlaceOnly ==
    ASSUME UpdateInv, UNCHANGED <<inode, buf, seen>>,
           \A c \in Calls : /\ pc'[c] \in Early => pc[c] \in Early
                            /\ pc'[c] \in Late => pc[c] \in Late /\ op'[c] = op[c]
                            /\ pc'[c] = "rename" => pc[c] = "rename"
    PROVE  UpdateInv'
<1>1. SeenInv' /\ BomInv'
  BY DEF UpdateInv, SeenInv, BomInv, Early
<1>2. FormatInv'
  BY DEF UpdateInv, FormatInv, Late
<1>3. TempInv'
  BY DEF UpdateInv, TempInv
<1> QED BY <1>1, <1>2, <1>3 DEF UpdateInv

\* Only the buffer of call c, and what it has seen, change.
LEMMA BufferOnly ==
    ASSUME UpdateInv, UNCHANGED <<inode, op>>, NEW c \in Calls,
           \A d \in Calls \ {c} : buf'[d] = buf[d] /\ seen'[d] = seen[d] /\ pc'[d] = pc[d],
           pc'[c] \notin Early, pc'[c] # "rename", buf'[c].bom => buf'[c].charset # "legacy",
           pc'[c] \in Late /\ seen'[c].text # <<>> => FormatOf(buf'[c], seen'[c], op[c])
    PROVE  UpdateInv'
<1>1. SeenInv' /\ BomInv'
  BY DEF UpdateInv, SeenInv, BomInv, Early
<1>2. FormatInv'
  BY DEF UpdateInv, FormatInv, Late
<1>3. TempInv'
  BY DEF UpdateInv, TempInv
<1> QED BY <1>1, <1>2, <1>3 DEF UpdateInv

\* Only the file i changes, into h, by a step of call c.
LEMMA FileOnly ==
    ASSUME TypeOK, UpdateInv, UNCHANGED <<buf, seen, op>>, NEW c \in Calls, NEW i \in Inodes, NEW h,
           inode' = [inode EXCEPT ![i] = h], h.bom => h.charset # "legacy",
           \A d \in Calls \ {c} : pc'[d] = pc[d] /\ (pc[d] = "rename" => d # i),
           pc'[c] \notin Early, pc'[c] \in Late => pc[c] \in Late,
           pc'[c] = "rename" => i = c /\ \E m \in {buf[c].perm, "0600"} : h = Encoded(buf[c], m)
    PROVE  UpdateInv'
<1>1. \A j \in Inodes : inode'[j] = IF j = i THEN h ELSE inode[j]
  BY DEF TypeOK
<1>2. SeenInv' /\ BomInv'
  BY <1>1 DEF UpdateInv, SeenInv, BomInv, Early
<1>3. FormatInv'
  BY DEF UpdateInv, FormatInv, Late
<1>4. TempInv'
  BY <1>1 DEF UpdateInv, TempInv, Inodes
<1> QED BY <1>2, <1>3, <1>4 DEF UpdateInv

\* What is encoded has a BOM only if the buffer had one, in its charset.
LEMMA EncodedBom ==
    ASSUME NEW b \in Buffer, NEW m \in Modes, b.bom => b.charset # "legacy"
    PROVE  Encoded(b, m).bom => Encoded(b, m).charset # "legacy"
  BY BufferFields DEF Encoded

\* A write over another has the encoding of the later one.
LEMMA OverlayBom ==
    ASSUME NEW g \in File, NEW h \in File, h.bom => h.charset # "legacy"
    PROVE  Overlay(g, h).bom => Overlay(g, h).charset # "legacy"
<1> DEFINE t == h.text \o SubSeq(g.text, Len(h.text) + 1, Len(g.text))
<1>1. [h EXCEPT !.text = t, !.whole = FALSE].bom = h.bom /\ [h EXCEPT !.text = t, !.whole = FALSE].charset = h.charset
  <2> HIDE DEF t
  <2> QED BY DEF File
<1>2. Overlay(g, h) = h \/ Overlay(g, h) = [h EXCEPT !.text = t, !.whole = FALSE]
  BY DEF Overlay
<1> HIDE DEF t
<1> QED BY <1>1, <1>2

\* The fields of a buffer after an edit, and after what else changes one.
LEMMA BufferAfter ==
    ASSUME NEW b \in Buffer, NEW t, NEW k, NEW m
    PROVE  /\ LET x == [b EXCEPT !.text = t, !.n = k]
              IN  x.bom = b.bom /\ x.charset = b.charset /\ x.raw = b.raw
           /\ LET x == [b EXCEPT !.text = t]
              IN  x.bom = b.bom /\ x.charset = b.charset /\ x.raw = b.raw
           /\ LET x == [b EXCEPT !.perm = m]
              IN  x.bom = b.bom /\ x.charset = b.charset /\ x.raw = b.raw /\ x.text = b.text
           /\ LET x == [b EXCEPT !.charset = t, !.bom = k]
              IN  x.bom = k /\ x.charset = t /\ x.raw = b.raw /\ x.text = b.text
  BY DEF Buffer

\* A file that is read into a buffer gives it its format.
LEMMA ReadFormat ==
    ASSUME NEW g \in File, g.bom => g.charset # "legacy", NEW r \in ReadFileWithEncoding(g),
           NEW o \in Ops, NEW x,
           x = [EmptyBuf EXCEPT !.text    = IF o.tool = "write" THEN o.text ELSE r.text,
                                !.charset = r.charset,
                                !.bom     = r.bom,
                                !.raw     = r.raw /\ o.tool # "write"]
    PROVE  (x.bom => x.charset # "legacy") /\ FormatOf(x, g, o)
<1> DEFINE known == [text |-> g.text, charset |-> g.charset, bom |-> g.bom, raw |-> FALSE]
<1>1. \/ r.text = g.text /\ r.charset = g.charset /\ r.bom = g.bom /\ r.raw = FALSE
      \/ r.text = g.text /\ r.charset = "UTF-8" /\ r.bom = g.bom /\ r.raw = TRUE /\ g.charset = "legacy"
  <2>1. r = known \/ (r = [known EXCEPT !.charset = "UTF-8", !.raw = TRUE] /\ g.charset = "legacy")
    BY DEF ReadFileWithEncoding
  <2>2. CASE r = known
    BY <2>2
  <2>3. CASE r = [known EXCEPT !.charset = "UTF-8", !.raw = TRUE] /\ g.charset = "legacy"
    BY <2>3
  <2> QED BY <2>1, <2>2, <2>3
<1>2. /\ x.text = IF o.tool = "write" THEN o.text ELSE r.text
      /\ x.charset = r.charset /\ x.bom = r.bom
      /\ x.raw <=> r.raw /\ o.tool # "write"
  BY DEF EmptyBuf
<1>3. r.bom \in BOOLEAN /\ g.bom \in BOOLEAN
  BY ReadType, FileFields
<1> QED BY <1>1, <1>2, <1>3 DEF FormatOf

\* Every step keeps what was read together with what will be written.
LEMMA UpdateStep ==
    ASSUME FileInv, UpdateInv, [Next]_vars
    PROVE  UpdateInv'
<1> USE DEF fsVars
<1>0. TypeOK /\ OwnInv /\ SeenInv /\ BomInv /\ FormatInv
  BY DEF FileInv, UpdateInv
<1>a. EmptyFile \in File /\ EmptyBuf \in Buffer /\ ~EmptyFile.bom
  BY DEF EmptyFile, EmptyBuf, File, Buffer, Text, Charsets, Modes
<1>b. ASSUME NEW c \in Calls PROVE buf[c] \in Buffer /\ (buf[c].bom => buf[c].charset # "legacy")
  BY <1>0 DEF TypeOK, BomInv
<1>1. ASSUME Crash PROVE UpdateInv'
  <2>1. \A c \in Calls : pc'[c] \in Early \cup Late => pc'[c] = pc[c]
    BY <1>0, <1>1 DEF Crash, TypeOK, Early, Late, Ended
  <2> QED BY <1>1, <2>1, PlaceOnly DEF Crash, Early, Late
<1>2. ASSUME NEW c \in Calls, NEW o \in Ops, Begin(c, o) PROVE UpdateInv'
  <2>1. \A d \in Calls : \/ pc'[d] = pc[d] /\ op'[d] = op[d]
                         \/ pc[d] = "idle" /\ pc'[d] \in {"stat", "read"}
    BY <1>0, <1>2 DEF Begin, Goto, TypeOK
  <2>2. UNCHANGED <<inode, buf, seen>>
    BY <1>2 DEF Begin
  <2> QED BY <2>1, <2>2, PlaceOnly DEF Early, Late
<1>3. ASSUME NEW c \in Calls, NotFound(c) \/ Found(c) \/ HashCheck(c) PROVE UpdateInv'
  <2>1. \A d \in Calls : pc'[d] = pc[d] \/ (pc[d] \in Early /\ pc'[d] \in {"hash", "read", "error"})
    BY <1>0, <1>3 DEF NotFound, Found, HashCheck, Goto, TypeOK, Early
  <2>2. UNCHANGED <<inode, buf, seen, op>>
    BY <1>3 DEF NotFound, Found, HashCheck
  <2> QED BY <2>1, <2>2, PlaceOnly DEF Early, Late
<1>4. ASSUME NEW c \in Calls,
             \/ CreateTempFails(c) \/ FillTempFails(c) \/ Rename(c) \/ RenameFails(c) \/ WriteInPlaceFails(c)
             \/ CopyCheckDst(c) \/ CopyOpenFails(c) \/ CopyRename(c) \/ CopyRenameFails(c) \/ MoveStat(c)
             \/ MoveCheckDst(c) \/ Move(c) \/ DeleteStat(c) \/ DeleteRecheck(c) \/ Delete(c) \/ MoveOrDeleteFails(c)
      PROVE  UpdateInv'
  <2>1. \A d \in Calls : pc'[d] = pc[d] \/ pc'[d] \notin Early \cup Late
    BY <1>0, <1>4 DEF CreateTempFails, FillTempFails, Rename, RenameFails, WriteInPlaceFails, CopyCheckDst,
         CopyOpenFails, CopyRename, CopyRenameFails, MoveStat, MoveCheckDst, Move, DeleteStat, DeleteRecheck,
         Delete, MoveOrDeleteFails, Goto, TypeOK, Early, Late
  <2>2. UNCHANGED <<inode, buf, seen, op>>
    BY <1>4 DEF CreateTempFails, FillTempFails, Rename, RenameFails, WriteInPlaceFails, CopyCheckDst,
         CopyOpenFails, CopyRename, CopyRenameFails, MoveStat, MoveCheckDst, Move, DeleteStat, DeleteRecheck,
         Delete, MoveOrDeleteFails
  <2> QED BY <2>1, <2>2, PlaceOnly DEF Early, Late
<1>5. ASSUME UNCHANGED vars PROVE UpdateInv'
  BY <1>5, PlaceOnly DEF vars
<1>6. ASSUME NEW c \in Calls, NewFile(c) \/ (ReadFails(c) /\ Is(c, {"write"})) PROVE UpdateInv'
  <2>1. PICK x : buf' = [buf EXCEPT ![c] = x] /\ ~x.bom
    <3>1. CASE NewFile(c)
      <4>1. PICK cs \in Charsets :
              buf' = [buf EXCEPT ![c] = [EmptyBuf EXCEPT !.text = op[c].text, !.charset = cs]]
        BY <3>1 DEF NewFile
      <4>2. ~[EmptyBuf EXCEPT !.text = op[c].text, !.charset = cs].bom
        BY DEF EmptyBuf
      <4> QED BY <4>1, <4>2
    <3>2. CASE ReadFails(c) /\ Is(c, {"write"})
      <4>1. ~[EmptyBuf EXCEPT !.text = op[c].text].bom
        BY DEF EmptyBuf
      <4> QED BY <3>2, <4>1 DEF ReadFails
    <3> QED BY <1>6, <3>1, <3>2
  <2>3. ~buf'[c].bom
    BY <1>0, <2>1 DEF TypeOK
  <2>4. /\ UNCHANGED <<inode, op, seen>> /\ pc' = [pc EXCEPT ![c] = "perm"] /\ pc[c] \in Early
    BY <1>6 DEF NewFile, ReadFails, Goto, Early
  <2>5. seen'[c].text = <<>>
    BY <1>0, <2>4 DEF SeenInv, Early
  <2>6. \A d \in Calls \ {c} : buf'[d] = buf[d] /\ seen'[d] = seen[d] /\ pc'[d] = pc[d]
    BY <1>0, <2>1, <2>4 DEF TypeOK
  <2>7. pc'[c] = "perm"
    BY <1>0, <2>4 DEF TypeOK
  <2> QED BY <2>3, <2>4, <2>5, <2>6, <2>7, BufferOnly DEF Early
<1>7. ASSUME NEW c \in Calls, ReadFails(c), ~Is(c, {"write"}) PROVE UpdateInv'
  <2>1. \A d \in Calls : pc'[d] = pc[d] \/ pc'[d] = "error"
    BY <1>0, <1>7 DEF ReadFails, Goto, TypeOK
  <2>2. UNCHANGED <<inode, buf, seen, op>>
    BY <1>7 DEF ReadFails
  <2> QED BY <2>1, <2>2, PlaceOnly DEF Early, Late
<1>8. ASSUME NEW c \in Calls, Read(c) PROVE UpdateInv'
  <2> DEFINE g == At(op[c].path)
  <2>1. op[c] \in Ops /\ g \in File /\ (g.bom => g.charset # "legacy")
    BY <1>0, <1>8, RequestType DEF Read, Exists, At, TypeOK, BomInv
  <2>2. PICK r \in ReadFileWithEncoding(g) :
          buf' = [buf EXCEPT ![c] =
                    [EmptyBuf EXCEPT !.text    = IF Is(c, {"write"}) THEN op[c].text ELSE r.text,
                                     !.charset = r.charset,
                                     !.bom     = r.bom,
                                     !.raw     = r.raw /\ ~Is(c, {"write"})]]
    BY <1>8 DEF Read
  <2>3. /\ UNCHANGED <<inode, op>> /\ seen' = [seen EXCEPT ![c] = g]
        /\ pc' = [pc EXCEPT ![c] = IF Is(c, {"write"}) THEN "perm" ELSE "apply"]
    BY <1>8 DEF Read, Goto
  <2> HIDE DEF g
  <2>4. seen'[c] = g /\ pc'[c] \in {"perm", "apply"}
    BY <1>0, <2>3 DEF TypeOK
  <2>5. buf'[c] = [EmptyBuf EXCEPT !.text    = IF op[c].tool = "write" THEN op[c].text ELSE r.text,
                                   !.charset = r.charset,
                                   !.bom     = r.bom,
                                   !.raw     = r.raw /\ op[c].tool # "write"]
    BY <1>0, <2>2 DEF TypeOK, Is
  <2>6. (buf'[c].bom => buf'[c].charset # "legacy") /\ FormatOf(buf'[c], g, op[c])
    BY <2>1, <2>5, ReadFormat
  <2>7. \A d \in Calls \ {c} : buf'[d] = buf[d] /\ seen'[d] = seen[d] /\ pc'[d] = pc[d]
    BY <1>0, <2>2, <2>3 DEF TypeOK
  <2> QED BY <2>3, <2>4, <2>6, <2>7, BufferOnly DEF Early
<1>9. ASSUME NEW c \in Calls, NEW x,
             UNCHANGED <<inode, op, seen>>, buf' = [buf EXCEPT ![c] = x], pc[c] \in Late,
             \A d \in Calls \ {c} : pc'[d] = pc[d], pc'[c] \notin Early, pc'[c] # "rename",
             x.bom = buf[c].bom, x.charset = buf[c].charset, x.raw = buf[c].raw,
             op[c].tool \in {"write", "convert_encoding"} => x.text = buf[c].text
      PROVE  UpdateInv'
  <2>1. buf'[c] = x /\ \A d \in Calls \ {c} : buf'[d] = buf[d]
    BY <1>0, <1>9 DEF TypeOK
  <2>2. seen[c].text # <<>> => FormatOf(buf[c], seen[c], op[c])
    BY <1>0, <1>9 DEF FormatInv, Late
  <2>3. seen'[c].text # <<>> => FormatOf(buf'[c], seen'[c], op[c])
    BY <1>9, <2>1, <2>2 DEF FormatOf
  <2>4. buf'[c].bom => buf'[c].charset # "legacy"
    BY <1>9, <1>b, <2>1
  <2> QED BY <1>9, <2>1, <2>3, <2>4, BufferOnly
<1>10. ASSUME NEW c \in Calls, UNCHANGED <<inode, op, buf, seen>>, pc' = [pc EXCEPT ![c] = "error"]
       PROVE  UpdateInv'
  <2>1. \A d \in Calls : pc'[d] = pc[d] \/ pc'[d] = "error"
    BY <1>0, <1>10 DEF TypeOK
  <2> QED BY <1>10, <2>1, PlaceOnly DEF Early, Late
<1>11. ASSUME NEW c \in Calls, ApplyEdit(c) PROVE UpdateInv'
  <2> DEFINE n == buf[c].n + 1
             r == Replace(buf[c], op[c].edits[n])
             x == [buf[c] EXCEPT !.text = r[1], !.n = n]
  <2>1. CASE r = <<>>
    BY <1>10, <1>11, <2>1 DEF ApplyEdit, Goto
  <2>2. CASE r # <<>>
    <3>1. /\ UNCHANGED <<inode, op, seen>> /\ buf' = [buf EXCEPT ![c] = x] /\ pc[c] \in Late
          /\ op[c].tool \notin {"write", "convert_encoding"}
      BY <1>11, <2>2 DEF ApplyEdit, Is, Late
    <3>2. pc' = [pc EXCEPT ![c] = IF n = Len(op[c].edits) THEN AfterLast(c) ELSE "apply"]
      BY <1>11, <2>2 DEF ApplyEdit, Goto
    <3>3. pc'[c] \in {"ok", "perm", "apply"} /\ \A d \in Calls \ {c} : pc'[d] = pc[d]
      BY <1>0, <3>2 DEF TypeOK, AfterLast
    <3>4. x.bom = buf[c].bom /\ x.charset = buf[c].charset /\ x.raw = buf[c].raw
      BY <1>b, BufferAfter
    <3> HIDE DEF x
    <3> QED BY <1>9, <3>1, <3>3, <3>4 DEF Early
  <2> QED BY <2>1, <2>2
<1>12. ASSUME NEW c \in Calls, ApplyPatch(c) PROVE UpdateInv'
  <2> DEFINE n == buf[c].n + 1
             u == op[c].hunks[Len(op[c].hunks) + 1 - n]
             x == [buf[c] EXCEPT !.text = ApplyHunk(buf[c].text, u), !.n = n]
  <2>1. CASE ~HunkFits(buf[c], u)
    BY <1>10, <1>12, <2>1 DEF ApplyPatch, Goto
  <2>2. CASE HunkFits(buf[c], u)
    <3>1. /\ UNCHANGED <<inode, op, seen>> /\ buf' = [buf EXCEPT ![c] = x] /\ pc[c] \in Late
          /\ op[c].tool \notin {"write", "convert_encoding"}
      BY <1>12, <2>2 DEF ApplyPatch, Is, Late
    <3>2. pc' = [pc EXCEPT ![c] = IF n = Len(op[c].hunks) THEN AfterLast(c) ELSE "apply"]
      BY <1>12, <2>2 DEF ApplyPatch, Goto
    <3>3. pc'[c] \in {"ok", "perm", "apply"} /\ \A d \in Calls \ {c} : pc'[d] = pc[d]
      BY <1>0, <3>2 DEF TypeOK, AfterLast
    <3>4. x.bom = buf[c].bom /\ x.charset = buf[c].charset /\ x.raw = buf[c].raw
      BY <1>b, BufferAfter
    <3> HIDE DEF x
    <3> QED BY <1>9, <3>1, <3>3, <3>4 DEF Early
  <2> QED BY <2>1, <2>2
<1>13. ASSUME NEW c \in Calls, ApplyRegex(c) PROVE UpdateInv'
  <2> DEFINE t == IF buf[c].raw THEN buf[c].text ELSE Replaced(buf[c].text, op[c].edits[1])
             x == [buf[c] EXCEPT !.text = t]
  <2>1. /\ UNCHANGED <<inode, op, seen>> /\ buf' = [buf EXCEPT ![c] = x] /\ pc[c] \in Late
        /\ op[c].tool \notin {"write", "convert_encoding"}
    BY <1>13 DEF ApplyRegex, Is, Late
  <2>2. pc'[c] \in {"ok", "perm"} /\ \A d \in Calls \ {c} : pc'[d] = pc[d]
    BY <1>0, <1>13 DEF ApplyRegex, Goto, TypeOK, AfterLast
  <2>3. x.bom = buf[c].bom /\ x.charset = buf[c].charset /\ x.raw = buf[c].raw
    BY <1>b, BufferAfter
  <2> HIDE DEF x
  <2> QED BY <1>9, <2>1, <2>2, <2>3 DEF Early
<1>14. ASSUME NEW c \in Calls, Convert(c) PROVE UpdateInv'
  <2> DEFINE x == [buf[c] EXCEPT !.charset = op[c].charset, !.bom = op[c].bom]
  <2>1. /\ UNCHANGED <<inode, op, seen>> /\ buf' = [buf EXCEPT ![c] = x] /\ pc[c] = "apply"
        /\ op[c].tool = "convert_encoding"
    BY <1>14 DEF Convert, Is
  <2>2. pc'[c] \in {"ok", "perm"} /\ \A d \in Calls \ {c} : pc'[d] = pc[d]
    BY <1>0, <1>14 DEF Convert, Goto, TypeOK
  <2>3. x.bom = op[c].bom /\ x.charset = op[c].charset /\ x.raw = buf[c].raw /\ x.text = buf[c].text
    BY <1>b, BufferAfter
  <2>4. op[c].bom => op[c].charset = "UTF-8"
    BY <1>0, <2>1, FileAssumption DEF TypeOK
  <2> HIDE DEF x
  <2>5. buf'[c] = x /\ \A d \in Calls \ {c} : buf'[d] = buf[d] /\ seen'[d] = seen[d] /\ pc'[d] = pc[d]
    BY <1>0, <2>1, <2>2 DEF TypeOK
  <2>6. seen[c].text # <<>> => FormatOf(buf[c], seen[c], op[c])
    BY <1>0, <2>1 DEF FormatInv
  <2>7. seen'[c].text # <<>> => FormatOf(buf'[c], seen'[c], op[c])
    BY <2>1, <2>3, <2>5, <2>6 DEF FormatOf
  <2>8. buf'[c].bom => buf'[c].charset # "legacy"
    BY <2>3, <2>4, <2>5
  <2> QED BY <2>1, <2>2, <2>5, <2>7, <2>8, BufferOnly DEF Early
<1>15. ASSUME NEW c \in Calls, StatPerm(c) PROVE UpdateInv'
  <2> DEFINE m == IF Exists(op[c].path) THEN At(op[c].path).mode ELSE "0644"
             x == [buf[c] EXCEPT !.perm = m]
  <2>1. UNCHANGED <<inode, op, seen>> /\ buf' = [buf EXCEPT ![c] = x] /\ pc[c] \in Late
    BY <1>15 DEF StatPerm, Late
  <2>2. pc'[c] \in {"temp", "error"} /\ \A d \in Calls \ {c} : pc'[d] = pc[d]
    BY <1>0, <1>15 DEF StatPerm, Goto, TypeOK
  <2>3. x.bom = buf[c].bom /\ x.charset = buf[c].charset /\ x.raw = buf[c].raw /\ x.text = buf[c].text
    BY <1>b, BufferAfter
  <2> HIDE DEF x
  <2> QED BY <1>9, <2>1, <2>2, <2>3 DEF Early
<1>16. ASSUME NEW c \in Calls, CopyStat(c) PROVE UpdateInv'
  <2> DEFINE x == [buf[c] EXCEPT !.perm = At(op[c].path).mode]
  <2>1. UNCHANGED <<inode, op, seen>> /\ buf' = [buf EXCEPT ![c] = x] /\ pc' = [pc EXCEPT ![c] = "copyDst"]
    BY <1>16 DEF CopyStat, Goto
  <2>2. x.bom = buf[c].bom /\ x.charset = buf[c].charset
    BY <1>b, BufferAfter
  <2> HIDE DEF x
  <2>3. buf'[c] = x /\ \A d \in Calls \ {c} : buf'[d] = buf[d] /\ seen'[d] = seen[d] /\ pc'[d] = pc[d]
    BY <1>0, <2>1 DEF TypeOK
  <2>4. pc'[c] = "copyDst"
    BY <1>0, <2>1 DEF TypeOK
  <2>5. buf'[c].bom => buf'[c].charset # "legacy"
    BY <1>b, <2>2, <2>3
  <2> QED BY <2>1, <2>3, <2>4, <2>5, BufferOnly DEF Early, Late
<1>17. ASSUME NEW c \in Calls, CreateTemp(c) \/ CopyOpen(c) PROVE UpdateInv'
  <2>1. /\ UNCHANGED <<buf, seen, op>> /\ inode' = [inode EXCEPT ![c] = EmptyFile] /\ c \in Inodes
        /\ pc' = [pc EXCEPT ![c] = IF pc[c] = "temp" THEN "fill" ELSE "copyFill"] /\ pc[c] \in {"temp", "copyOpen"}
    BY <1>17 DEF CreateTemp, CopyOpen, Goto, Inodes
  <2>2. /\ pc'[c] \in {"fill", "copyFill"} /\ (pc'[c] = "fill" => pc[c] = "temp")
        /\ \A d \in Calls \ {c} : pc'[d] = pc[d]
    BY <1>0, <2>1 DEF TypeOK
  <2> QED BY <1>0, <1>a, <2>1, <2>2, FileOnly DEF Early, Late
<1>18. ASSUME NEW c \in Calls, FillTemp(c) PROVE UpdateInv'
  <2>1. PICK m \in {buf[c].perm, "0600"} : inode' = [inode EXCEPT ![c] = Encoded(buf[c], m)]
    BY <1>18 DEF FillTemp
  <2> DEFINE x == Encoded(buf[c], m)
  <2>2. m \in Modes
    BY <1>b, BufferFields DEF Modes
  <2>3. x.bom => x.charset # "legacy"
    BY <1>b, <2>2, EncodedBom
  <2>4. UNCHANGED <<buf, seen, op>> /\ c \in Inodes /\ pc' = [pc EXCEPT ![c] = "rename"] /\ pc[c] = "fill"
    BY <1>18 DEF FillTemp, Goto, Inodes
  <2>5. pc'[c] = "rename" /\ \A d \in Calls \ {c} : pc'[d] = pc[d]
    BY <1>0, <2>4 DEF TypeOK
  <2>6. \E k \in {buf[c].perm, "0600"} : x = Encoded(buf[c], k)
    OBVIOUS
  <2>7. inode' = [inode EXCEPT ![c] = x]
    BY <2>1
  <2> HIDE DEF x
  <2> QED BY <1>0, <2>3, <2>4, <2>5, <2>6, <2>7, FileOnly DEF Early, Late
<1>19. ASSUME NEW c \in Calls, Truncate(c) PROVE UpdateInv'
  <2> DEFINE p == op[c].path
             i == IF Exists(p) THEN dir[p] ELSE c
             x == [EmptyFile EXCEPT !.mode = IF Exists(p) THEN inode[i].mode ELSE buf[c].perm]
  <2>1. /\ UNCHANGED <<buf, seen, op>> /\ inode' = [inode EXCEPT ![i] = x]
        /\ pc' = [pc EXCEPT ![c] = "inplace"] /\ pc[c] = "truncate"
    BY <1>19 DEF Truncate, Goto
  <2>2. op[c] \in Ops /\ p \in Paths
    BY <1>0, <2>1, RequestType DEF TypeOK
  <2>3. i \in Inodes /\ \A d \in Calls \ {c} : pc[d] = "rename" => d # i
    BY <1>0, <2>2 DEF TypeOK, OwnInv, Settled, Exists, Inodes
  <2>4. ~x.bom
    BY DEF EmptyFile
  <2>5. pc'[c] = "inplace" /\ \A d \in Calls \ {c} : pc'[d] = pc[d]
    BY <1>0, <2>1 DEF TypeOK
  <2> HIDE DEF x, i
  <2> QED BY <1>0, <2>1, <2>3, <2>4, <2>5, FileOnly DEF Early, Late
<1>20. ASSUME NEW c \in Calls, WriteInPlace(c) PROVE UpdateInv'
  <2> DEFINE i == fd[c]
             x == Overlay(inode[i], Encoded(buf[c], inode[i].mode))
  <2>1. /\ UNCHANGED <<buf, seen, op>> /\ inode' = [inode EXCEPT ![i] = x]
        /\ pc' = [pc EXCEPT ![c] = "ok"] /\ pc[c] = "inplace"
    BY <1>20 DEF WriteInPlace, Goto
  <2>2. i \in Inodes /\ \A d \in Calls \ {c} : pc[d] = "rename" => d # i
    BY <1>0, <2>1 DEF TypeOK, OwnInv, Settled, Inodes
  <2>3. inode[i] \in File /\ inode[i].mode \in Modes
    BY <1>0, <2>2, FileFields DEF TypeOK
  <2>4. x.bom => x.charset # "legacy"
    BY <1>b, <2>3, EncodedType, EncodedBom, OverlayBom
  <2>5. pc'[c] = "ok" /\ \A d \in Calls \ {c} : pc'[d] = pc[d]
    BY <1>0, <2>1 DEF TypeOK
  <2> HIDE DEF x, i
  <2> QED BY <1>0, <2>1, <2>2, <2>4, <2>5, FileOnly DEF Early, Late
<1>21. ASSUME NEW c \in Calls, CopyFill(c) PROVE UpdateInv'
  <2> DEFINE x == [inode[fd[c]] EXCEPT !.mode = buf[c].perm]
  <2>1. /\ UNCHANGED <<buf, seen, op>> /\ inode' = [inode EXCEPT ![c] = x] /\ c \in Inodes
        /\ pc' = [pc EXCEPT ![c] = "copyRename"] /\ pc[c] = "copyFill"
    BY <1>21 DEF CopyFill, Goto, Inodes
  <2>2. fd[c] \in Inodes /\ inode[fd[c]] \in File
    BY <1>0, <2>1 DEF TypeOK
  <2>3. x.bom = inode[fd[c]].bom /\ x.charset = inode[fd[c]].charset
    BY <2>2 DEF File
  <2>4. x.bom => x.charset # "legacy"
    BY <1>0, <2>2, <2>3 DEF BomInv
  <2>5. pc'[c] = "copyRename" /\ \A d \in Calls \ {c} : pc'[d] = pc[d]
    BY <1>0, <2>1 DEF TypeOK
  <2> HIDE DEF x
  <2> QED BY <1>0, <2>1, <2>4, <2>5, FileOnly DEF Early, Late
<1> QED
  BY <1>1, <1>2, <1>3, <1>4, <1>5, <1>6, <1>7, <1>8, <1>11, <1>12, <1>13, <1>14, <1>15, <1>16,
     <1>17, <1>18, <1>19, <1>20, <1>21 DEF Next, ReadSteps, ApplySteps, WriteSteps, MoveSteps

-----------------------------------------------------------------------------
(***************************************************************************)
(* The text a call works on                                                *)
(***************************************************************************)

\* What call c has made so far of the text s it has read: the first edits, or
\* the last hunks, have been applied one after the other.
EditsMade(b, s, o) == \E f \in [0 .. b.n -> Text] : EditsUpTo(f, b.n, s, o.edits) /\ f[b.n] = b.text
HunksMade(b, s, o) == \E f \in [0 .. b.n -> Text] : HunksUpTo(f, b.n, s, o.hunks) /\ f[b.n] = b.text
TextOf(at, b, s, o) ==
    /\ o.tool \in {"edit", "multiedit"} =>
          /\ EditsMade(b, s, o)
          /\ at # "apply" => b.n = Len(o.edits) /\ ~b.raw
    /\ o.tool = "patch" =>
          /\ HunksMade(b, s, o)
          /\ at # "apply" => b.n = Len(o.hunks) /\ ~b.raw
    /\ o.tool = "regex_replace" =>
          b.text = IF at = "apply" THEN s ELSE Replaced(s, o.edits[1])
    /\ o.tool = "regex_replace" /\ at # "apply" => ~b.raw

TextInv == \A c \in Calls : pc[c] \in Late => TextOf(pc[c], buf[c], seen[c].text, op[c])

\* Only call c has moved.
LEMMA TextOnly ==
    ASSUME TextInv, NEW c \in Calls,
           \A d \in Calls \ {c} : buf'[d] = buf[d] /\ seen'[d] = seen[d] /\ op'[d] = op[d] /\ pc'[d] = pc[d],
           pc'[c] \in Late => TextOf(pc'[c], buf'[c], seen'[c].text, op'[c])
    PROVE  TextInv'
  BY DEF TextInv

\* No buffer has changed, and no call has passed the change it makes.
LEMMA TextPlace ==
    ASSUME TextInv, UNCHANGED <<buf, seen>>,
           \A d \in Calls : pc'[d] \in Late => /\ pc[d] \in Late /\ op'[d] = op[d]
                                               /\ pc'[d] = "apply" <=> pc[d] = "apply"
    PROVE  TextInv'
<1> SUFFICES ASSUME NEW d \in Calls, pc'[d] \in Late PROVE TextOf(pc'[d], buf'[d], seen'[d].text, op'[d])
  BY DEF TextInv
<1>1. TextOf(pc[d], buf[d], seen[d].text, op[d])
  BY DEF TextInv
<1>2. buf'[d] = buf[d] /\ seen'[d] = seen[d] /\ op'[d] = op[d] /\ (pc'[d] = "apply" <=> pc[d] = "apply")
  OBVIOUS
<1> QED BY <1>1, <1>2 DEF TextOf, EditsMade, HunksMade

\* A buffer that has just been filled.
LEMMA TextRead ==
    ASSUME NEW b \in Buffer, NEW s \in Text, NEW o, b.n = 0, b.text = s
    PROVE  TextOf("apply", b, s, o)
<1> DEFINE f == [i \in 0 .. 0 |-> s]
<1>1. f \in [0 .. b.n -> Text] /\ f[0] = s
  OBVIOUS
<1> HIDE DEF f
<1>2. \A i \in 1 .. b.n : FALSE
  OBVIOUS
<1>3. EditsMade(b, s, o)
  BY <1>1, <1>2 DEF EditsMade, EditsUpTo
<1>4. HunksMade(b, s, o)
  BY <1>1, <1>2 DEF HunksMade, HunksUpTo
<1> QED BY <1>3, <1>4 DEF TextOf

\* One more edit, and one more hunk.
LEMMA EditMade ==
    ASSUME NEW b \in Buffer, NEW x \in Buffer, NEW s \in Text, NEW o, EditsMade(b, s, o),
           x.n = b.n + 1, x.text = Replaced(b.text, o.edits[x.n])
    PROVE  EditsMade(x, s, o)
<1>1. PICK f \in [0 .. b.n -> Text] : EditsUpTo(f, b.n, s, o.edits) /\ f[b.n] = b.text
  BY DEF EditsMade
<1>2. PICK n \in Nat, t \in Text : n = b.n /\ t = x.text
  BY BufferFields
<1> DEFINE g == [i \in 0 .. n + 1 |-> IF i <= n THEN f[i] ELSE t]
<1>3. g \in [0 .. n + 1 -> Text] /\ g[n + 1] = t /\ \A i \in 0 .. n : g[i] = f[i]
  BY <1>2
<1> HIDE DEF g
<1>4. EditsUpTo(g, n + 1, s, o.edits)
  <2>1. g[0] = s
    BY <1>1, <1>2, <1>3 DEF EditsUpTo
  <2>2. ASSUME NEW i \in 1 .. n + 1 PROVE g[i] = Replaced(g[i - 1], o.edits[i])
    <3>1. CASE i = n + 1
      <4>1. i - 1 = n /\ g[i - 1] = b.text
        BY <1>1, <1>2, <1>3, <3>1
      <4> QED BY <1>2, <1>3, <3>1, <4>1
    <3>2. CASE i \in 1 .. n
      <4>1. i \in 0 .. n /\ i - 1 \in 0 .. n
        BY <3>2
      <4>2. f[i] = Replaced(f[i - 1], o.edits[i])
        BY <1>1, <1>2, <3>2 DEF EditsUpTo
      <4> QED BY <1>3, <4>1, <4>2
    <3> QED BY <3>1, <3>2
  <2> QED BY <2>1, <2>2 DEF EditsUpTo
<1> QED BY <1>2, <1>3, <1>4 DEF EditsMade

\* One more hunk, from the end, extends the chain of texts.
LEMMA HunkMade ==
    ASSUME NEW b \in Buffer, NEW x \in Buffer, NEW s \in Text, NEW o, HunksMade(b, s, o),
           x.n = b.n + 1, NEW h, h = o.hunks[Len(o.hunks) + 1 - x.n],
           Fits(b.text, h), x.text = ApplyHunk(b.text, h)
    PROVE  HunksMade(x, s, o)
<1>1. PICK f \in [0 .. b.n -> Text] : HunksUpTo(f, b.n, s, o.hunks) /\ f[b.n] = b.text
  BY DEF HunksMade
<1>2. PICK n \in Nat, t \in Text : n = b.n /\ t = x.text
  BY BufferFields
<1> DEFINE g == [i \in 0 .. n + 1 |-> IF i <= n THEN f[i] ELSE t]
<1>3. g \in [0 .. n + 1 -> Text] /\ g[n + 1] = t /\ \A i \in 0 .. n : g[i] = f[i]
  BY <1>2
<1> HIDE DEF g
<1>4. HunksUpTo(g, n + 1, s, o.hunks)
  <2>1. g[0] = s
    BY <1>1, <1>2, <1>3 DEF HunksUpTo
  <2>2. ASSUME NEW i \in 1 .. n + 1
        PROVE  /\ Fits(g[i - 1], o.hunks[Len(o.hunks) + 1 - i])
               /\ g[i] = ApplyHunk(g[i - 1], o.hunks[Len(o.hunks) + 1 - i])
    <3>1. CASE i = n + 1
      <4>1. i - 1 = n /\ g[i - 1] = b.text /\ x.n = i
        BY <1>1, <1>2, <1>3, <3>1
      <4> QED BY <1>2, <1>3, <3>1, <4>1
    <3>2. CASE i \in 1 .. n
      <4>1. i \in 0 .. n /\ i - 1 \in 0 .. n
        BY <3>2
      <4>2. /\ Fits(f[i - 1], o.hunks[Len(o.hunks) + 1 - i])
            /\ f[i] = ApplyHunk(f[i - 1], o.hunks[Len(o.hunks) + 1 - i])
        BY <1>1, <1>2, <3>2 DEF HunksUpTo
      <4> QED BY <1>3, <4>1, <4>2
    <3> QED BY <3>1, <3>2
  <2> QED BY <2>1, <2>2 DEF HunksUpTo
<1> QED BY <1>2, <1>3, <1>4 DEF HunksMade

\* Every step keeps the text of a call what its request has made of what it read.
LEMMA TextStep ==
    ASSUME FileInv, TextInv, [Next]_vars
    PROVE  TextInv'
<1> USE DEF fsVars
<1>0. TypeOK /\ TypeOK'
  BY TypeStep DEF FileInv
<1>b. ASSUME NEW c \in Calls PROVE buf[c] \in Buffer /\ buf'[c] \in Buffer /\ seen[c] \in File /\ seen'[c] \in File
  BY <1>0 DEF TypeOK
<1>1. ASSUME Crash PROVE TextInv'
  <2>1. \A c \in Calls : pc'[c] \in Late => pc'[c] = pc[c]
    BY <1>0, <1>1 DEF Crash, TypeOK, Late, Ended
  <2> QED BY <1>1, <2>1, TextPlace DEF Crash
<1>2. ASSUME NEW c \in Calls, NEW o \in Ops, Begin(c, o) PROVE TextInv'
  <2>1. \A d \in Calls : \/ pc'[d] = pc[d] /\ op'[d] = op[d]
                         \/ pc'[d] \in {"stat", "read"}
    BY <1>0, <1>2 DEF Begin, Goto, TypeOK
  <2>2. UNCHANGED <<buf, seen>>
    BY <1>2 DEF Begin
  <2> QED BY <2>1, <2>2, TextPlace DEF Late
<1>3. ASSUME NEW c \in Calls, UNCHANGED <<buf, seen, op>>, NEW st, Goto(c, st),
             st \in Late => pc[c] \in Late \ {"apply"} /\ st # "apply"
      PROVE  TextInv'
  <2>1. pc'[c] = st /\ \A d \in Calls \ {c} : pc'[d] = pc[d]
    BY <1>0, <1>3 DEF Goto, TypeOK
  <2> QED BY <1>3, <2>1, TextPlace
<1>4. ASSUME NEW c \in Calls, NotFound(c) \/ Found(c) \/ HashCheck(c) \/ (ReadFails(c) /\ ~Is(c, {"write"}))
      PROVE  TextInv'
  <2>1. PICK st \in {"error", "hash", "read"} : Goto(c, st) /\ UNCHANGED <<buf, seen, op>>
    BY <1>4 DEF NotFound, Found, HashCheck, ReadFails
  <2> QED BY <1>3, <2>1 DEF Late
<1>5. ASSUME NEW c \in Calls,
             \/ CreateTempFails(c) \/ FillTempFails(c) \/ Rename(c) \/ RenameFails(c) \/ WriteInPlaceFails(c)
             \/ Truncate(c) \/ WriteInPlace(c)
      PROVE  TextInv'
  <2>1. PICK st \in {"error", "ok", "truncate", "inplace"} : Goto(c, st) /\ UNCHANGED <<buf, seen, op>>
    BY <1>5 DEF CreateTempFails, FillTempFails, Rename, RenameFails, WriteInPlaceFails, Truncate, WriteInPlace
  <2> QED BY <1>3, <2>1 DEF Late
<1>6. ASSUME NEW c \in Calls,
             \/ CopyCheckDst(c) \/ CopyOpen(c) \/ CopyOpenFails(c) \/ CopyFill(c) \/ CopyRename(c) \/ CopyRenameFails(c)
             \/ MoveStat(c) \/ MoveCheckDst(c) \/ Move(c)
             \/ DeleteStat(c) \/ DeleteRecheck(c) \/ Delete(c) \/ MoveOrDeleteFails(c)
      PROVE  TextInv'
  <2>1. PICK st \in {"error", "ok", "copyOpen", "copyFill", "copyRename", "moveDst", "move", "recheck", "remove"} :
           Goto(c, st) /\ UNCHANGED <<buf, seen, op>>
    BY <1>6 DEF CopyCheckDst, CopyOpen, CopyOpenFails, CopyFill, CopyRename, CopyRenameFails, MoveStat,
         MoveCheckDst, Move, DeleteStat, DeleteRecheck, Delete, MoveOrDeleteFails
  <2> QED BY <1>3, <2>1 DEF Late
<1>7. ASSUME NEW c \in Calls, CreateTemp(c) \/ FillTemp(c) PROVE TextInv'
  <2>1. PICK st \in {"fill", "rename"} : Goto(c, st) /\ UNCHANGED <<buf, seen, op>> /\ pc[c] \in {"temp", "fill"}
    BY <1>7 DEF CreateTemp, FillTemp
  <2> QED BY <1>3, <2>1 DEF Late
<1>8. ASSUME UNCHANGED vars PROVE TextInv'
  BY <1>8, TextPlace DEF vars
<1>9. ASSUME NEW c \in Calls, UNCHANGED op, NEW x, buf' = [buf EXCEPT ![c] = x], NEW st, Goto(c, st),
             \A d \in Calls \ {c} : seen'[d] = seen[d],
             st \in Late => TextOf(st, x, seen'[c].text, op[c])
      PROVE  TextInv'
  <2>1. /\ pc'[c] = st /\ buf'[c] = x /\ op'[c] = op[c]
        /\ \A d \in Calls \ {c} : pc'[d] = pc[d] /\ buf'[d] = buf[d] /\ op'[d] = op[d]
    BY <1>0, <1>9 DEF Goto, TypeOK
  <2> QED BY <1>9, <2>1, TextOnly
<1>10. ASSUME NEW c \in Calls, NewFile(c) \/ (ReadFails(c) /\ Is(c, {"write"})) PROVE TextInv'
  <2>1. PICK x : buf' = [buf EXCEPT ![c] = x]
    BY <1>10 DEF NewFile, ReadFails
  <2>2. UNCHANGED <<op, seen>> /\ Goto(c, "perm") /\ op[c].tool = "write"
    BY <1>10 DEF NewFile, ReadFails, Is
  <2>3. TextOf("perm", x, seen'[c].text, op[c])
    BY <2>2 DEF TextOf
  <2> QED BY <1>9, <2>1, <2>2, <2>3
<1>11. ASSUME NEW c \in Calls, Read(c) PROVE TextInv'
  <2> DEFINE g == At(op[c].path)
  <2>1. PICK r \in ReadFileWithEncoding(g) :
          buf' = [buf EXCEPT ![c] =
                    [EmptyBuf EXCEPT !.text    = IF Is(c, {"write"}) THEN op[c].text ELSE r.text,
                                     !.charset = r.charset,
                                     !.bom     = r.bom,
                                     !.raw     = r.raw /\ ~Is(c, {"write"})]]
    BY <1>11 DEF Read
  <2>2. /\ UNCHANGED op /\ seen' = [seen EXCEPT ![c] = g]
        /\ Goto(c, IF Is(c, {"write"}) THEN "perm" ELSE "apply")
    BY <1>11 DEF Read
  <2>3. op[c] \in Ops /\ g \in File
    BY <1>0, <1>11, RequestType DEF Read, Exists, At, TypeOK
  <2>4. r.text = g.text
    <3> DEFINE known == [text |-> g.text, charset |-> g.charset, bom |-> g.bom, raw |-> FALSE]
    <3>1. r = known \/ r = [known EXCEPT !.charset = "UTF-8", !.raw = TRUE]
      BY DEF ReadFileWithEncoding
    <3>2. CASE r = known
      BY <3>2
    <3>3. CASE r = [known EXCEPT !.charset = "UTF-8", !.raw = TRUE]
      BY <3>3
    <3> QED BY <3>1, <3>2, <3>3
  <2> HIDE DEF g
  <2>5. seen'[c] = g /\ \A d \in Calls \ {c} : seen'[d] = seen[d]
    BY <1>0, <2>2 DEF TypeOK
  <2>6. PICK x : x = [EmptyBuf EXCEPT !.text    = IF Is(c, {"write"}) THEN op[c].text ELSE r.text,
                                     !.charset = r.charset,
                                     !.bom     = r.bom,
                                     !.raw     = r.raw /\ ~Is(c, {"write"})]
    OBVIOUS
  <2>7. buf' = [buf EXCEPT ![c] = x] /\ buf'[c] = x /\ x \in Buffer
    BY <1>0, <1>b, <2>1, <2>6 DEF TypeOK
  <2>8. x.n = 0 /\ x.text = IF Is(c, {"write"}) THEN op[c].text ELSE r.text
    BY <2>6 DEF EmptyBuf
  <2>9. CASE Is(c, {"write"})
    <3>1. TextOf("perm", x, seen'[c].text, op[c])
      BY <2>9 DEF TextOf, Is
    <3> QED BY <1>9, <2>2, <2>5, <2>7, <2>9, <3>1
  <2>10. CASE ~Is(c, {"write"})
    <3>1. g.text \in Text
      BY <2>3, FileFields
    <3>2. TextOf("apply", x, seen'[c].text, op[c])
      BY <2>4, <2>5, <2>7, <2>8, <2>10, <3>1, TextRead
    <3> QED BY <1>9, <2>2, <2>5, <2>7, <2>10, <3>2
  <2> QED BY <2>9, <2>10
<1>12. ASSUME NEW c \in Calls, ApplyEdit(c) PROVE TextInv'
  <2> DEFINE n == buf[c].n + 1
             e == op[c].edits[n]
             r == Replace(buf[c], e)
             x == [buf[c] EXCEPT !.text = r[1], !.n = n]
             st == IF n = Len(op[c].edits) THEN AfterLast(c) ELSE "apply"
  <2>1. CASE r = <<>>
    <3>1. Goto(c, "error") /\ UNCHANGED <<buf, seen, op>>
      BY <1>12, <2>1 DEF ApplyEdit
    <3> QED BY <1>3, <3>1 DEF Late
  <2>2. CASE r # <<>>
    <3>1. /\ UNCHANGED <<op, seen>> /\ buf' = [buf EXCEPT ![c] = x] /\ pc[c] = "apply"
          /\ op[c].tool \in {"edit", "multiedit"} /\ Goto(c, st)
      BY <1>12, <2>2 DEF ApplyEdit, Is
    <3>2. ~buf[c].raw /\ r[1] = Replaced(buf[c].text, e)
      <4>1. r = <<Replaced(buf[c].text, e)>> /\ Matches(buf[c], e.old) # {}
        BY <2>2 DEF Replace
      <4> QED BY <4>1 DEF Matches
    <3>3. x.n = n /\ x.text = r[1] /\ x.raw = buf[c].raw
      BY <1>b, BufferAfter DEF Buffer
    <3> HIDE DEF x, r
    <3>4. buf'[c] = x /\ x \in Buffer
      BY <1>0, <1>b, <3>1 DEF TypeOK
    <3>5. EditsMade(buf[c], seen[c].text, op[c]) /\ seen[c].text \in Text
      BY <1>b, <3>1, FileFields DEF TextInv, TextOf, Late
    <3>6. EditsMade(x, seen[c].text, op[c])
      BY <1>b, <3>2, <3>3, <3>4, <3>5, EditMade
    <3>7. st # "apply" => n = Len(op[c].edits)
      OBVIOUS
    <3> HIDE DEF st, n
    <3>8. TextOf(st, x, seen[c].text, op[c])
      BY <3>1, <3>2, <3>3, <3>6, <3>7 DEF TextOf
    <3> QED BY <1>9, <3>1, <3>8
  <2> QED BY <2>1, <2>2
<1>13. ASSUME NEW c \in Calls, ApplyPatch(c) PROVE TextInv'
  <2> DEFINE n == buf[c].n + 1
             u == op[c].hunks[Len(op[c].hunks) + 1 - n]
             x == [buf[c] EXCEPT !.text = ApplyHunk(buf[c].text, u), !.n = n]
             st == IF n = Len(op[c].hunks) THEN AfterLast(c) ELSE "apply"
  <2>1. CASE ~HunkFits(buf[c], u)
    <3>1. Goto(c, "error") /\ UNCHANGED <<buf, seen, op>>
      BY <1>13, <2>1 DEF ApplyPatch
    <3> QED BY <1>3, <3>1 DEF Late
  <2>2. CASE HunkFits(buf[c], u)
    <3>1. /\ UNCHANGED <<op, seen>> /\ buf' = [buf EXCEPT ![c] = x] /\ pc[c] = "apply"
          /\ op[c].tool = "patch" /\ Goto(c, st)
      BY <1>13, <2>2 DEF ApplyPatch, Is
    <3>2. ~buf[c].raw /\ Fits(buf[c].text, u)
      BY <2>2 DEF HunkFits, Fits
    <3>3. x.n = n /\ x.text = ApplyHunk(buf[c].text, u) /\ x.raw = buf[c].raw
      BY <1>b, BufferAfter DEF Buffer
    <3> HIDE DEF x
    <3>4. buf'[c] = x /\ x \in Buffer
      BY <1>0, <1>b, <3>1 DEF TypeOK
    <3>5. HunksMade(buf[c], seen[c].text, op[c]) /\ seen[c].text \in Text
      BY <1>b, <3>1, FileFields DEF TextInv, TextOf, Late
    <3>6. HunksMade(x, seen[c].text, op[c])
      BY <1>b, <3>2, <3>3, <3>4, <3>5, HunkMade
    <3>7. st # "apply" => n = Len(op[c].hunks)
      OBVIOUS
    <3> HIDE DEF st, n
    <3>8. TextOf(st, x, seen[c].text, op[c])
      BY <3>1, <3>2, <3>3, <3>6, <3>7 DEF TextOf
    <3> QED BY <1>9, <3>1, <3>8
  <2> QED BY <2>1, <2>2
<1>14. ASSUME NEW c \in Calls, ApplyRegex(c) PROVE TextInv'
  <2> DEFINE e == op[c].edits[1]
             t == IF buf[c].raw THEN buf[c].text ELSE Replaced(buf[c].text, e)
             x == [buf[c] EXCEPT !.text = t]
             st == IF Matches(buf[c], e.old) = {} THEN "ok" ELSE AfterLast(c)
  <2>1. /\ UNCHANGED <<op, seen>> /\ buf' = [buf EXCEPT ![c] = x] /\ pc[c] = "apply"
        /\ op[c].tool = "regex_replace" /\ Goto(c, st)
    BY <1>14 DEF ApplyRegex, Is
  <2>2. x.text = t /\ x.raw = buf[c].raw
    BY <1>b, BufferAfter DEF Buffer
  <2>3. buf[c].text = seen[c].text
    BY <2>1 DEF TextInv, TextOf, Late
  <2>4. st \in Late => ~buf[c].raw /\ st # "apply"
    BY DEF Matches, AfterLast, Late
  <2> HIDE DEF st, x
  <2>5. st \in Late => TextOf(st, x, seen[c].text, op[c])
    BY <2>1, <2>2, <2>3, <2>4 DEF TextOf
  <2> QED BY <1>9, <2>1, <2>5
<1>15. ASSUME NEW c \in Calls, Convert(c) PROVE TextInv'
  <2> DEFINE st == IF buf[c].charset = op[c].charset /\ buf[c].bom = op[c].bom THEN "ok" ELSE "perm"
  <2>1. PICK x : buf' = [buf EXCEPT ![c] = x]
    BY <1>15 DEF Convert
  <2>2. UNCHANGED <<op, seen>> /\ Goto(c, st) /\ op[c].tool = "convert_encoding"
    BY <1>15 DEF Convert, Is
  <2> HIDE DEF st
  <2>3. TextOf(st, x, seen'[c].text, op[c])
    BY <2>2 DEF TextOf
  <2> QED BY <1>9, <2>1, <2>2, <2>3
<1>16. ASSUME NEW c \in Calls, StatPerm(c) PROVE TextInv'
  <2> DEFINE m == IF Exists(op[c].path) THEN At(op[c].path).mode ELSE "0644"
             x == [buf[c] EXCEPT !.perm = m]
             st == IF Encodable(buf[c]) THEN "temp" ELSE "error"
  <2>1. UNCHANGED <<op, seen>> /\ buf' = [buf EXCEPT ![c] = x] /\ pc[c] = "perm" /\ Goto(c, st)
    BY <1>16 DEF StatPerm
  <2>2. x.text = buf[c].text /\ x.raw = buf[c].raw /\ x.n = buf[c].n
    BY <1>b DEF Buffer
  <2>3. TextOf("perm", buf[c], seen[c].text, op[c])
    BY <2>1 DEF TextInv, Late
  <2>4. st # "apply"
    OBVIOUS
  <2> HIDE DEF st, x
  <2>5. TextOf(st, x, seen[c].text, op[c])
    BY <2>2, <2>3, <2>4 DEF TextOf, EditsMade, HunksMade
  <2> QED BY <1>9, <2>1, <2>5
<1>17. ASSUME NEW c \in Calls, CopyStat(c) PROVE TextInv'
  <2>1. PICK x : buf' = [buf EXCEPT ![c] = x]
    BY <1>17 DEF CopyStat
  <2>2. UNCHANGED <<op, seen>> /\ Goto(c, "copyDst")
    BY <1>17 DEF CopyStat
  <2>3. \A d \in Calls \ {c} : seen'[d] = seen[d]
    BY <2>2
  <2>4. "copyDst" \notin Late
    BY DEF Late
  <2> QED BY <1>9, <2>1, <2>2, <2>3, <2>4
<1> QED
  BY <1>1, <1>2, <1>4, <1>5, <1>6, <1>7, <1>8, <1>10, <1>11, <1>12, <1>13, <1>14, <1>15, <1>16, <1>17
     DEF Next, ReadSteps, ApplySteps, WriteSteps, MoveSteps

-----------------------------------------------------------------------------
(***************************************************************************)
(* The inductive invariant: the inode a call creates is reached through    *)
(* its temporary file or through one path and never both (OwnInv), so that *)
(* nobody else changes it before it is renamed (WholeInv), and a call has  *)
(* changed nothing while it can still fail (ResultInv).                    *)
(***************************************************************************)
THEOREM FileInvariant == Spec => []FileInv
<1>1. FileInv /\ [Next]_vars => FileInv'
  BY TypeStep, OwnStep, WholeStep, ResultStep DEF FileInv
<1> QED BY InitOK, <1>1, PTL DEF Spec

(***************************************************************************)
(* For any calls, paths and requests, and with the server killed anywhere: *)
(* a path leads to an incompletely written file only after a fall-back to  *)
(* writing in place.                                                       *)
(***************************************************************************)
THEOREM FilesAreWhole == Spec => []WholeFiles
<1>1. FileInv => WholeFiles
  BY DEF FileInv, WholeInv, WholeFiles, Exists, At
<1> QED BY <1>1, FileInvariant, PTL

(***************************************************************************)
(* For any calls, paths and requests: a call that ends leaves no temporary *)
(* file behind, whichever of its steps failed, and no path ever leads to   *)
(* one.                                                                    *)
(***************************************************************************)
THEOREM TempsArePrivate == Spec => []TempsPrivate
<1>1. FileInv => TempsPrivate
  BY FileAssumption DEF FileInv, TypeOK, OwnInv, TempsPrivate, Filling, Exists
<1> QED BY <1>1, FileInvariant, PTL

(***************************************************************************)
(* For any calls, paths and requests: an error means that nothing was      *)
(* changed (but for a write in place that failed), a preview changes       *)
(* nothing, success means that the change was made.                        *)
(***************************************************************************)
THEOREM ResultsAreHonest == Spec => []HonestResults
<1>1. FileInv => HonestResults
  BY DEF FileInv
<1> QED BY <1>1, FileInvariant, PTL

-----------------------------------------------------------------------------
(***************************************************************************)
(* What a replaced file becomes                                            *)
(***************************************************************************)

\* No legacy charset has a BOM, and nothing has been read or made yet.
LEMMA UpdateInit == Init => UpdateInv /\ TextInv
<1> SUFFICES ASSUME Init PROVE UpdateInv /\ TextInv
  OBVIOUS
<1>1. SeenInv /\ FormatInv /\ TempInv /\ TextInv
  BY DEF Init, SeenInv, FormatInv, TempInv, TextInv, EmptyFile, Late
<1>2. PICK first \in [Paths -> FirstFiles \cup {NoFile}] :
          inode = [i \in Inodes |-> IF i \in Paths /\ first[i] # NoFile THEN first[i] ELSE EmptyFile]
  BY DEF Init
<1>3. BomInv
  BY <1>2, FileAssumption DEF Init, BomInv, EmptyFile, EmptyBuf
<1> QED BY <1>1, <1>3 DEF UpdateInv

\* A step in which call c replaces the file it has read renames c's temporary
\* file, which is c's encoded buffer.
LEMMA ReplacingStep ==
    ASSUME FileInv, UpdateInv, Next, NEW c \in Calls, Replaces(c)
    PROVE  /\ op[c] \in Ops /\ buf[c] \in Buffer /\ seen[c] \in File
           /\ At(op[c].path) = seen[c] /\ seen[c].mode = buf[c].perm
           /\ FormatOf(buf[c], seen[c], op[c])
           /\ \E m \in {buf[c].perm, "0600"} : At(op[c].path)' = Encoded(buf[c], m)
<1> DEFINE b == buf[c]
           s == seen[c]
           o == op[c]
<1>1. /\ pc[c] = "rename" /\ pc'[c] = "ok" /\ TypeOK /\ At(o.path) = s /\ s.mode = b.perm /\ s.text # <<>>
      /\ dir[o.path] # NoFile
  BY DEF Replaces, FileInv, Exists
<1>2. o \in Ops /\ o.path \in Paths /\ b \in Buffer /\ s \in File
  BY <1>1, RequestType DEF TypeOK
<1>3. Rename(c)
  <2>1. ASSUME NEW d \in Calls, d # c
        PROVE  ~(\/ \E q \in Ops : Begin(d, q)
                 \/ ReadSteps(d) \/ ApplySteps(d) \/ WriteSteps(d) \/ MoveSteps(d))
    <3>1. ASSUME NEW st, Goto(d, st) PROVE FALSE
      BY <1>1, <2>1, <3>1 DEF Goto, TypeOK
    <3> QED BY <3>1 DEF Begin, ReadSteps, ApplySteps, WriteSteps, MoveSteps,
         NotFound, Found, HashCheck, NewFile, ReadFails, Read, ApplyEdit, ApplyPatch, ApplyRegex, Convert,
         StatPerm, CreateTemp, CreateTempFails, FillTemp, FillTempFails, Rename, RenameFails, Truncate,
         WriteInPlace, WriteInPlaceFails, CopyStat, CopyCheckDst, CopyOpen, CopyOpenFails, CopyFill,
         CopyRename, CopyRenameFails, MoveStat, MoveCheckDst, Move, DeleteStat, DeleteRecheck, Delete,
         MoveOrDeleteFails
  <2>2. ~Crash
    BY <1>1 DEF Crash, Ended
  <2>3. \/ \E q \in Ops : Begin(c, q)
        \/ ReadSteps(c) \/ ApplySteps(c) \/ WriteSteps(c) \/ MoveSteps(c)
    BY <2>1, <2>2 DEF Next
  <2>4. ~RenameFails(c)
    BY <1>1 DEF RenameFails, Goto, TypeOK
  <2> QED BY <1>1, <2>3, <2>4 DEF Begin, ReadSteps, ApplySteps, WriteSteps, MoveSteps,
         NotFound, Found, HashCheck, NewFile, ReadFails, Read, ApplyEdit, ApplyPatch, ApplyRegex, Convert,
         StatPerm, CreateTemp, CreateTempFails, FillTemp, FillTempFails, Truncate,
         WriteInPlace, WriteInPlaceFails, CopyStat, CopyCheckDst, CopyOpen, CopyOpenFails, CopyFill,
         CopyRename, CopyRenameFails, MoveStat, MoveCheckDst, Move, DeleteStat, DeleteRecheck, Delete,
         MoveOrDeleteFails
<1>4. PICK m \in {b.perm, "0600"} : inode[c] = Encoded(b, m)
  BY <1>1 DEF UpdateInv, TempInv
<1>5. UNCHANGED op /\ dir'[o.path] = c /\ inode'[c] = Encoded(b, m)
  BY <1>1, <1>2, <1>3, <1>4 DEF Rename, TypeOK
<1>6. At(op[c].path)' = Encoded(b, m)
  BY <1>1, <1>5 DEF At
<1>7. FormatOf(b, s, o)
  BY <1>1 DEF UpdateInv, FormatInv
<1> QED BY <1>1, <1>2, <1>4, <1>6, <1>7

\* The replaced file keeps its encoding, its BOM and its permissions.
LEMMA FormatIsKept ==
    ASSUME FileInv, UpdateInv, Next, NEW c \in Calls, Replaces(c)
    PROVE  FormatKept(c)
<1> DEFINE b == buf[c]
           s == seen[c]
           o == op[c]
<1>1. /\ b \in Buffer /\ At(op[c].path) = s /\ s.mode = b.perm /\ FormatOf(b, s, o)
  BY ReplacingStep
<1>2. PICK m \in {b.perm, "0600"} : At(op[c].path)' = Encoded(b, m)
  BY ReplacingStep
<1>3. Encoded(b, m).mode = m /\ Encoded(b, m).bom = b.bom
  BY DEF Encoded
<1>4. ASSUME o.tool # "convert_encoding"
      PROVE  \/ Encoded(b, m).charset = s.charset \/ Encoded(b, m).text = <<>>
             \/ o.tool = "write" /\ s.charset = "legacy"
  <2>1. b.raw \in BOOLEAN /\ b.bom \in BOOLEAN /\ b.text \in Text
    BY <1>1, BufferFields
  <2>2. CASE b.text = <<>>
    <3>1. [i \in DOMAIN b.text |-> Garbage] = <<>>
      BY <2>2
    <3> QED BY <2>2, <3>1 DEF Encoded
  <2>3. CASE b.text # <<>>
    BY <1>1, <1>4, <2>1, <2>3 DEF Encoded, FormatOf
  <2> QED BY <2>2, <2>3
<1>5. o.tool # "convert_encoding" => b.bom = s.bom
  BY <1>1 DEF FormatOf
<1> HIDE DEF b, s, o
<1> QED BY <1>1, <1>2, <1>3, <1>4, <1>5 DEF FormatKept, Is, o

\* What a call has made of the text it read, once it has made all of it, is
\* what its request means for that text.
LEMMA MadeIsMeant ==
    ASSUME NEW b \in Buffer, NEW s \in Text, NEW o \in Ops, o.tool \in Changers,
           o.tool \notin {"write", "convert_encoding"}, o.tool = "patch" => InOrder(o.hunks),
           TextOf("rename", b, s, o)
    PROVE  b.text = Meant(o, s)
<1>1. o.edits \in Seq(EditOp) /\ o.hunks \in Seq(Hunk)
  BY FileAssumption DEF Op
<1>2. Len(o.edits) \in Nat /\ Len(o.hunks) \in Nat
  BY <1>1
<1>3. CASE o.tool \in {"edit", "multiedit"}
  <2>1. EditsMade(b, s, o) /\ b.n = Len(o.edits)
    BY <1>3 DEF TextOf
  <2>2. PICK f \in [0 .. Len(o.edits) -> Text] : EditsUpTo(f, Len(o.edits), s, o.edits) /\ f[Len(o.edits)] = b.text
    BY <2>1 DEF EditsMade
  <2>3. EditsDone(s, o.edits) = b.text
    BY <1>2, <2>2, EditsAre
  <2> QED BY <1>3, <2>3 DEF Meant
<1>4. CASE o.tool = "patch"
  <2>1. HunksMade(b, s, o) /\ b.n = Len(o.hunks)
    BY <1>4 DEF TextOf
  <2>2. PICK f \in [0 .. Len(o.hunks) -> Text] : HunksUpTo(f, Len(o.hunks), s, o.hunks) /\ f[Len(o.hunks)] = b.text
    BY <2>1 DEF HunksMade
  <2>3. PatchDone(s, o.hunks) = b.text
    BY <1>1, <1>4, <2>2, PatchAre
  <2> QED BY <1>4, <2>3 DEF Meant
<1>5. CASE o.tool = "regex_replace"
  <2>1. b.text = Replaced(s, o.edits[1]) /\ Len(o.edits) = 1
    BY <1>5, FileAssumption DEF TextOf
  <2>2. b.text \in Text
    BY BufferFields
  <2> DEFINE f == [i \in 0 .. 1 |-> IF i = 0 THEN s ELSE b.text]
  <2>3. f \in [0 .. 1 -> Text] /\ f[0] = s /\ f[1] = b.text
    BY <2>2
  <2> HIDE DEF f
  <2>4. EditsUpTo(f, 1, s, o.edits)
    <3>1. \A i \in 1 .. 1 : i = 1 /\ i - 1 = 0
      OBVIOUS
    <3> QED BY <2>1, <2>3, <3>1 DEF EditsUpTo
  <2>5. EditsDone(s, o.edits) = f[1]
    <3>1. f \in [0 .. Len(o.edits) -> Text] /\ EditsUpTo(f, Len(o.edits), s, o.edits)
      BY <2>1, <2>3, <2>4
    <3>2. EditsDone(s, o.edits) = f[Len(o.edits)]
      BY <1>2, <3>1, EditsAre
    <3> QED BY <2>1, <3>2
  <2> QED BY <1>5, <2>3, <2>5 DEF Meant
<1> QED BY <1>3, <1>4, <1>5 DEF Changers

\* The replaced file has the text that was asked for.
LEMMA TextIsMeant ==
    ASSUME FileInv, UpdateInv, TextInv, Next, NEW c \in Calls, Replaces(c)
    PROVE  TextAsMeant(c)
<1> DEFINE b == buf[c]
           s == seen[c]
           o == op[c]
<1>1. /\ o \in Ops /\ b \in Buffer /\ s \in File /\ At(op[c].path) = s /\ FormatOf(b, s, o)
  BY ReplacingStep
<1>2. PICK m \in {b.perm, "0600"} : At(op[c].path)' = Encoded(b, m)
  BY ReplacingStep
<1>3. o.tool \in Changers /\ TextOf("rename", b, s.text, o) /\ s.text \in Text
  BY <1>1, FileFields DEF Replaces, Is, TextInv, Late
<1>4. ~b.raw => Encoded(b, m).text = b.text
  BY DEF Encoded
<1>5. CASE o.tool \in {"write", "convert_encoding"}
  <2>1. o.tool = "write" => Encoded(b, m).text = Meant(o, s.text)
    BY <1>1, <1>4 DEF FormatOf, Meant
  <2>2. o.tool = "convert_encoding" /\ s.charset # "legacy" => Encoded(b, m).text = Meant(o, s.text)
    BY <1>1, <1>4 DEF FormatOf, Meant
  <2> HIDE DEF b, s
  <2> QED BY <1>1, <1>2, <1>5, <2>1, <2>2 DEF TextAsMeant, Is
<1>6. CASE o.tool \notin {"write", "convert_encoding"} /\ (o.tool = "patch" => InOrder(o.hunks))
  <2>1. b.text = Meant(o, s.text)
    BY <1>1, <1>3, <1>6, MadeIsMeant
  <2>2. ~b.raw
    BY <1>3, <1>6 DEF TextOf, Changers
  <2> HIDE DEF b, s
  <2> QED BY <1>1, <1>2, <1>4, <2>1, <2>2 DEF TextAsMeant
<1>7. CASE o.tool = "patch" /\ ~InOrder(o.hunks)
  BY <1>7 DEF TextAsMeant, Is
<1> QED BY <1>5, <1>6, <1>7

(***************************************************************************)
(* For any calls, paths, requests and files: when a call replaces a file   *)
(* that is as it read it, the new file is the change asked for and nothing *)
(* else: every edit in turn, every hunk at the lines it names, and the old *)
(* file's encoding, BOM and permissions (editFile, applyHunks and          *)
(* WriteFileWithEncoding, with other calls between their steps).           *)
(***************************************************************************)
THEOREM UpdatesAreExact == Spec => ExactUpdate
<1> DEFINE A == \A c \in Calls : Replaces(c) => TextAsMeant(c) /\ FormatKept(c)
<1>1. Init => UpdateInv /\ TextInv
  BY UpdateInit
<1>2. FileInv /\ UpdateInv /\ [Next]_vars => UpdateInv'
  BY UpdateStep
<1>3. FileInv /\ TextInv /\ [Next]_vars => TextInv'
  BY TextStep
<1>4. FileInv /\ UpdateInv /\ TextInv /\ [Next]_vars => [A]_vars
  BY FormatIsKept, TextIsMeant
<1> QED BY <1>1, <1>2, <1>3, <1>4, FileInvariant, PTL DEF Spec, ExactUpdate
=============================================================================
