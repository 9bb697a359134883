------------------------------ MODULE Archives ------------------------------
(***************************************************************************)
(* Tools that read or write whole trees: compress and decompress, backup,  *)
(* download, the recursive rm of sftp, and the paths they accept.          *)
(*                                                                         *)
(* A path is a sequence of names, a name a number, so that names are       *)
(* ordered; Dot and Up are "." and "..".  A tree is a function from paths  *)
(* to kinds: "file", "dir", "locked" (a file that cannot be read),         *)
(* "closed" (a directory that cannot be listed), "flink" and "dlink"       *)
(* (links to a file or a directory).                                       *)
(***************************************************************************)
EXTENDS Integers, Sequences, SequencesExt, FiniteSetsExt, TLC

CONSTANTS MaxDepth,   \* maxRecurseDepth
          MaxDelete,  \* maxDeleteItems
          MaxSingle,  \* maxSingleFileSize
          MaxTotal    \* maxTotalExtractSize

ASSUME ArchivesAssumption == {MaxDepth, MaxDelete, MaxSingle, MaxTotal} \subseteq Nat

Dot == 0
Up  == -1

(***************************************************************************)
(* Paths                                                                   *)
(***************************************************************************)
PosixClean(path) ==
    FoldLeft(LAMBDA out, part : IF part = Dot THEN out
                                ELSE IF part = Up THEN (IF out = <<>> THEN out ELSE Front(out))
                                ELSE Append(out, part), <<>>, path)
Within(path, dir) == IsPrefix(dir, path)
Parent(path)      == Front(path)

IsDangerousPath_Written(path, dangerous) == path \in dangerous
IsDangerousPath(path, dangerous) == PosixClean(path) \in dangerous

\* real: where the directories lead when links are followed
IsSensitiveLocalPath(path, real, dirs, files) ==
    LET clean    == PosixClean(path)
        resolved == IF Parent(clean) \in DOMAIN real THEN Append(real[Parent(clean)], Last(clean)) ELSE clean
    IN (\E i \in DOMAIN resolved : resolved[i] \in dirs) \/ Last(resolved) \in files

\* lexical order, a directory before what is in it
Before(p, q) ==
    LET differ == {i \in 1 .. Min({Len(p), Len(q)}) : p[i] # q[i]}
    IN IF differ = {} THEN Len(p) < Len(q) ELSE p[Min(differ)] < q[Min(differ)]

Directory == {"dir", "closed"}

\* filepath.Walk: does not follow links, does not go below what is skipped, and
\* passes over what is in a directory that cannot be listed (the callbacks
\* return nil for an error)
Walk(tree, root, skipped) ==
    LET stops == skipped \cup {p \in DOMAIN tree : tree[p] = "closed"}
    IN SetToSortSeq({p \in DOMAIN tree : /\ Within(p, root)
                                         /\ \A i \in Len(root) .. Len(p) - 1 : SubSeq(p, 1, i) \notin stops}, Before)
InTree(tree, root) == Walk(tree, root, {})
Without(tree, gone) == [p \in DOMAIN tree \ gone |-> tree[p]]

(***************************************************************************)
(* sftp rm: the tree is walked first, then deleted                         *)
(***************************************************************************)
Children(tree, dir) == SetToSortSeq({p \in DOMAIN tree : Len(p) = Len(dir) + 1 /\ Within(p, dir)}, Before)

Nothing == [files |-> <<>>, dirs |-> <<>>, ok |-> TRUE]
NotWalked == [Nothing EXCEPT !.ok = FALSE]
RECURSIVE WalkRemoteDir(_, _, _)
WalkRemoteDir(tree, dir, depth) ==
    LET items(w)   == Len(w.files) + Len(w.dirs)
        entry(w, p) ==
          IF ~w.ok \/ tree[p] \in {"flink", "dlink"} THEN w
          ELSE IF tree[p] \notin Directory
          THEN IF items(w) + 1 > MaxDelete THEN NotWalked ELSE [w EXCEPT !.files = Append(@, p)]
          ELSE LET sub == WalkRemoteDir(tree, p, depth + 1)
               IN IF ~sub.ok \/ items(w) + items(sub) > MaxDelete THEN NotWalked
                  ELSE [w EXCEPT !.files = @ \o sub.files, !.dirs = @ \o sub.dirs \o <<p>>]
    IN IF depth > MaxDepth \/ tree[dir] = "closed" THEN NotWalked
       ELSE FoldLeft(entry, Nothing, Children(tree, dir))

\* The first failure ends the deletion.  A file goes unless the server refuses
\* (stuck), a directory besides only when it is one, and empty.
RemoveFile(s, p) == IF ~s.ok \/ p \in s.stuck THEN [s EXCEPT !.ok = FALSE]
                    ELSE [s EXCEPT !.tree = Without(@, {p})]
RemoveDirectory(s, p) ==
    IF s.tree[p] # "dir" \/ \E q \in DOMAIN s.tree : q # p /\ Within(q, p) THEN [s EXCEPT !.ok = FALSE]
    ELSE RemoveFile(s, p)

\* Stat follows a link (leads: where each leads), so what is in the directory
\* that the root leads to is deleted, and only the link itself cannot be.
RmRecursive_DirsFirst(tree, root, leads, stuck, dangerous) ==
    LET found == WalkRemoteDir(tree, root, 0)
        start == [tree |-> tree, stuck |-> stuck, ok |-> TRUE]
    IN IF tree[root] # "dir" THEN FoldLeft(RemoveFile, start, <<root>>)
       ELSE IF ~found.ok THEN [start EXCEPT !.ok = FALSE]
       ELSE FoldLeft(RemoveFile, FoldLeft(RemoveDirectory, start, found.dirs), found.files)
RmRecursive(tree, root, leads, stuck, dangerous) ==
    LET at    == IF root \in DOMAIN leads THEN leads[root] ELSE root
        found == WalkRemoteDir(tree, at, 0)
        start == [tree |-> tree, stuck |-> stuck, ok |-> TRUE]
        files == FoldLeft(RemoveFile, start, found.files)
    IN IF IsDangerousPath(root, dangerous) \/ at \notin DOMAIN tree THEN [start EXCEPT !.ok = FALSE]
       ELSE IF tree[at] \notin Directory THEN FoldLeft(RemoveFile, start, <<root>>)
       ELSE IF ~found.ok THEN [start EXCEPT !.ok = FALSE]
       ELSE FoldLeft(RemoveDirectory, files, Append(found.dirs, root))

(***************************************************************************)
(* compress: an archive is a sequence of entries (name, where from, size)  *)
(***************************************************************************)
\* the file behind a link is stored in a zip; a tar writes the header of the
\* link, and its content does not fit.  A directory cannot be read as a file.
AddFile(format, tree, a, path, name) ==
    IF ~a.ok \/ tree[path] \in {"locked", "dlink", "closed"} \/ (format = "tar" /\ tree[path] = "flink")
    THEN [a EXCEPT !.ok = FALSE]
    ELSE [a EXCEPT !.entries = Append(@, [name |-> name, from |-> path, kind |-> "file", size |-> 1])]

\* directories below a source are stored by their names from its parent on; a
\* source that is itself a link is looked at through it
CreateArchive(format, tree, sources) ==
    LET one(a, src) ==
          LET files == SelectSeq(InTree(tree, src), LAMBDA p : tree[p] \notin Directory)
              rel(p) == SubSeq(p, Len(src), Len(p))
          IN IF tree[src] \in Directory THEN FoldLeft(LAMBDA b, p : AddFile(format, tree, b, p, rel(p)), a, files)
             ELSE AddFile("zip", tree, a, src, <<Last(src)>>)
    IN FoldLeft(one, [ok |-> TRUE, entries |-> <<>>], sources)
CreateZip(tree, sources)   == CreateArchive("zip", tree, sources)
CreateTarGz(tree, sources) == CreateArchive("tar", tree, sources)

(***************************************************************************)
(* decompress, links not allowed (the default)                             *)
(***************************************************************************)
Target(out, name) == PosixClean(out \o name)

NoFiles == [ok |-> TRUE, files |-> <<>>, dirs |-> {}, total |-> 0, count |-> 0, skipped |-> 0]
Below(path, out) == {SubSeq(path, 1, k) : k \in Len(out) + 1 .. Len(path)}

\* directories are made down to a file that is in the way
MkdirAll(s, dir, out) ==
    LET inWay == {p \in Below(dir, out) : p \in DOMAIN s.files}
    IN [s EXCEPT !.dirs = @ \cup {p \in Below(dir, out) : \A q \in inWay : ~Within(p, q)}, !.ok = inWay = {}]

\* entries that would leave the directory are passed over; sizes are those
\* the archive declares, and a file is cut at the limit
Extract_NoCheck(entries, out) ==
    LET one(s, e) == IF ~s.ok THEN s
                     ELSE [s EXCEPT !.files = (Target(out, e.name) :> e.from) @@ @, !.count = @ + 1]
    IN FoldLeft(one, NoFiles, entries)
Extract(entries, out) ==
    LET write(s, e, target) ==
          IF ~s.ok \/ target \in s.dirs \cup {out} THEN [s EXCEPT !.ok = FALSE]
          ELSE [s EXCEPT !.ok = e.size <= MaxSingle, !.files = (target :> e.from) @@ @,
                         !.count = @ + IF e.size <= MaxSingle THEN 1 ELSE 0]
        one(s, e) ==
          LET target == Target(out, e.name)  sum == [s EXCEPT !.total = @ + e.size] IN
          IF ~s.ok \/ ~Within(target, out) THEN s
          ELSE IF e.kind = "link" THEN [s EXCEPT !.skipped = @ + 1]
          ELSE IF e.kind = "dir" THEN [MkdirAll(s, target, out) EXCEPT !.ok = TRUE]
          ELSE IF sum.total > MaxTotal THEN [sum EXCEPT !.ok = FALSE]
          ELSE write(MkdirAll(sum, Parent(target), out), e, target)
    IN FoldLeft(one, NoFiles, entries)

(***************************************************************************)
(* backup: the walk of the preview is the walk of the archive              *)
(***************************************************************************)
\* a pattern is a name, or a path from the source on
MatchExcludePattern(source, p, excludes) ==
    \E e \in excludes : e = <<Last(p)>> \/ (Len(e) > 1 /\ e = SubSeq(p, Len(source) + 1, Len(p)))

BackupSkips(tree, source, excludes, backupDir, p) ==
    \/ Within(p, backupDir)
    \/ tree[p] \in {"flink", "dlink"}
    \/ MatchExcludePattern(source, p, excludes)
Kept(tree, source, excludes, backupDir) ==
    LET skipped == {p \in DOMAIN tree : BackupSkips(tree, source, excludes, backupDir, p)}
    IN SelectSeq(Walk(tree, source, skipped), LAMBDA p : tree[p] \notin Directory /\ p \notin skipped)

DryRun(tree, source, excludes, backupDir) == Len(Kept(tree, source, excludes, backupDir))

\* a file that cannot be read leaves its header, without content, and does
\* not count
CreateBackupZip_All(tree, source, excludes, backupDir) ==
    LET kept == SelectSeq(InTree(tree, source), LAMBDA p : tree[p] \notin Directory)
    IN [entries |-> [i \in DOMAIN kept |-> [name |-> SubSeq(kept[i], Len(source) + 1, Len(kept[i])), from |-> kept[i],
                                            kind |-> "file", size |-> 1]],
        count |-> Len(kept)]
CreateBackupZip(tree, source, excludes, backupDir) ==
    LET kept == Kept(tree, source, excludes, backupDir)
    IN [entries |-> [i \in DOMAIN kept |-> [name |-> SubSeq(kept[i], Len(source) + 1, Len(kept[i])), from |-> kept[i],
                                            kind |-> "file", size |-> IF tree[kept[i]] = "locked" THEN 0 ELSE 1]],
        count |-> Len(SelectSeq(kept, LAMBDA p : tree[p] # "locked"))]

(***************************************************************************)
(* download: into a file of its own, renamed when it is whole              *)
(***************************************************************************)
\* out: the content of the output path when the call looks whether there is a
\* file ("" is none); later: when the download is over, which another program
\* may have changed; fails: the steps that fail; body: the size of what is sent
DownloadTo_InPlace(out, later, overwrite, body, maxSize, fails) ==
    IF (~overwrite /\ out # "") \/ fails \cap {"request", "status", "mkdir", "create"} # {} THEN later
    ELSE IF "copy" \in fails \/ body > maxSize THEN "part" ELSE "new"
DownloadTo(out, later, overwrite, body, maxSize, fails) ==
    IF \/ ~overwrite /\ out # ""
       \/ fails \cap {"request", "status", "mkdir", "create", "copy", "rename"} # {}
       \/ body > maxSize
    THEN later ELSE "new"
=============================================================================
