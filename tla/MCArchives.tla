------------------------------ MODULE MCArchives ----------------------------
(***************************************************************************)
(* All small trees, paths, archives and downloads for Archives, and what   *)
(* the tools should make of them.                                          *)
(***************************************************************************)
EXTENDS Archives

Places == {<<1>>, <<1, 1>>, <<1, 2>>, <<1, 1, 1>>, <<1, 1, 2>>, <<2>>}
Kinds  == {"file", "dir", "locked", "closed", "flink", "dlink"}
Rooted(t) == \A p \in DOMAIN t : Len(p) > 1 => Parent(p) \in DOMAIN t /\ t[Parent(p)] \in Directory
Trees  == {t \in UNION {[S -> Kinds] : S \in {S \in SUBSET Places : {<<1>>, <<2>>} \subseteq S}} :
              Rooted(t) /\ t[<<2>>] = "file" /\ t[<<1>>] \in {"dir", "closed", "file"}}
\* 1 is a link to 2, or to what is not there
LinkTrees == {t \in UNION {[S -> Kinds] : S \in {S \in SUBSET {<<1>>, <<2>>, <<2, 1>>, <<2, 2>>} : <<1>> \in S}} :
                 Rooted(t) /\ t[<<1>>] = IF <<2>> \in DOMAIN t /\ t[<<2>>] \in Directory THEN "dlink" ELSE "flink"}
EntryNames == {<<1>>, <<1, 2>>, <<Up, 1>>, <<1, Up, Up, 2>>, <<Dot, 2>>, <<Dot>>}
Entries    == [name : EntryNames, from : {1, 2}, kind : {"file", "link", "dir"}, size : {1, 2, 3}]
PathsTo(n) == UNION {[1 .. k -> {1, 2, Dot, Up}] : k \in 0 .. n}
AtMostOne  == {{}} \cup {{p} : p \in Places}

RmInputs       == [tree : Trees, leads : {<<>>}, stuck : AtMostOne] \cup [tree : LinkTrees, leads : {<<1>> :> <<2>>}, stuck : AtMostOne]
TreeToolInputs == [tree : Trees, excludes : {{}, {<<2>>}, {<<1, 1>>}}, backupDir : {<<9>>, <<1, 2>>}]
PathInputs     == [p : PathsTo(3), q : PathsTo(2)]
ExtractInputs  == UNION {[1 .. n -> Entries] : n \in 0 .. 2}
DownloadInputs == [out : {"", "old"}, later : {"", "old", "other"}, overwrite : BOOLEAN, body : 0 .. 3,
                   fails : SUBSET {"request", "status", "mkdir", "create", "copy", "rename"}]

TreeRoot == <<1>>
BelowRoot(tree) == {p \in DOMAIN tree : Within(p, TreeRoot) /\ p # TreeRoot}
Seen(tree, p)   == \A k \in 1 .. Len(p) - 1 : tree[SubSeq(p, 1, k)] = "dir"

\* A recursive rm deletes nothing outside the directory it was given, or the one
\* that a link it was given leads to, follows no link that is in there, never
\* leaves a file without its directory, deletes nothing when there is more to
\* delete than one above the limit, says so just when all is gone, and fails
\* only for a link, a limit, a directory it cannot list or a file it may not
\* delete.  Of a link to a directory, the contents go and the link stays.
RmRight(in) ==
    LET tree  == in.tree
        root  == IF in.leads = <<>> THEN TreeRoot ELSE in.leads[TreeRoot]
        r     == RmRecursive(tree, TreeRoot, in.leads, in.stuck, {<<3>>})
        below == {p \in DOMAIN tree : Within(p, root) /\ p # root}
        dirs  == {p \in below : tree[p] \in Directory}
        links == {p \in below : tree[p] \in {"flink", "dlink"}}
        gone  == DOMAIN tree \ DOMAIN r.tree
    IN /\ \A p \in gone \ {TreeRoot} : p \in below \ links
       /\ r.ok <=> TreeRoot \in gone
       /\ r.ok /\ root = TreeRoot => below \subseteq gone
       /\ gone # {} => Cardinality(below \ links) <= MaxDelete + 1
       /\ gone \cap in.stuck = {}
       /\ \A p \in below \ gone : Len(p) > 2 => Parent(p) \notin gone
       /\ tree[TreeRoot] = "dlink" => ~r.ok
       /\ (/\ root \in DOMAIN tree /\ links \cup (in.stuck \cap DOMAIN tree) = {} /\ Cardinality(below) <= MaxDelete
           /\ \A p \in dirs \cup {root} : tree[p] # "closed" /\ Len(p) - 1 <= MaxDepth)
          => IF tree[TreeRoot] = "dlink" THEN gone = below ELSE r.ok

\* An archive that is reported written has every file of the tree once, but for
\* those in directories that cannot be listed, and extracting it gives these
\* files back under the new directory.
ZipRight(tree) ==
    LET z     == CreateZip(tree, <<TreeRoot>>)
        t     == CreateTarGz(tree, <<TreeRoot>>)
        x     == Extract(z.entries, <<9>>)
        files == {p \in BelowRoot(tree) \cup {TreeRoot} : tree[p] \notin Directory /\ Seen(tree, p)}
    IN /\ \A a \in {z, t} : a.ok => /\ {a.entries[i].from : i \in DOMAIN a.entries} = files
                                    /\ Len(a.entries) = Cardinality(files)
       /\ (\A p \in files : tree[p] = "file") => z.ok /\ t.ok /\ z = t
       /\ z.ok => x.ok = (Cardinality(files) <= MaxTotal)
       /\ z.ok /\ x.ok => x.files = [n \in {<<9>> \o p : p \in files} |-> Tail(n)]

\* A backup holds the regular files that it can come to and that neither an
\* exclude pattern nor the backup directory takes away, a dry run announces as many, and the count
\* reported is of those that could be read.
BackupRight(tree, excludes, backupDir) ==
    LET b      == CreateBackupZip(tree, TreeRoot, excludes, backupDir)
        out(p) == \/ Within(p, backupDir)
                  \/ \E e \in excludes : IF Len(e) = 1 THEN Last(p) = e[1] ELSE p = TreeRoot \o e
        want   == {p \in BelowRoot(tree) \cup {TreeRoot} :
                      tree[p] \in {"file", "locked"} /\ Seen(tree, p) /\ \A k \in 1 .. Len(p) : ~out(SubSeq(p, 1, k))}
    IN /\ {b.entries[i].from : i \in DOMAIN b.entries} = want
       /\ DryRun(tree, TreeRoot, excludes, backupDir) = Len(b.entries)
       /\ b.count = Cardinality({p \in want : tree[p] = "file"})

TreesOk(in) == ZipRight(in.tree) /\ BackupRight(in.tree, in.excludes, in.backupDir)

\* A path is judged by where it leads, however it is written and whichever
\* links its directories are.
PathOk(in) ==
    /\ PosixClean(in.p \o in.q) = PosixClean(PosixClean(in.p) \o in.q)
    /\ IsDangerousPath(in.p \o in.q, {<<>>, <<1>>}) = IsDangerousPath(PosixClean(in.p) \o in.q, {<<>>, <<1>>})
    /\ ToSet(PosixClean(in.p)) \subseteq {1, 2}
    /\ LET real == <<2>> :> <<1>> @@ <<1>> :> <<1>>  \* 2 is a link to 1, which is sensitive
           clean == PosixClean(in.p)
       IN clean # <<>> => IsSensitiveLocalPath(in.p, real, {1}, {}) = (1 \in ToSet(clean) \/ (Len(clean) = 2 /\ clean[1] = 2))

\* Extraction writes nothing outside its directory, and writes every regular
\* file that stays inside unless a size limit or a clash of names stops it, and
\* then it fails: a file where the directory of another must be, or where a
\* directory already is.
ExtractOk(in) ==
    LET out    == <<1>>
        x      == Extract(in, out)
        at(i)  == Target(out, in[i].name)
        inside(kind) == {i \in DOMAIN in : in[i].kind = kind /\ Within(at(i), out)}
        files  == inside("file")
        total  == MapThenSumSet(LAMBDA i : in[i].size, files)
        clash  == \E i \in files : \/ at(i) = out
                                   \/ \E j \in files : at(j) # at(i) /\ Within(at(j), at(i))
                                   \/ \E j \in inside("dir") : j < i /\ Within(at(j), at(i))
    IN /\ \A p \in DOMAIN x.files : Within(p, out) /\ p # out
       /\ x.ok = (total <= MaxTotal /\ (\A i \in files : in[i].size <= MaxSingle) /\ ~clash)
       /\ x.ok => x.count = Cardinality(files) /\ DOMAIN x.files = {at(i) : i \in files}
       /\ DOMAIN x.files \cap x.dirs = {}

\* Whatever fails, the file a download is for is whole: the new one, or what is
\* there anyway; without leave to overwrite, a file that was there when the call
\* began is not replaced.
DownloadOk(in) ==
    LET r == DownloadTo(in.out, in.later, in.overwrite, in.body, 2, in.fails)
    IN /\ r \in {in.later, "new"}
       /\ r = "new" => in.body <= 2 /\ in.fails = {}
       /\ in.out = "old" /\ ~in.overwrite => r = in.later
=============================================================================
