------------------------------- MODULE MCTools ------------------------------
(***************************************************************************)
(* The tools that compute rather than keep state, each evaluated on every  *)
(* input of a small set, and the sftp transfers, which run as a system.    *)
(* An initial state chooses a tool and an input; the step Evaluate makes   *)
(* the answer due, and the properties compare it with what it should be.   *)
(***************************************************************************)
EXTENDS Transfers, MCMemSearch, MCCodeQueries, MCBinaries, MCArchives, MCReaders, MCToolHost

\* Patterns as codegraph and as the reading tools hold them
Segments(cg, parts, deep, tail) == [cg |-> cg, parts |-> parts, deep |-> deep, tail |-> tail]
AnyName == {"a", "b"}
GitPatterns == {Segments(<<"a">>, <<{"a"}>>, "none", {}), Segments(<<Star>>, <<AnyName>>, "none", {}),
                Segments(<<"a", "b">>, <<{"a"}, {"b"}>>, "none", {}), Segments(<<Star, "b">>, <<AnyName, {"b"}>>, "none", {}),
                Segments(<<Stars, "a">>, <<{"a"}>>, "front", {"a"}), Segments(<<"a", Stars>>, <<{"a"}>>, "back", {})}
GitignoreInputs == [path : UNION {[1 .. n -> AnyName] : n \in 1 .. 3}, first : GitPatterns, second : GitPatterns,
                    dirOnly : BOOLEAN, negate : BOOLEAN, below : BOOLEAN]

\* The two implementations of ignore files agree on what the file at the root
\* of the project hides; the last pattern that matches decides, and "!*" in a
\* directory takes back all that is said above of it and of what is in it.
GitignoreAgrees(in) ==
    LET line(q, d, n) == [pattern |-> q.cg, dirOnly |-> d, negate |-> n]
        rule(q, d, n) == Rule(q.parts, q.deep, q.tail, FALSE, d, n)
        root  == <<line(in.first, FALSE, FALSE), line(in.second, in.dirOnly, in.negate)>>
        rules == LoadRootIgnoreRules(<<rule(in.first, FALSE, FALSE)>>, <<rule(in.second, in.dirOnly, in.negate)>>)
        below == [prefix |-> <<Head(in.path)>>, patterns |-> <<line(Segments(<<Star>>, <<>>, "none", {}), FALSE, TRUE)>>]
        layers == <<[prefix |-> <<>>, patterns |-> root]>> \o (IF in.below /\ Len(in.path) > 1 THEN <<below>> ELSE <<>>)
    IN IsIndexed(layers, {}, in.path) <=> (in.below /\ Len(in.path) > 1) \/ ~RulesMatchPath(rules, in.path, FALSE)

\* Of the transfers: the inputs of the other tools name no call.
Symmetry == Permutations(Calls)

toolVars == <<part, input, done, tvars>>

Init ==
    /\ TransfersInit /\ done = FALSE
    /\ \/ part = "transfers" /\ input = "none"
       \/ part = "search"    /\ input \in SearchInputs
       \/ part = "filter"    /\ input \in FilterInputs
       \/ part = "pointer"   /\ input \in PointerInputs
       \/ part = "value"     /\ input \in ValueInputs
       \/ part = "types"     /\ input \in TypeInputs
       \/ part = "java"      /\ input \in JavaInputs
       \/ part = "go"        /\ input \in GoInputs
       \/ part = "overload"  /\ input \in OverloadInputs
       \/ part = "tree"      /\ input \in TreeInputs
       \/ part = "blanket"   /\ input \in BlanketInputs
       \/ part = "symbols"   /\ input \in SymbolInputs
       \/ part = "deref"     /\ input \in DerefInputs
       \/ part = "paging"    /\ input \in PagingInputs
       \/ part = "gitignore" /\ input \in GitignoreInputs
       \/ part = "layout"    /\ input \in LayoutInputs
       \/ part = "listing"   /\ input \in ListingInputs
       \/ part = "table"     /\ input \in TableInputs
       \/ part = "pdata"     /\ input \in PdataInputs
       \/ part = "address"   /\ input \in AddressInputs
       \/ part = "trees"     /\ input \in TreeToolInputs
       \/ part = "rm"        /\ input \in RmInputs
       \/ part = "path"      /\ input \in PathInputs
       \/ part = "extract"   /\ input \in ExtractInputs
       \/ part = "download"  /\ input \in DownloadInputs
       \/ part = "text"      /\ input \in TextInputs
       \/ part = "read"      /\ input \in ReadInputs
       \/ part = "range"     /\ input \in RangeInputs
       \/ part = "multiread" /\ input \in MultiInputs
       \/ part = "ignore"    /\ input \in IgnoreInputs
       \/ part = "grep"      /\ input \in GrepInputs
       \/ part = "context"   /\ input \in ContextInputs
       \/ part = "listdir"   /\ input \in ListInputs
       \/ part = "capture"   /\ input \in CaptureInputs
       \/ part = "cap"       /\ input \in CapInputs
       \/ part = "store"     /\ input \in StoreInputs
       \/ part = "page"      /\ input \in PageInputs
       \/ part = "lines"     /\ input \in LineInputs
       \/ part = "dispatch"  /\ input \in DispatchInputs
       \/ part = "toolbox"   /\ input \in ToolboxInputs
       \/ part = "kill"      /\ input \in KillInputs
       \/ part = "env"       /\ input \in EnvInputs
       \/ part = "suspend"   /\ input \in SuspendInputs

Evaluate == part # "transfers" /\ ~done /\ done' = TRUE /\ UNCHANGED <<part, input, tvars>>
Transfer == part = "transfers" /\ TransfersNext /\ UNCHANGED <<part, input, done>>

Next == Evaluate \/ Transfer
Spec == Init /\ [][Next]_toolVars

(***************************************************************************)
(* Properties                                                              *)
(***************************************************************************)
\* The links of codegraph: all types an object can have are considered, every
\* method that can run counts as used, and symbols are told apart by what they
\* take, however the receiver's type is written.
ResolutionRight ==
    /\ Due("types")    => ParentsRight(input)
    /\ Due("java")     => RuntimeTargetsLinked(input)
    /\ Due("go")       => GoLinked(input)
    /\ Due("overload") => OverloadRight(input)
    /\ Due("blanket")  => BlanketSound(input)
    /\ Due("symbols")  => SymbolsRight(input)
    /\ Due("deref")    => DerefRight(input)

\* What codegraph shows of its index: call trees as far as names lead, pages
\* that pass every entry, and files that are indexed just when the ignore files
\* let them be, as for the tools that read.
QueriesRight ==
    /\ Due("tree")      => TreeRight(input)
    /\ Due("paging")    => PagingRight(input)
    /\ Due("gitignore") => GitignoreAgrees(input)

\* analyze places every address in the function it belongs to, for programs
\* as compilers lay them out, and its tables, listings and graphs agree.
FunctionsRight ==
    /\ Due("layout")  => LayoutRight(input) /\ CallGraphRight(input)
    /\ Due("listing") => ListingRight(input)
    /\ Due("table")   => TableRight(input)
    /\ Due("pdata")   => PdataRight(input)
    /\ Due("address") => AddressRight(input)

\* Tools that delete, pack, unpack or fetch whole trees touch what they were
\* given and no more, and report a failure when they leave it in part.
TreesRight ==
    /\ Due("trees")    => TreesOk(input)
    /\ Due("rm")       => RmRight(input)
    /\ Due("path")     => PathOk(input)
    /\ Due("extract")  => ExtractOk(input)
    /\ Due("download") => DownloadOk(input)

\* The pages of the tools that show files and directories are together all
\* there is, once.
ReadersRight ==
    /\ Due("text")      => LinesAgree(input)
    /\ Due("read")      => ReadRight(input)
    /\ Due("range")     => RangeRight(input)
    /\ Due("multiread") => MultiReadRight(input)
    /\ Due("ignore")    => IgnoreRight(input)
    /\ Due("grep")      => GrepRight(input)
    /\ Due("context")   => ContextRight(input)
    /\ Due("listdir")   => ListRight(input)

\* What every tool's output goes through: bounds that lose nothing silently,
\* and the store of raw outputs, read by pages, within its limits.
OutputRight ==
    /\ Due("capture")  => CaptureOk(input)
    /\ Due("cap")      => CapOk(input)
    /\ Due("store")    => StoreOk(input)
    /\ Due("page")     => PageOk(input)
    /\ Due("lines")    => LinesOk(input)

\* What every call goes through: arguments checked before a handler runs, a
\* tool box changed as a whole or not at all, and processes started and killed
\* as asked.
DispatchRight ==
    /\ Due("dispatch") => DispatchOk(input)
    /\ Due("toolbox")  => ToolboxOk(input)
    /\ Due("kill")     => KillOk(input)
    /\ Due("env")      => EnvOk(input)
    /\ Due("suspend")  => SuspendOk(input)
=============================================================================
