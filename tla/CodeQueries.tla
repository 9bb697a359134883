---------------------------- MODULE CodeQueries -----------------------------
(***************************************************************************)
(* What codegraph answers from its index (tools/codegraph/operations.go):  *)
(* the queries over symbols and linked calls, the call tree, pages of      *)
(* results, and the files that are indexed at all (gitignore).             *)
(*                                                                         *)
(* A database is a record: rows, one for each place where a symbol is      *)
(* declared or defined (sem, name, owner, kind, file, line, end, first:    *)
(* whether it is the symbol's representative), calls as CallResolver has   *)
(* them, and links, what ResolveCallCandidates made of the calls.  A query *)
(* asks for a name, a pair of an owner and a name; without an owner it is  *)
(* the name of any symbol so called.  A call on a receiver is written      *)
(* <<receiver, ".", name>>, which is the name of no symbol.  Limits are    *)
(* given to the queries as an argument.                                    *)
(***************************************************************************)
EXTENDS CallResolver

CONSTANT MaxTreeNodes  \* maxCallTreeNodes

Function == {"function", "method"}
PlainName(name) == <<NoType, name>>
Named(x, s) == x \in {PlainName(s.name), <<s.owner, s.name>>}
Targets(db, c) == db.links[c].candidates \cup db.links[c].dispatch
ByLine(a, b)   == a.file < b.file \/ (a.file = b.file /\ a.line < b.line)
Limit(s, n)    == SubSeq(s, 1, Min({n, Len(s)}))

(***************************************************************************)
(* Queries                                                                 *)
(***************************************************************************)
OpFind(db, x, limit) == Limit(SetToSortSeq({r \in db.rows : Named(x, r)}, ByLine), limit)
OpMethods(db, type, limit) ==
    Limit(SetToSortSeq({r \in db.rows : r.kind \in {"method", "property"} /\ r.owner = type}, ByLine), limit)
OpInherits(parents, type) ==
    [parents |-> Members(parents[type]), children |-> {t \in DOMAIN parents : type \in Members(parents[t])}]
OpImporters(includes, file) == {f \in DOMAIN includes : file \in includes[f]}

\* a call counts for a name by what is written or by a symbol it is linked to
CallsTo(db, x) == {c \in db.calls : \/ x \in {PlainName(c.name), c.raw, db.links[c].qualified}
                                    \/ \E t \in Targets(db, c) : Named(x, t)}
OpCallers(db, x, limit) == Limit(SetToSortSeq(CallsTo(db, x), ByLine), limit)

\* the calls on the lines of a function of that name, one of them
FunctionCalls(db, x) ==
    LET fs == {r \in db.rows : r.kind \in Function /\ Named(x, r)}
        f  == CHOOSE r \in fs : TRUE
        after == {r.line : r \in {r \in db.rows : r.file = f.file /\ r.line > f.line /\ r.kind \in Function}}
        last == IF f.end >= f.line THEN f.end ELSE IF after = {} THEN f.line + 1000 ELSE Min(after) - 1
    IN IF fs = {} THEN {} ELSE {c \in db.calls : c.file = f.file /\ c.line \in f.line .. last}
OpCallees(db, x) == SetToSortSeq(FunctionCalls(db, x), ByLine)

\* A row is used by an exact link to its name and by a dispatch to its symbol;
\* by a candidate only when it is the symbol's representative, which is all a
\* candidate names.
ExactlyUsed(db, r) == \E c \in db.calls : /\ db.links[c].resolution = "exact"
                                          /\ db.links[c].qualified = <<r.owner, r.name>>
OpUnused_ExactOnly(db) == {r \in db.rows : r.kind \in Function /\ ~ExactlyUsed(db, r)}
OpUnused(db) ==
    LET sems(ts) == {t.sem : t \in ts}
    IN {r \in db.rows : /\ r.kind \in Function /\ ~ExactlyUsed(db, r)
                        /\ \A c \in db.calls : /\ r.first => r.sem \notin sems(db.links[c].candidates)
                                               /\ r.sem \notin sems(db.links[c].dispatch)}

OpStats(db) == [k \in {"internal", "external", "macro", "callback", "unresolved"} |->
                   Cardinality({c \in db.calls : db.links[c].kind = k})]

(***************************************************************************)
(* The call tree: depth first; a name is expanded once, wherever it was    *)
(* met first, and at a depth below the limit.  Going up it follows the     *)
(* qualified names of the callers, going down what the calls have written. *)
(***************************************************************************)
Global == PlainName("")
Names(db, x, direction) ==
    IF direction = "up" THEN LET up == OpCallers(db, x, 50) IN [i \in DOMAIN up |-> up[i].caller]
    ELSE LET down == Limit(OpCallees(db, x), 50) IN [i \in DOMAIN down |-> down[i].raw]

\* state of the walk: what was printed (depth and name), expanded names, nodes
RECURSIVE BuildCallTree(_, _, _, _, _, _)
BuildCallTree(db, x, direction, depth, maxDepth, st) ==
    LET line(s, ref) ==
          IF s.nodes >= MaxTreeNodes THEN s
          ELSE LET t == [s EXCEPT !.nodes = @ + 1, !.printed = @ \cup {<<depth + 1, ref>>}]
               IN IF depth + 1 < maxDepth /\ ref # Global THEN BuildCallTree(db, ref, direction, depth + 1, maxDepth, t)
                  ELSE t
    IN IF depth >= maxDepth \/ st.nodes >= MaxTreeNodes \/ x \in st.visited THEN st
       ELSE FoldLeft(line, [st EXCEPT !.visited = @ \cup {x}], Names(db, x, direction))

OpCallTree_Once(db, x, direction, depth) ==
    BuildCallTree(db, x, direction, 0, 1, [printed |-> {}, visited |-> {}, nodes |-> 0])
OpCallTree(db, x, direction, depth) ==
    BuildCallTree(db, x, direction, 0, depth, [printed |-> {}, visited |-> {}, nodes |-> 0])

(***************************************************************************)
(* Pages: entries that fit, whole, after the heading; then a footer when   *)
(* there are more, and a cut when all that is too long                     *)
(***************************************************************************)
AppendWithinRuneBudget(used, n, budget) == IF budget > 0 /\ used + n > budget THEN used ELSE used + n
CutRunes(n, most) == Min({n, most})
\* the runes kept of a text of n, and the length of the result
TruncatePage(n, most, suffix) ==
    IF n <= most THEN [kept |-> n, all |-> n]
    ELSE [kept |-> IF suffix >= most THEN most ELSE most - suffix, all |-> most]

\* sizes: of the entries; how many the page counts from start on, where the
\* next one starts, how many of them can be read whole, and its length
Page(sizes, header, footer, start, maxResults, budget) ==
    LET from == Min({start, Len(sizes)})
        size(i) == CutRunes(sizes[from + i], budget \div 2)
        used(n) == AppendWithinRuneBudget(0, header, budget) + MapThenSumSet(size, 1 .. n)
        shown == Max({n \in 0 .. Min({maxResults, Len(sizes) - from}) : used(n) <= budget})
        text  == TruncatePage(used(shown) + (IF from + shown < Len(sizes) THEN footer ELSE 0), budget, footer)
    IN [next |-> from + shown, whole |-> Max({0} \cup {n \in 0 .. shown : used(n) <= text.kept}), length |-> text.all]

(***************************************************************************)
(* gitignore: patterns and paths are sequences of path segments; "*"       *)
(* stands for a segment and "**" for any number of them                    *)
(***************************************************************************)
Star == "*"
Stars == "**"
SegmentMatch(pattern, path) ==
    Len(pattern) = Len(path) /\ \A i \in DOMAIN path : pattern[i] \in {Star, path[i]}
TailsOf(path) == {SubSeq(path, i, Len(path)) : i \in 1 .. Len(path)}

\* patterns with more than one "**" are left to the match without it
GlobMatch(pattern, path) ==
    LET at     == {i \in DOMAIN pattern : pattern[i] = Stars}
        k      == CHOOSE i \in at : TRUE
        before == SubSeq(pattern, 1, k - 1)
        after  == SubSeq(pattern, k + 1, Len(pattern))
    IN IF Cardinality(at) # 1 \/ Len(pattern) = 1 THEN SegmentMatch(pattern, path)
       ELSE IF k = 1 THEN \E s \in TailsOf(path) : SegmentMatch(after, s)
       ELSE IF after = <<>> THEN SegmentMatch(before, path) \/ SubSeq(path, 1, Len(before)) = before
       ELSE \/ SegmentMatch(before \o after, path)
            \/ \E i \in 0 .. Len(path) - 1 : /\ SegmentMatch(before, SubSeq(path, 1, i + 1))
                                             /\ SegmentMatch(after, SubSeq(path, i + 2, Len(path)))

\* a pattern of one segment is tried at every level
MatchGlob(p, path) ==
    IF Len(p.pattern) > 1 THEN GlobMatch(p.pattern, path)
    ELSE \E s \in TailsOf(path) \cup {<<Last(path)>>} : GlobMatch(p.pattern, s)

\* the last pattern that matches decides, deeper files after those above
GitignoreMatch_First(layers, path, isDir) ==
    \E l \in DOMAIN layers : \E i \in DOMAIN layers[l].patterns :
       IsPrefix(layers[l].prefix, path) /\ MatchGlob(layers[l].patterns[i], SubSeq(path, Len(layers[l].prefix) + 1, Len(path)))
GitignoreMatch(layers, path, isDir) ==
    LET layer(m, l) ==
          LET local == IF path = l.prefix THEN path ELSE SubSeq(path, Len(l.prefix) + 1, Len(path))
              one(n, p) == IF (p.dirOnly => isDir) /\ MatchGlob(p, local) THEN ~p.negate ELSE n
          IN IF IsPrefix(l.prefix, path) THEN FoldLeft(one, m, l.patterns) ELSE m
    IN FoldLeft(layer, FALSE, layers)

\* the walk does not go below a directory that is skipped or ignored
IsIndexed(layers, skipped, path) ==
    /\ \A i \in 1 .. Len(path) - 1 : path[i] \notin skipped /\ ~GitignoreMatch(layers, SubSeq(path, 1, i), TRUE)
    /\ ~GitignoreMatch(layers, path, FALSE)
=============================================================================
