---------------------------- MODULE MCCodeQueries ---------------------------
(***************************************************************************)
(* Small programs for CallResolver and CodeQueries: three types, a call    *)
(* x.m() in a function f, and what the resolver should make of it.         *)
(***************************************************************************)
EXTENDS CodeQueries

Classes == {"A", "B", "C"}
AnyParents    == [Classes -> {<<>>, <<"A">>, <<"B">>, <<"C">>, <<"A", "B">>, <<"C", "B">>}]
SingleParents == {f \in [Classes -> {<<>>, <<"A">>, <<"B">>, <<"C">>}] :
                     \A t \in Classes : t \notin Members(TransitiveParents(t, f))}

TypeInputs    == [parents : AnyParents, recv : Classes]
\* via: how the receiver's type is written, as itself, as a container of it or
\* as a type parameter that it bounds
JavaInputs    == [parents : SingleParents, recv : Classes, has : SUBSET Classes, far : SUBSET Classes,
                  via : {"plain", "box", "bound"}]
GoInputs      == [m : SUBSET Classes, n : SUBSET Classes, odd : SUBSET {"B", "C"}]
OverloadInputs == [arg : {"", "A", "B"}, far : SUBSET {"A", "B"}]
\* methods: the functions that are methods, called on a receiver
TreeInputs    == [calls : [1 .. 3 -> SUBSET (1 .. 3)], depth : 1 .. 4, methods : {{}, {2}, {2, 3}}]
SymbolInputs  == [1 .. 3 -> [role : {"absent", "declaration", "definition"}, owner : {"", "A"}, arity : {0, 1}]]
DerefInputs   == [parents : [Classes -> {<<>>, <<"A">>, <<"Deref">>}], deref : BOOLEAN, twice : BOOLEAN]
PagingInputs  == [sizes : UNION {[1 .. n -> 1 .. 4] : n \in 0 .. 4}, header : 1 .. 3, footer : {2, 7},
                  max : 1 .. 3, budget : {6, 7, 12}]
BlanketInputs == [parents : AnyParents, order : {<<"A", "B", "C">>, <<"C", "B", "A">>, <<"B", "C", "A">>},
                  rules : {<< <<"A", "B">> >>, << <<"A", "B">>, <<"B", "C">> >>, << <<"B", "C">>, <<"A", "B">> >>}]

Symbol(sem, name, owner, kind, params, files, line, end, lang) ==
    [sem |-> sem, name |-> name, owner |-> owner, kind |-> kind, arity |-> Len(params), params |-> params, ret |-> "",
     mods |-> {}, files |-> files, file |-> Min(files), line |-> line, end |-> end, lang |-> lang]
TypeSymbol(t, kind, lang) == Symbol(0, t, "", kind, <<>>, {1}, 1, 1, lang)
Number == [A |-> 1, B |-> 2, C |-> 3]
Method(t, n, params, files, lang) ==
    Symbol(Number[t] + (IF n = "m" THEN 0 ELSE 3), n, t, "method", params, files, 10 + Number[t], 0, lang)
Variable(kind, owner, name, line, type, target) ==
    [kind |-> kind, owner |-> owner, name |-> name, line |-> line, type |-> type, target |-> target, file |-> 1]

\* In f, x is an alias of y where the call is, and declared again below it.
\* File 3 holds declarations of what is defined in file 1 or far away in 2.
InF == <<"", "f">>
Program(symbols, parents, type) ==
    [symbols |-> symbols, parents |-> parents, content |-> <<>>,
     variables |-> {Variable("local", InF, "x", 1, "", "y"), Variable("local", InF, "x", 9, "C", ""),
                    Variable("local", InF, "y", 1, type, "")},
     macros |-> {}, includes |-> <<{}, {}, {}>>, aliases |-> {}, root |-> <<"p", "p", "p">>, typeNames |-> Classes,
     apart |-> [p \in (1 .. 3) \X (1 .. 3) |-> IF p[1] = p[2] THEN 0 ELSE 2],
     invokers |-> {}, constructs |-> {}, wellKnownMacros |-> {}, macroLike |-> {}, external |-> {}]
CallXM == [name |-> "m", qualified |-> <<"", "m">>, raw |-> <<"x", ".", "m">>,
           receiver |-> <<[name |-> "x", call |-> FALSE, arity |-> Unknown]>>,
           caller |-> InF, arity |-> 0, args |-> <<>>, line |-> 5, file |-> 1, lang |-> "java", bang |-> FALSE]

\* every symbol has a row in each of its files, the representative in the first
Rows(symbols) == UNION {{[sem |-> s.sem, name |-> s.name, owner |-> s.owner, kind |-> s.kind, file |-> f, line |-> s.line,
                          end |-> s.end, first |-> f = s.file] : f \in s.files} : s \in symbols}
Database(p, calls) == [rows |-> Rows(p.symbols), calls |-> calls, links |-> ResolveCallCandidates(p, calls)]

ClosedUnder(S, R) == \A x \in S : Members(R[x]) \subseteq S
\* what one or more steps of R lead to: in every set closed under R that has the first step
InReach(x, R) == {t \in DOMAIN R : \A S \in SUBSET DOMAIN R : Members(R[x]) \subseteq S /\ ClosedUnder(S, R) => t \in S}

\* The parents found for a type are all it can inherit from, circles or not,
\* an include edge has the length of the shortest way, and what the queries
\* list in one direction is what they list in the other.
ParentsRight(in) ==
    /\ Members(TransitiveParents(in.recv, in.parents)) = InReach(in.recv, in.parents)
    /\ LET d == RebuildIncludeEdges(in.parents, in.recv)
       IN /\ DOMAIN d = {in.recv} \cup InReach(in.recv, in.parents)
          /\ \A t \in DOMAIN d \ {in.recv} :
                d[t] = 1 + Min({d[u] : u \in {u \in DOMAIN d : t \in Members(in.parents[u])}})
    /\ \A t \in Classes : t \in OpInherits(in.parents, in.recv).children
                          <=> in.recv \in OpInherits(in.parents, t).parents
    /\ \A f \in OpImporters([t \in Classes |-> Members(in.parents[t])], in.recv) :
          RebuildIncludeEdges(in.parents, f)[in.recv] <= 1

\* the method that runs for an object of type t
RunsFor(t, has, parents) ==
    LET up == SelectSeq(<<t>> \o TransitiveParents(t, parents), LAMBDA u : u \in has)
    IN IF up = <<>> THEN {} ELSE {Head(up)}
Subtypes(t, parents) == {u \in Classes : t \in {u} \cup InReach(u, parents)}

\* The receiver has the type of its nearest declaration before the call, and
\* the symbol of no method that could run for an object of a subtype is called
\* unused; only another declaration of one that is a mere candidate may be.
TargetsLinked(in, p, db) ==
    LET runs   == UNION {RunsFor(t, in.has, in.parents) : t \in Subtypes(in.recv, in.parents)}
        link   == db.links[CallXM]
        unused == OpUnused(db)
        own    == {r \in unused : r.owner = in.recv}
    IN /\ ResolveReceiverType(p, CallXM) = in.recv
       /\ RunsFor(in.recv, in.has, in.parents) # {} => \A r \in unused : r.owner \in runs => ~r.first
       /\ in.far = {} /\ link.resolution = "exact" /\ in.recv \in in.has =>
             link.qualified = <<in.recv, "m">> /\ own = {} /\ \E s \in link.candidates : s.owner = in.recv
RuntimeTargetsLinked(in) ==
    LET boxed == in.via = "box"
        lang  == IF boxed THEN "cpp" ELSE "java"
        home(t) == {IF t \in in.far THEN 2 ELSE 1} \cup (IF boxed THEN {3} ELSE {})
        method(t) == [Method(t, "m", <<>>, home(t), lang) EXCEPT !.mods = IF boxed THEN {"virtual"} ELSE {}]
        p == Program({TypeSymbol(t, "class", lang) : t \in Classes} \cup {method(t) : t \in in.has}, in.parents,
                     CASE in.via = "plain" -> in.recv [] in.via = "box" -> "Box" [] in.via = "bound" -> "T")
        q == [p EXCEPT !.content = IF boxed THEN "Box" :> in.recv ELSE <<>>,
                       !.variables = @ \cup {Variable("type_parameter", InF, "T", 1, in.recv, "")}]
    IN TargetsLinked(in, q, Database(q, {CallXM}))

\* A type of Go is given an interface as a parent exactly when it has all of the
\* interface's methods, with the parameters asked for, and a call on the
\* interface makes the methods of all such types used.
GoLinked(in) ==
    LET n(t) == Method(t, "n", IF t \in in.odd THEN <<"B">> ELSE <<"A">>, {1}, "go")
        sy == {TypeSymbol("A", "interface", "go")} \cup {TypeSymbol(t, "struct", "go") : t \in {"B", "C"}}
              \cup {Method(t, "m", <<>>, {1}, "go") : t \in in.m} \cup {n(t) : t \in in.n}
        parents == InferGoInterfaceImplementations(sy, [t \in Classes |-> <<>>])
        p  == Program(sy, parents, "A")
        implements(t) == ("A" \in in.m => t \in in.m) /\ ("A" \in in.n => t \in in.n \ in.odd)
        unused == {r.owner : r \in {r \in OpUnused(Database(p, {CallXM})) : r.name = "m"}}
    IN \A t \in {"B", "C"} : /\ "A" \in Members(parents[t]) <=> implements(t) /\ "A" \in in.m \cup in.n
                             /\ "A" \in in.m /\ implements(t) => t \notin unused

\* Of two functions of one name the one that takes the type of the argument is
\* the better, near or far; when nothing tells them apart both stay candidates.
OverloadRight(in) ==
    LET g(t) == Symbol(Number[t], "g", "", "function", <<t>>, {IF t \in in.far THEN 2 ELSE 1}, 10 + Number[t], 0, "java")
        p == Program({g("A"), g("B")}, [t \in Classes |-> <<>>], "")
        c == [CallXM EXCEPT !.name = "g", !.qualified = PlainName("g"), !.raw = PlainName("g"), !.receiver = <<>>,
                            !.arity = 1, !.args = <<in.arg>>]
        right(db) == /\ in.arg # "" => db.links[c].resolution = "exact"
                     /\ in.arg = "" /\ in.far \in {{}, {"A", "B"}} => db.links[c].resolution = "candidate"
                     /\ OpUnused(db) = {}
    IN /\ in.arg # "" => Head(RankSemanticCandidates(p, c, NoType).ranked) = g(in.arg)
       /\ right(Database(p, {c}))

\* The occurrences of a symbol become one symbol, found at its definition if it
\* has one, wherever the declarations are; another order of the same
\* occurrences gives the same symbols in the same files.
SymbolsRight(in) ==
    LET at   == SelectSeq(Steps(3), LAMBDA i : in[i].role # "absent")
        occ  == [k \in DOMAIN at |-> [name |-> "g", lang |-> "cpp", kind |-> IF in[at[k]].owner = "" THEN "function" ELSE "method",
                                      params |-> <<>>, file |-> at[k], line |-> 1, mods |-> {at[k]}] @@ in[at[k]]]
        syms == RebuildSemanticSymbols(occ)
        row(s, o) == [sem |-> s.key, name |-> o.name, owner |-> o.owner, kind |-> o.kind, file |-> o.file, line |-> o.line,
                      first |-> o = s.representative]
        db   == [rows |-> UNION {{row(s, o) : o \in {o \in Members(occ) : SemanticKey(o) = s.key}} : s \in syms}]
        same(a, b) == a.owner = b.owner /\ a.arity = b.arity
        \* of the files that have it, an include of its name takes one, the nearest
        near(s) == ResolveInclude(s.files, 0, [f \in s.files |-> IF f = 1 THEN 2 ELSE 1], [f \in s.files |-> f])
    IN /\ \A o \in Members(occ) : Cardinality({s \in syms : same(o, s.representative)}) = 1
       /\ \A s \in syms : /\ s.files = {o.file : o \in {o \in Members(occ) : same(o, s.representative)}}
                          /\ s.representative.role = "declaration" =>
                                \A o \in Members(occ) : same(o, s.representative) => o.role = "declaration"
                          /\ Cardinality(near(s)) = 1 /\ (1 \in near(s) => s.files = {1})
       /\ {<<s.key, s.files, s.mods>> : s \in RebuildSemanticSymbols(Reverse(occ))} = {<<s.key, s.files, s.mods>> : s \in syms}
       /\ {r.file : r \in Members(OpFind(db, PlainName("g"), 9))} = Members(at)
       /\ Members(OpMethods(db, "A", 9)) = {r \in db.rows : r.owner = "A"}

\* A Rust type that implements Deref, itself or through a trait above it, has
\* the methods of what it dereferences to, and no other type gains a parent.
DerefRight(in) ==
    LET parents == in.parents @@ ("Deref" :> <<>>)
        target  == [owner |-> "C", type |-> "B", deref |-> in.deref]
        out     == InferRustDerefParents(IF in.twice THEN <<target, target>> ELSE <<target>>, parents)
    IN /\ in.deref \/ "Deref" \in InReach("C", parents) <=> "B" \in Members(out["C"])
       /\ \A t \in DOMAIN parents \ {"C"} : out[t] = parents[t]
       /\ Len(out["C"]) <= Len(parents["C"]) + 1

\* Pages that continue where the last one ended pass every entry, none is longer
\* than it may be, and a page shows whole every entry it counts unless entries
\* and footer are together too long (then the footer cuts into the entries).
PagingRight(in) ==
    LET n == Len(in.sizes)
        page(at) == Page(in.sizes, in.header, in.footer, at, in.max, in.budget)
        next(at, k) == IF at < n THEN page(at).next ELSE at
        start(k) == FoldLeft(next, 0, Steps(k - 1))
        length(from, to) == in.header + MapThenSumSet(LAMBDA i : in.sizes[i], from + 1 .. to) + in.footer
    IN /\ start(n + 1) = n
       /\ \A k \in 1 .. n : start(k) < n =>
             LET p == page(start(k)) IN
             /\ p.next > start(k) /\ p.length <= in.budget
             /\ length(start(k), p.next) <= in.budget => p.whole = p.next - start(k)

\* Going up, a call tree shows exactly what leads to a function, and going down
\* exactly what is called where calls without a receiver lead, when it is deep
\* enough; circles do not make it grow.
TreeRight(in) ==
    LET nm(i) == <<"a", "b", "c">>[i]
        names == {nm(i) : i \in 1 .. 3}
        isMethod(i) == i \in in.methods
        who(i) == <<IF isMethod(i) THEN "T" ELSE "", nm(i)>>
        fns   == {Symbol(i, nm(i), who(i)[1], IF isMethod(i) THEN "method" ELSE "function", <<>>, {1}, 10 * i, 10 * i + 9,
                         "go") : i \in 1 .. 3}
        edges == {e \in (1 .. 3) \X (1 .. 3) : e[2] \in in.calls[e[1]]}
        calls == {[name |-> nm(e[2]), raw |-> IF isMethod(e[2]) THEN <<"x", ".", nm(e[2])>> ELSE who(e[2]),
                   caller |-> who(e[1]), file |-> 1, line |-> 10 * e[1] + e[2]] : e \in edges}
        target(c) == {s \in fns : s.name = c.name}
        db    == [rows |-> Rows(fns), calls |-> calls,
                  links |-> [c \in calls |-> Link("internal", "exact", <<(CHOOSE s \in target(c) : TRUE).owner, c.name>>,
                                                  target(c), {})]]
        callees(n) == {nm(e[2]) : e \in {e \in edges : nm(e[1]) = n}}
        plain == [n \in names |-> SetToSeq({nm(i) : i \in {i \in 1 .. 3 \ in.methods : nm(i) \in callees(n)}})]
        up    == [n \in names |-> SetToSeq({nm(e[1]) : e \in {e \in edges : nm(e[2]) = n}})]
        below == UNION {callees(n) : n \in {"a"} \cup InReach("a", plain)}
        tree(dir)  == OpCallTree(db, PlainName("a"), dir, in.depth).printed
        shown(dir) == {Last(x[2]) : x \in tree(dir)}
    IN /\ shown("down") \subseteq below /\ shown("up") \subseteq InReach("a", up)
       /\ in.depth >= 3 => shown("down") = below /\ shown("up") = InReach("a", up)
       /\ Cardinality(tree("down")) <= 9
       /\ OpStats(db).internal = Cardinality(edges)
       /\ \A i \in 1 .. 3 : {c.caller[2] : c \in Members(OpCallers(db, PlainName(nm(i)), 9))}
                             = {n \in names : nm(i) \in {c.name : c \in Members(OpCallees(db, PlainName(n)))}}

\* Blanket implementations give a type no parent beyond the least set closed
\* under inheritance and the rules; what is stored for the types the project
\* declares is exactly what was found beyond the source.
BlanketSound(in) ==
    LET out == ExpandBlanketImplementations(in.parents, in.rules, in.order)
        closed(f) == /\ \A t \in Classes : Members(in.parents[t]) \subseteq f[t]
                     /\ \A t \in Classes : \A u \in f[t] : f[u] \subseteq f[t]
                     /\ \A t \in Classes, i \in DOMAIN in.rules :
                           in.rules[i][1] \in {t} \cup f[t] => in.rules[i][2] \in f[t]
        stored == PersistInferredTypeRelations({TypeSymbol(t, "class", "rust") : t \in {"A", "B"}}, in.parents, out)
    IN /\ \A t \in Classes : \A u \in Members(out[t]) : \A f \in [Classes -> SUBSET Classes] : closed(f) => u \in f[t]
       /\ \A t \in {"A", "B"} : Members(in.parents[t]) \cup {x[2] : x \in {x \in stored : x[1] = t}} = Members(out[t])
       /\ \A x \in stored : x[1] # "C" /\ x[2] \notin Members(in.parents[x[1]])
=============================================================================
