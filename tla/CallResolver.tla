---------------------------- MODULE CallResolver ----------------------------
(***************************************************************************)
(* The project-wide pass that links calls to symbols                       *)
(* (tools/codegraph/project_resolver.go).  Names and types are atoms: a    *)
(* qualified name is the pair of an owner and a name, "" is no owner and   *)
(* no type.  Evidence is summed in hundredths of log-odds; the logistic    *)
(* function the code puts over the sum is monotonic and left out.          *)
(*                                                                         *)
(*   project: symbols, parents (type -> sequence of types), variables,     *)
(*            macros, includes (file -> set of files), aliases, apart      *)
(*            (directories between two files), content (of smart pointers, *)
(*            boxes and options), names the code knows                     *)
(*   symbol:  sem (semantic id), name, owner, kind, arity, params, ret,    *)
(*            mods, file, lang                                             *)
(*   call:    name, qualified, raw, receiver (sequence of segments),       *)
(*            caller, arity, args (types, "" where unknown), line, file,   *)
(*            lang, bang                                                   *)
(* Generic arguments are not substituted.                                  *)
(***************************************************************************)
EXTENDS Integers, Sequences, SequencesExt, FiniteSetsExt, TLC

CONSTANT MaxCandidates  \* maxCandidatesPerCall
ASSUME ResolverAssumption == MaxCandidates \in Nat \ {0}

NoType == ""
Unknown == -1   \* an arity that is not known
Steps(n) == [i \in 1 .. n |-> i]
Members(s) == {s[i] : i \in DOMAIN s}
Edges(next) == MapThenSumSet(LAMBDA t : Len(next[t]), DOMAIN next)

(***************************************************************************)
(* Declarations and definitions, includes                                  *)
(***************************************************************************)
\* occurrences of one symbol share language, kind, name, arity and parameters;
\* a property counts as a method
SemanticKey(o) == <<o.lang, IF o.kind = "property" THEN "method" ELSE o.kind, o.owner, o.name, o.arity, o.params>>

\* one symbol per key; the representative is a definition if there is one,
\* and the first by path and line among those (order: occurrences by path, line)
RebuildSemanticSymbols(occurrences) ==
    LET group(k) == SelectSeq(occurrences, LAMBDA o : SemanticKey(o) = k)
        first(k) == LET defs == SelectSeq(group(k), LAMBDA o : o.role = "definition")
                    IN IF defs # <<>> THEN Head(defs) ELSE Head(group(k))
    IN {[key |-> k, representative |-> first(k), files |-> {o.file : o \in Members(group(k))},
         mods |-> UNION {o.mods : o \in Members(group(k))}] : k \in {SemanticKey(o) : o \in Members(occurrences)}}

\* the file an include names: that path, or else the nearest of that name,
\* the first by path among equals
ResolveInclude(candidates, exact, apart, path) ==
    LET near == {c \in candidates : \A d \in candidates : apart[c] <= apart[d]}
    IN IF exact \in candidates THEN {exact}
       ELSE {c \in near : \A d \in near : path[c] <= path[d]}

\* breadth first from one file; a shorter way replaces a longer one
RebuildIncludeEdges(direct, source) ==
    LET visit(st, cur) ==
          FoldLeft(LAMBDA s, next : IF next \in DOMAIN s.dist /\ s.dist[next] <= s.dist[cur] + 1 THEN s
                                    ELSE [queue |-> Append(s.queue, next),
                                          dist  |-> [f \in DOMAIN s.dist \cup {next} |->
                                                       IF f = next THEN s.dist[cur] + 1 ELSE s.dist[f]]],
                   [st EXCEPT !.queue = Tail(@)], direct[cur])
        step(st, k) == IF st.queue = <<>> THEN st ELSE visit(st, Head(st.queue))
    IN FoldLeft(step, [queue |-> <<source>>, dist |-> (source :> 0)], Steps(Edges(direct) + 1)).dist

(***************************************************************************)
(* Types and their parents                                                 *)
(***************************************************************************)
\* breadth first, each type once; a type may be its own ancestor
TransitiveParents_Direct(type, parents) == parents[type]
TransitiveParents(type, parents) ==
    LET step(st, k) ==
          IF st.queue = <<>> THEN st
          ELSE LET cur == Head(st.queue) IN
               IF cur = NoType \/ cur \in Members(st.out) THEN [st EXCEPT !.queue = Tail(@)]
               ELSE [queue |-> Tail(st.queue) \o parents[cur], out |-> Append(st.out, cur)]
    IN IF type = NoType THEN <<>>
       ELSE FoldLeft(step, [queue |-> parents[type], out |-> <<>>], Steps(Edges(parents) + Len(parents[type]))).out

Ancestors(type, parents) == {type} \cup Members(TransitiveParents(type, parents))
OwnerCompatible(type, owner, parents) == type # NoType /\ owner \in Ancestors(type, parents)
IsDescendantType(type, parent, parents) == type # NoType /\ parent \in Ancestors(type, parents)

AddParent(parents, child, parent) ==
    IF parent = NoType \/ parent \in Members(parents[child]) THEN parents
    ELSE [parents EXCEPT ![child] = Append(@, parent)]

\* a concrete Go type implements every interface whose methods it declares
InferGoInterfaceImplementations(symbols, parents) ==
    LET sigs(t) == {<<s.name, s.arity, s.params>> : s \in {s \in symbols : s.kind = "method" /\ s.owner = t}}
        go(ks)  == {s.name : s \in {s \in symbols : s.lang = "go" /\ s.kind \in ks}}
        pairs   == {p \in go({"struct", "type"}) \X go({"interface"}) :
                       sigs(p[2]) # {} /\ sigs(p[2]) \subseteq sigs(p[1])}
    IN FoldLeft(LAMBDA ps, p : AddParent(ps, p[1], p[2]), parents, SetToSeq(pairs))

\* a blanket rule <<bound, target>> gives target to whatever has bound; the
\* types are taken in the order of a map, that is, in any order
ExpandBlanketImplementations(parents, rules, order) ==
    LET apply(ps, type) ==
          LET have == Ancestors(type, ps)
          IN FoldLeft(LAMBDA q, r : IF r[1] \in have THEN AddParent(q, type, r[2]) ELSE q, ps, rules)
    IN FoldLeft(apply, parents, order)

\* what a Rust type dereferences to counts as a parent: the target of a
\* Deref implementation, and a type named Target of a type that has Deref
InferRustDerefParents(targets, parents) ==
    LET impl == FoldLeft(LAMBDA ps, t : IF t.deref THEN AddParent(ps, t.owner, t.type) ELSE ps, parents, targets)
    IN FoldLeft(LAMBDA ps, t : IF "Deref" \in Ancestors(t.owner, ps) THEN AddParent(ps, t.owner, t.type) ELSE ps,
                impl, targets)

\* the relations that were inferred are stored with the type's symbol, if any
PersistInferredTypeRelations(symbols, source, expanded) ==
    {<<child, parent>> \in (DOMAIN expanded) \X (DOMAIN expanded) :
        /\ \E s \in symbols : s.name = child /\ s.kind \notin {"method", "function", "property"}
        /\ parent \in Members(expanded[child]) \ Members(source[child])}

(***************************************************************************)
(* The type of a receiver                                                  *)
(***************************************************************************)
Latest(vs)   == CHOOSE v \in vs : \A w \in vs : w.line <= v.line
Earliest(vs) == CHOOSE v \in vs : \A w \in vs : v.line <= w.line
Visible(p, c, name) == {v \in p.variables : v.kind \notin {"field", "global"} /\ v.owner = c.caller
                                             /\ v.name = name /\ v.line <= c.line}
Fields(p, owner, name)  == {v \in p.variables : v.kind = "field" /\ v.owner = <<owner, "">> /\ v.name = name}
Globals(p, name)        == {v \in p.variables : v.kind = "global" /\ v.name = name}

\* the last local before the call, a field of the caller's type, a global of
\* the file, or any; the empty set when there is none
BestVariable(p, c, name) ==
    LET here == {v \in Globals(p, name) : v.file = c.file} IN
    IF Visible(p, c, name) # {} THEN {Latest(Visible(p, c, name))}
    ELSE IF Fields(p, c.caller[1], name) # {} THEN {Latest(Fields(p, c.caller[1], name))}
    ELSE IF here # {} THEN {Earliest(here)}
    ELSE IF Globals(p, name) # {} THEN {Latest(Globals(p, name))}
    ELSE {}

\* the nearest type in the order of the parents that has the field
FieldVariable(p, type, name) ==
    LET owners == SelectSeq(<<type>> \o TransitiveParents(type, p.parents), LAMBDA t : Fields(p, t, name) # {})
    IN IF owners = <<>> THEN {} ELSE {Latest(Fields(p, Head(owners), name))}

\* a variable declared without a type has that of the variable it is set
\* from, looked up at its own line; a circle has none
ResolvedVariableType(p, c, var) ==
    LET source(v) == BestVariable(p, [c EXCEPT !.line = v.line], v.target)
        follow(st, k) ==
            LET v == CHOOSE v \in st.at : TRUE IN
            IF st.at = {} \/ v.type # NoType THEN st
            ELSE IF v.target = "" \/ source(v) \subseteq st.seen \cup {v} THEN [st EXCEPT !.at = {}]
            ELSE [at |-> source(v), seen |-> st.seen \cup {v}]
        end == FoldLeft(follow, [at |-> {var}, seen |-> {}], Steps(Cardinality(p.variables) + 1)).at
    IN IF end = {} THEN NoType ELSE (CHOOSE v \in end : TRUE).type

\* what a type stands for, at most one type a step; a circle ends where it closes
Follow(next(_), type, most) ==
    LET step(st, k) == IF st.type \in st.seen \cup {NoType} \/ next(st.type) = {} THEN st
                       ELSE [type |-> CHOOSE t \in next(st.type) : TRUE, seen |-> st.seen \cup {st.type}]
    IN FoldLeft(step, [type |-> type, seen |-> {}], Steps(most + 1)).type

\* a type parameter of the caller stands for its bound
ResolveTypeAlias(p, c, type) ==
    LET params(t) == {v \in Visible(p, c, t) : v.kind = "type_parameter"}
    IN Follow(LAMBDA t : IF params(t) = {} THEN {} ELSE {Earliest(params(t)).type}, type, Cardinality(p.variables))

\* the alias of the same file, or the first
ResolveProjectType(p, c, type) ==
    LET of(t)   == {a \in p.aliases : a.name = t}
        here(t) == {a \in of(t) : a.file = c.file}
        pick(t) == IF here(t) # {} THEN CHOOSE a \in here(t) : TRUE
                   ELSE CHOOSE a \in of(t) : \A b \in of(t) : a.file <= b.file
    IN Follow(LAMBDA t : IF of(t) = {} THEN {} ELSE {pick(t).target}, ResolveTypeAlias(p, c, type),
              Cardinality(p.aliases))

\* one layer of a smart pointer, box or option is taken off
UnwrapReceiverContainer_Never(p, type) == type
UnwrapReceiverContainer(p, type) == IF type \in DOMAIN p.content THEN p.content[type] ELSE type

CandidateCallArity(s) == IF "extension" \in s.mods /\ s.arity > 0 THEN s.arity - 1 ELSE s.arity
AritiesFit(a, b) == a = Unknown \/ b = Unknown \/ a = b
ReceiverMatchesSymbol(p, type, s) == \/ OwnerCompatible(type, s.owner, p.parents)
                                     \/ /\ "extension" \in s.mods /\ s.params # <<>>
                                        /\ OwnerCompatible(type, Head(s.params), p.parents)

\* what all functions of that name return, if they agree
UniqueReturnType(p, name, type, arity) ==
    LET rets == {s.ret : s \in {s \in p.symbols :
                    /\ s.name = name /\ s.ret # NoType /\ AritiesFit(arity, CandidateCallArity(s))
                    /\ (type # NoType /\ s.kind = "method") => ReceiverMatchesSymbol(p, type, s)}}
    IN IF Cardinality(rets) = 1 THEN CHOOSE t \in rets : TRUE ELSE NoType

\* segment: name, call (it has an argument list), arity
ResolveReceiverType(p, c) ==
    LET root  == c.receiver[1]
        vars  == BestVariable(p, c, root.name)
        named == IF root.name \in p.typeNames THEN root.name ELSE NoType
        ret   == UniqueReturnType(p, root.name, NoType, root.arity)
        first == IF root.name = "this" THEN c.caller[1]
                 ELSE IF root.call THEN (IF ret # NoType THEN ret ELSE named)
                 ELSE IF vars # {} THEN ResolvedVariableType(p, c, CHOOSE v \in vars : TRUE)
                 ELSE named
        next(outer, seg) ==
            LET type == UnwrapReceiverContainer(p, outer)  field == FieldVariable(p, type, seg.name) IN
            IF type = NoType \/ (~seg.call /\ field = {}) THEN NoType
            ELSE ResolveProjectType(p, c, IF seg.call THEN UniqueReturnType(p, seg.name, type, seg.arity)
                                          ELSE (CHOOSE v \in field : TRUE).type)
    IN IF c.receiver = <<>> THEN NoType
       ELSE UnwrapReceiverContainer(p, FoldLeft(next, ResolveProjectType(p, c, first), Tail(c.receiver)))

(***************************************************************************)
(* Candidates                                                              *)
(***************************************************************************)
InFile(s, file)       == file \in s.files
Included(p, c, s)     == s.files \cap p.includes[c.file] # {}
Proximity(p, c, s)    == 80 \div (1 + Min({p.apart[<<c.file, f>>] : f \in s.files}))

CppSymbolVisible(p, c, s) ==
    \/ InFile(s, c.file) \/ Included(p, c, s) \/ c.qualified = <<s.owner, s.name>>
    \/ \E f \in s.files : p.root[f] = p.root[c.file]
    \/ s.owner # NoType /\ OwnerCompatible(c.caller[1], s.owner, p.parents)

ReceiverEvidenceWeight(p, type, s) ==
    IF type = s.owner THEN 420 ELSE IF "extension" \in s.mods THEN 360 ELSE 340

\* arguments of known type speak for a symbol when they are its parameters',
\* and against it when they are not
ArgumentTypeAdjustment(c, s) ==
    LET params == IF "extension" \in s.mods /\ s.params # <<>> THEN Tail(s.params) ELSE s.params
        known  == {i \in DOMAIN c.args : c.args[i] # NoType}
        fit    == Cardinality({i \in known : c.args[i] = params[i]})
    IN IF Len(c.args) # Len(params) \/ known = {} THEN 0
       ELSE (96 * fit - 72 * (Cardinality(known) - fit)) \div Cardinality(known)

SemanticCandidateScore(p, c, type, s, count) ==
    LET arity == CandidateCallArity(s)
        who == IF c.qualified = <<s.owner, s.name>> THEN 500
               ELSE IF type # NoType /\ ReceiverMatchesSymbol(p, type, s) THEN ReceiverEvidenceWeight(p, type, s)
               ELSE IF s.owner # NoType /\ OwnerCompatible(c.caller[1], s.owner, p.parents) THEN 320
               ELSE IF count = 1 THEN 180 ELSE 0
        fit == IF Unknown \in {c.arity, arity} THEN 0 ELSE IF c.arity = arity THEN 100 ELSE -300
    IN -150 + who + fit + ArgumentTypeAdjustment(c, s) + (IF InFile(s, c.file) THEN 70 ELSE 0)
            + (IF Included(p, c, s) THEN 125 ELSE 0) + Proximity(p, c, s)

\* with a receiver, methods of its type and the types above; without one,
\* what is visible
IsCandidate(p, c, type, s) ==
    /\ s.name = c.name
    /\ IF type # NoType THEN s.kind \in {"method", "property"} /\ ReceiverMatchesSymbol(p, type, s)
       ELSE c.lang = "cpp" => CppSymbolVisible(p, c, s)

AtMost(s) == SubSeq(s, 1, Min({MaxCandidates, Len(s)}))

\* best first, then by name (of symbols of one name, their semantic ids are in
\* the order of their qualified names)
Ranking(candidates, score) ==
    [ranked |-> SetToSortSeq(candidates, LAMBDA a, b : score[a] > score[b] \/ (score[a] = score[b] /\ a.sem < b.sem)),
     score  |-> score]
RankSemanticCandidates(p, c, type) ==
    LET named == {s \in p.symbols : s.name = c.name}
    IN Ranking({s \in named : IsCandidate(p, c, type, s)},
               [s \in named |-> SemanticCandidateScore(p, c, type, s, Cardinality(named))])

\* overrides in the types below the receiver's or below the owner of the best
\* candidate, when the language lets a call be dispatched to them; the first
\* ones by name when there are too many
DynamicDispatchTargets_NoOverrides(p, c, type, primary) == {}
DynamicDispatchTargets(p, c, type, primary) ==
    LET kinds == {s.kind : s \in {s \in p.symbols : s.name = primary.owner /\ s.kind \notin {"method", "function", "property"}}}
        overrides == {s \in p.symbols :
            /\ s.name = c.name /\ s.kind = "method" /\ s.sem # primary.sem /\ AritiesFit(c.arity, s.arity)
            /\ IsDescendantType(s.owner, primary.owner, p.parents) \/ IsDescendantType(s.owner, type, p.parents)}
        virtual == primary.mods \cap {"virtual", "abstract", "override"} # {}
        dynamic == CASE primary.lang = "go"     -> "interface" \in kinds
                     [] primary.lang = "rust"   -> "trait" \in kinds
                     [] primary.lang = "java"   -> "interface" \in kinds
                                                   \/ primary.mods \cap {"static", "final", "private"} = {}
                     [] primary.lang = "csharp" -> virtual \/ "interface" \in kinds
                     [] OTHER                   -> virtual
    IN IF type = NoType \/ primary.kind # "method" THEN {}
       ELSE IF dynamic \/ \E s \in overrides : "override" \in s.mods
            THEN Members(AtMost(SetToSortSeq(overrides, LAMBDA a, b : a.sem < b.sem)))
            ELSE {}

(***************************************************************************)
(* One call                                                                *)
(***************************************************************************)
\* the nearest macro of that name; its arity must fit
MatchingMacro(p, c) ==
    LET fits == {m \in p.macros : m.name = c.name /\ AritiesFit(m.arity, c.arity)}
        near(m) == (IF m.file = c.file THEN 240 ELSE 0) + (IF m.file \in p.includes[c.file] THEN 160 ELSE 0)
                     + 80 \div (1 + p.apart[<<c.file, m.file>>])
    IN {m \in fits : \A o \in fits : near(o) < near(m) \/ (near(o) = near(m) /\ m.file <= o.file)}

\* a variable that holds a function: of the caller, of its type, or global
LookupCallback(p, c) ==
    LET name == IF c.receiver # <<>> /\ c.name \in p.invokers THEN c.receiver[1].name ELSE c.name
        of(owner) == {v \in p.variables : v.kind = "callback" /\ v.name = name /\ v.owner = owner
                                            /\ (owner = c.caller => v.line <= c.line)}
        owners == SelectSeq(<<c.caller, <<c.caller[1], "">>, <<NoType, "">>>>, LAMBDA o : of(o) # {})
    IN IF owners = <<>> THEN {} ELSE {Latest(of(Head(owners)))}

\* none when the name is that of several symbols
UniqueQualifiedSymbol(p, name) ==
    LET hits == {s \in p.symbols : s.name = name}
    IN IF Cardinality({<<s.owner, s.name>> : s \in hits}) = 1 THEN {CHOOSE s \in hits : TRUE} ELSE {}

IsExternalCall(p, c, type) ==
    LET homes == UNION {s.files : s \in {s \in p.symbols :
                           (s.kind = "method" /\ s.owner = type) \/ (s.kind # "method" /\ s.name = type)}}
    IN \/ c.name \in p.external \/ type \in p.external
       \/ type # NoType /\ ~\E f \in homes : \/ p.root[f] = p.root[c.file] \/ f = c.file
                                             \/ f \in p.includes[c.file]

\* qualified: callee_qualified_name after the pass
Link(kind, resolution, qualified, candidates, dispatch) ==
    [kind |-> kind, resolution |-> resolution, qualified |-> qualified, candidates |-> candidates,
     dispatch |-> dispatch]

\* a confidence of 0.82 is log-odds of 1.516
LinkRanked(p, c, type, ranking) ==
    LET top   == AtMost(ranking.ranked)
        lead  == Len(top) = 1 \/ ranking.score[top[1]] - ranking.score[top[2]] > 35
        exact == lead /\ ranking.score[top[1]] >= 152
    IN IF top = <<>> THEN Link("unresolved", "unresolved", c.qualified, {}, {})
       ELSE Link("internal", IF exact THEN "exact" ELSE "candidate",
                 IF exact THEN <<top[1].owner, top[1].name>> ELSE c.qualified,
                 Members(top), DynamicDispatchTargets(p, c, type, top[1]))
ResolveInternal(p, c, type) == LinkRanked(p, c, type, RankSemanticCandidates(p, c, type))

\* what a call is, given its receiver's type and what the ranking makes of it
ClassifyCall(p, c, type, internal) ==
    LET callback == LookupCallback(p, c)
        variable == CHOOSE v \in callback : TRUE
        target   == UniqueQualifiedSymbol(p, variable.target)
        called   == IF target # {} THEN LET s == CHOOSE s \in target : TRUE IN <<s.owner, s.name>>
                    ELSE <<NoType, IF variable.target # "" THEN variable.target ELSE variable.name>>
        known    == MatchingMacro(p, c) # {}
        macro    == Link("macro", "classified", IF known THEN <<NoType, c.name>> ELSE c.qualified, {}, {})
        external(name) == Link("external", "classified", name, {}, {})
    IN IF c.lang = "rust" /\ c.bang THEN macro
       ELSE IF c.name \in p.constructs THEN external(c.qualified)
       ELSE IF known \/ c.name \in p.wellKnownMacros THEN macro
       ELSE IF callback # {} THEN Link("callback", IF target = {} THEN "classified" ELSE "exact", called, target, {})
       ELSE IF internal.candidates # {} THEN internal
       ELSE IF c.name \in p.macroLike THEN macro
       ELSE IF IsExternalCall(p, c, type) THEN external(IF type # NoType THEN <<type, c.name>> ELSE c.qualified)
       ELSE internal
ResolveTyped(p, c, type) == ClassifyCall(p, c, type, ResolveInternal(p, c, type))
ResolveCall(p, c) == ResolveTyped(p, c, ResolveReceiverType(p, c))

ResolveCallCandidates(p, calls) == [c \in calls |-> ResolveCall(p, c)]
=============================================================================
