------------------------------ MODULE MCBinaries ----------------------------
(***************************************************************************)
(* Small programs for Binaries, laid out as a compiler does: functions one *)
(* after the other, padded with int3; and what the analyses should say.    *)
(***************************************************************************)
EXTENDS Binaries

Cell(op, to) == [op |-> op, to |-> to]
Plain(op)    == Cell(op, 0)
FunctionShape == [kind : {"leaf", "branches", "switches"}, callee : {1}]
                 \cup [kind : {"calls", "dies", "tail"}, callee : {1, 3}]
SizeOf(f) == CASE f.kind \in {"leaf", "tail"} -> 2
               [] f.kind = "dies"             -> 3
               [] OTHER                       -> 4
\* a compiler puts a trap behind a call that does not return
PadOf(f, pad) == IF f.kind = "dies" /\ pad = 0 THEN 1 ELSE pad
StartOf(fs, pad, i) == FoldLeft(LAMBDA at, f : at + SizeOf(f) + PadOf(f, pad), 0, SubSeq(fs, 1, i - 1))
Code(fs, pad) ==
    LET to(g) == StartOf(fs, pad, g)
        cells(i) ==
          LET f == fs[i]
              s == StartOf(fs, pad, i)
          IN CASE f.kind = "leaf"     -> <<Plain("frame"), Plain("ret")>>
               [] f.kind = "branches" -> <<Cell("jcc", s + 2), Plain("ret"), Plain("push"), Plain("ret")>>
               [] f.kind = "switches" -> <<Cell("ijmp", s), Plain("ret"), Plain("op"), Plain("ret")>>
               [] f.kind = "calls"    -> <<Plain("frame"), Cell("call", to(f.callee)), Plain("frame"), Plain("ret")>>
               [] f.kind = "dies"     -> <<Plain("op"), Cell("call", to(f.callee)), Plain("ret")>>
               [] f.kind = "tail"     -> <<Plain("op"), Cell("jmp", to(f.callee))>>
    IN FlattenSeq([i \in DOMAIN fs |-> cells(i) \o [k \in 1 .. PadOf(fs[i], pad) |-> Plain("int3")]])
\* the jump tables, each followed by something else
TablesOf(fs, pad) ==
    [t \in {StartOf(fs, pad, i) : i \in {i \in DOMAIN fs : fs[i].kind = "switches"}} |-> <<t + 1, t + 2, 99>>]
\* where the instructions of function i begin
InstsOf(fs, pad, i) ==
    LET s == StartOf(fs, pad, i)
    IN {s + k : k \in 0 .. SizeOf(fs[i]) - 1} \ (IF fs[i].kind \in {"calls", "dies"} THEN {s + 2} ELSE {})
CallsOf(fs, i) == IF fs[i].kind \in {"calls", "dies"} THEN {fs[i].callee} ELSE {}
CalledFrom(fs, S) ==
    LET F[n \in 0 .. 3] == IF n = 0 THEN S ELSE F[n - 1] \cup UNION {CallsOf(fs, i) : i \in F[n - 1]} IN F[3]

\* a function that is only jumped to is the analysis' documented blind spot
LayoutInputs ==
    {x \in [fs : [1 .. 3 -> FunctionShape], pad : {0, 2}, exports : {{1}, {2, 3}}] :
        \A i \in 1 .. 3 : x.fs[i].kind = "tail" => x.fs[i].callee \in x.exports \cup UNION {CallsOf(x.fs, j) : j \in x.exports}}
ListingInputs == [data : UNION {[1 .. n -> {Plain("op"), Plain("call"), Plain("ret"), Plain("bad"), Plain("push")}] : n \in 1 .. 5},
                  count : 1 .. 3, stop : BOOLEAN, end : {Absent, 2, 4}]
TableInputs   == [a : SUBSET (1 .. 3), b : SUBSET (5 .. 7), more : (1 .. 3 \cup 5 .. 7) \X (1 .. 3 \cup 5 .. 7)]
PdataInputs   == UNION {[1 .. n -> [begin : 0 .. 3, end : 0 .. 4]] : n \in 0 .. 3}
AddressInputs == [va : 0 .. 2, v1 : 1 .. 3, v2 : 1 .. 3, off : 0 .. 2, s1 : 0 .. 3, s2 : 0 .. 3]

\* Discovery finds every function that calls reach from the exports and takes
\* nothing else for one; an address that is answered with exact or high
\* confidence lies in the function it is said to, every instruction of a known
\* function gets such an answer, and no range runs into the next function.
AnswerRight(in, start, known, q, a) ==
    LET sure == a.conf \in {"exact", "high"}
    IN /\ sure => /\ \E i \in 1 .. 3 : /\ a.start = start[i]
                                       /\ \/ q \in InstsOf(in.fs, in.pad, i)
                                          \/ in.fs[i].kind = "dies" /\ q = a.start + SizeOf(in.fs[i])
                  /\ a.start <= q /\ q < a.end
                  /\ \A s \in known : s > a.start => a.end <= s
       /\ \A i \in 1 .. 3 : q \in InstsOf(in.fs, in.pad, i) /\ start[i] \in known => sure
StartsRight(in, start, known) ==
    /\ known.complete
    /\ known.starts \subseteq Range(start)
    /\ {start[i] : i \in CalledFrom(in.fs, in.exports)} \subseteq known.starts
ProgramRight(in, start, data, tables) ==
    LET exports  == {start[i] : i \in in.exports}
        pointers == UNION {{t + 1, t + 2} : t \in DOMAIN tables}
        known    == KnownStarts(data, exports, pointers, tables)
    IN /\ StartsRight(in, start, known)
       /\ \A q \in Offsets(data) :
             AnswerRight(in, start, known.starts, q, RefineFuncStart(data, exports, pointers, tables, q))
LayoutRight(in) ==
    ProgramRight(in, [i \in 1 .. 3 |-> StartOf(in.fs, in.pad, i)], Code(in.fs, in.pad), TablesOf(in.fs, in.pad))

SortedApart(t) == \A i \in DOMAIN t : t[i].begin < t[i].end /\ (i < Len(t) => t[i].end <= t[i + 1].begin)
Distances(T, r) ==
    LET R[n \in 0 .. 3] == IF n = 0 THEN {r} ELSE R[n - 1] \cup UNION {T[x] : x \in R[n - 1]}
    IN [x \in R[3] |-> Min({n \in 0 .. 3 : x \in R[n]})]

\* A call graph has the functions within its depth, each at the length of the
\* shortest way, and the calls among them; the limit on functions only cuts
\* it.  A table from symbols has them and what is called.  Its callers are those the calls name, and xref finds each of them.
GraphRight(sections, table, T, root, d, depth, most, g) ==
    LET callers == {x \in DOMAIN T : root \in T[x]}
    IN /\ g.root = root /\ Cardinality(DOMAIN g.visited) <= most
       /\ \A x \in DOMAIN g.visited : d[x] = g.visited[x]
       /\ \A e \in g.edges : e[2] \in T[e[1]]
       /\ most = 9 => /\ DOMAIN g.visited = {x \in DOMAIN d : d[x] <= depth}
                      /\ g.edges = {e \in (DOMAIN d) \X (DOMAIN d) : e[2] \in T[e[1]] /\ d[e[1]] < depth}
       /\ callers \cap {table[j].begin : j \in DOMAIN table} \subseteq g.callers
       /\ Len(table) = 3 => g.callers = callers
       /\ PrintCallTree(root, g.order, 0, depth, {}) \subseteq DOMAIN g.visited
       /\ g.callers \subseteq {FindFunc(table, x).begin : x \in ToSet(OpXref(sections, root, root, 9))}
GraphsRight(sections, table, T) ==
    \A k \in DOMAIN table, depth \in {1, 3}, most \in {2, 9} :
        LET root == table[k].begin
        IN GraphRight(sections, table, T, root, Distances(T, root), depth, most,
                      OpCallGraph("x86", sections, table, root, depth, most))
SymbolsFound(in, start, table) ==
    /\ SortedApart(table)
    /\ {start[i] : i \in in.exports \cup UNION {CallsOf(in.fs, i) : i \in in.exports}}
          \subseteq {table[k].begin : k \in DOMAIN table}
LinksRight(in, start, sections) ==
    /\ SymbolsFound(in, start, CgOpenMachO("x86", sections, SetToSortSeq({start[i] : i \in in.exports}, <)))
    /\ GraphsRight(sections, CgOpenPE(sections, <<>>, {start[i] : i \in in.exports}, {}),
                   [s \in Range(start) |-> UNION {{start[j] : j \in CallsOf(in.fs, i)} : i \in {i \in 1 .. 3 : start[i] = s}}])
CallGraphRight(in) ==
    LinksRight(in, [i \in 1 .. 3 |-> 1 + StartOf(in.fs, in.pad, i)], <<[rva |-> 1, data |-> Code(in.fs, in.pad)]>>)

RECURSIVE Listed(_, _)
Listed(in, at) ==
    LET p == OpDisassemble(in.data, at, in.count, in.stop, in.end)
    IN IF p.more THEN p.listed \o Listed(in, p.next) ELSE p.listed

\* Listings that follow the continuation hint by address are together the
\* listing that one large request gives, and do not run past the function.
ListingRight(in) ==
    /\ Listed(in, 0) = OpDisassemble(in.data, 0, 9, in.stop, in.end).listed
    /\ in.end # Absent => Range(Listed(in, 0)) \subseteq 0 .. in.end - 1

\* A table of functions is sorted without overlaps after starts are inserted
\* in any order, and looks an address up in the nearest start before it in the
\* same section.
TableRight(in) ==
    LET blank == [k \in 1 .. 3 |-> Plain("op")]
        sections == <<[rva |-> 1, data |-> blank], [rva |-> 5, data |-> blank]>>
        rvas == 1 .. 3 \cup 5 .. 7
        t    == BuildFuncRangesFromStarts(in.a \cup in.b, sections)
        both == InsertFunc(InsertFunc(t, in.more[1], sections), in.more[2], sections)
        all  == in.a \cup in.b \cup ToSet(in.more)
        nearest(starts, r) == Max({Absent} \cup {s \in starts : s <= r /\ (s < 4) = (r < 4)})
    IN /\ SortedApart(t) /\ SortedApart(both)
       /\ \A r \in rvas : FindFunc(t, r).begin = nearest(in.a \cup in.b, r)
       /\ \A r \in rvas : nearest(all, r) # Absent => FindFunc(both, r).begin = nearest(all, r)
       /\ MergeStartsIntoFuncTable(t, ToSet(in.more), sections) = BuildFuncRangesFromStarts(all, sections)

\* A lookup in a sorted .pdata table finds the entry that holds the address
\* although corrupted entries lie among the good ones, and no other.
PdataRight(in) ==
    LET good == SelectSeq(in, LAMBDA e : e.begin < e.end)
        holds(e, q) == e.begin <= q /\ q < e.end
    IN SortedApart(good) => \A q \in 0 .. 4 :
          LET a == FunctionAtPdata(in, q)
          IN /\ IF \E i \in DOMAIN good : holds(good[i], q) THEN a \in ToSet(good) /\ holds(a, q) ELSE a.begin = Absent
             /\ good = in => PdataFuncEndOffset(in, q) = a.end

\* An address that a section's file data backs survives the way to a file
\* offset and back.
AddressRight(in) ==
    LET s == <<[va |-> in.va, vsize |-> in.v1, off |-> in.off, size |-> in.s1],
               [va |-> in.va + in.v1, vsize |-> in.v2, off |-> in.off + in.s1, size |-> in.s2]>>
    IN \A r \in 0 .. 9 : (\E i \in 1 .. 2 : s[i].va <= r /\ r < s[i].va + Min({s[i].vsize, s[i].size}))
          => FileOffsetToRVA(s, RvaToFileOffset(s, r)) = r
=============================================================================
