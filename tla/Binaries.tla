------------------------------ MODULE Binaries ------------------------------
(***************************************************************************)
(* analyze: where functions begin and end in machine code, who calls whom, *)
(* and who refers to an address.                                           *)
(*                                                                         *)
(* Code is a sequence of cells, a position an offset from 0.  A cell says  *)
(* what the bytes decode to when decoding starts there: op is "op", "push" *)
(* (a weak prologue), "frame" (a strong one), "ret", "int3", "nop", "call",*)
(* "icall" (through the import table), "jmp", "jcc", "ijmp" (an indirect   *)
(* jump, `to` its table) or "bad".  A call takes two cells, and its second *)
(* cell decodes as something else when decoding starts in the middle.      *)
(* Branches hold the offset they lead to.                                  *)
(***************************************************************************)
EXTENDS Integers, Sequences, SequencesExt, FiniteSetsExt, TLC

CONSTANTS MaxBackScan,   \* cells looked at before a query
          MaxInstLen,    \* cells read for one instruction
          DecodeBudget   \* instructions decoded by one exploration

ASSUME BinariesAssumption == {MaxBackScan, MaxInstLen, DecodeBudget} \subseteq Nat \ {0}

Absent == -1
OpAt(data, off)  == data[off + 1].op
Offsets(data)    == 0 .. Len(data) - 1
Padding          == {"int3", "nop"}
InstLen(data, off) ==
    LET len == IF OpAt(data, off) \in {"call", "icall"} THEN 2 ELSE 1
    IN IF OpAt(data, off) = "bad" \/ off + len > Len(data) THEN 0 ELSE len
BranchTargetOff(data, off) == data[off + 1].to

(***************************************************************************)
(* Following the control flow of one function.  tables gives the targets   *)
(* of the jump tables that can be read.                                    *)
(***************************************************************************)
JumpTable(entries, size) ==
    LET good(i) == \A j \in 1 .. i : entries[j] \in 0 .. size - 1
    IN SubSeq(entries, 1, Max({0} \cup {i \in DOMAIN entries : good(i)}))

Continues(data, tables, off) ==
    LET next == off + InstLen(data, off)
        op   == OpAt(data, off)
    IN CASE InstLen(data, off) = 0 \/ op \in {"int3", "ret"} -> <<>>
         [] op = "jmp" -> <<BranchTargetOff(data, off)>>
         [] op = "ijmp" -> IF BranchTargetOff(data, off) \in DOMAIN tables
                           THEN JumpTable(tables[BranchTargetOff(data, off)], Len(data)) ELSE <<>>
         [] op = "jcc" -> <<BranchTargetOff(data, off), next>>
         [] OTHER -> <<next>>

\* st: stack, visited, walls (known starts), found (starts found on the way), budget
RECURSIVE CfgWalk(_, _, _, _, _)
CfgWalk(data, tables, start, collects, st) ==
    LET pos   == Last(st.stack)
        rest  == [st EXCEPT !.stack = Front(@)]
        t     == BranchTargetOff(data, pos)
        fresh == /\ collects /\ OpAt(data, pos) = "call" /\ InstLen(data, pos) > 0
                 /\ t \in Offsets(data) \ st.walls
    IN IF st.stack = <<>> \/ st.budget = 0 THEN st
       ELSE IF pos \notin Offsets(data) \/ pos \in st.visited \/ (pos # start /\ pos \in st.walls)
       THEN CfgWalk(data, tables, start, collects, rest)
       ELSE CfgWalk(data, tables, start, collects,
                    [stack   |-> rest.stack \o Continues(data, tables, pos),
                     visited |-> st.visited \cup {pos},
                     walls   |-> IF fresh THEN st.walls \cup {t} ELSE st.walls,
                     found   |-> IF fresh THEN Append(st.found, t) ELSE st.found,
                     budget  |-> st.budget - 1])
FunctionBody(data, tables, start, walls) ==
    CfgWalk(data, tables, start, FALSE,
            [stack |-> <<start>>, visited |-> {}, walls |-> walls, found |-> <<>>, budget |-> DecodeBudget]).visited

FunctionContains_Linear(data, tables, start, query, walls) == start >= 0 /\ start <= query
FunctionContains(data, tables, start, query, walls) ==
    /\ start >= 0 /\ start <= query /\ query < Len(data)
    /\ query \in FunctionBody(data, tables, start, walls)

RECURSIVE Discover(_, _, _)
Discover(data, tables, st) ==
    LET fn == Last(st.found)
        w  == CfgWalk(data, tables, fn, TRUE, [st EXCEPT !.stack = <<fn>>, !.visited = {}, !.found = Front(@)])
    IN IF st.found = <<>> \/ st.budget = 0 THEN st ELSE Discover(data, tables, w)
DiscoverFunctionStarts_SeedsOnly(data, seeds, tables) == [starts |-> seeds \cap Offsets(data), complete |-> TRUE]
DiscoverFunctionStarts(data, seeds, tables) ==
    LET inside == seeds \cap Offsets(data)
        end == Discover(data, tables, [stack |-> <<>>, visited |-> {}, walls |-> inside,
                                       found |-> SetToSeq(inside), budget |-> DecodeBudget])
    IN [starts |-> end.walls, complete |-> end.found = <<>>]

(***************************************************************************)
(* Decoding from the first cell on                                         *)
(***************************************************************************)
Step(data, off) == IF InstLen(data, off) = 0 THEN 1 ELSE InstLen(data, off)
SweepPositions(data) ==
    LET reach(at, i) == IF i \in at THEN at \cup {i + Step(data, i)} ELSE at
    IN FoldLeft(reach, {0}, [k \in DOMAIN data |-> k - 1]) \cap Offsets(data)
CallsAt(data) == {i \in SweepPositions(data) : OpAt(data, i) = "call" /\ InstLen(data, i) > 0}
\* on ARM every cell is an instruction
CallSites(arch, data) ==
    IF arch = "arm" THEN {i \in Offsets(data) : OpAt(data, i) = "call"} ELSE CallsAt(data)

PrecededByGap(data, off) == off >= 2 /\ OpAt(data, off - 1) = "int3" /\ OpAt(data, off - 2) = "int3"
Int3RunBetween(data, a, b) ==
    \E i \in Offsets(data) : a <= i /\ i + 1 < b /\ OpAt(data, i) = "int3" /\ OpAt(data, i + 1) = "int3"
LinearSweepStarts(data) ==
    {t \in {BranchTargetOff(data, i) : i \in CallsAt(data)} : t \in Offsets(data) /\ PrecededByGap(data, t)}
\* pointers found in data sections, as offsets
DataPointerStarts(data, pointers) ==
    {p \in pointers \cap Offsets(data) : p >= 2 /\ OpAt(data, p - 1) \in Padding /\ OpAt(data, p - 2) \in Padding}

(***************************************************************************)
(* Guessing from what the cells look like                                  *)
(***************************************************************************)
MatchesPrologue(data, off) == OpAt(data, off) \in {"push", "frame"}
StrongPrologue(data, off)  == OpAt(data, off) = "frame"

FindPrologueBackward(data, pos) ==
    LET limit  == Max({pos - MaxBackScan, 0})
        marks  == {i \in limit .. pos - 1 : OpAt(data, i) \in Padding \cup {"ret"}}
        starts == {i \in limit .. Min({limit + 15, pos - 1}) : MatchesPrologue(data, i)}
    IN IF MatchesPrologue(data, pos) THEN pos
       ELSE IF marks # {} THEN Max(marks) + 1
       ELSE IF starts # {} THEN Min(starts) ELSE Absent
FindEpilogueForward(data, pos) ==
    LET ends == {i \in pos .. Len(data) - 1 :
                   /\ OpAt(data, i) = "ret"
                   /\ \/ i + 1 = Len(data)
                      \/ OpAt(data, i + 1) \in Padding
                      \/ MatchesPrologue(data, i + 1)}
    IN IF ends = {} THEN Absent ELSE Min(ends) + 1
NoBounds == [start |-> Absent, end |-> Absent, conf |-> "none", source |-> "none", hint |-> Absent]
HeuristicFuncBounds(data, pos) ==
    LET start == FindPrologueBackward(data, pos)
        end   == FindEpilogueForward(data, pos)
    IN IF start = Absent \/ end = Absent \/ end <= start THEN NoBounds
       ELSE [NoBounds EXCEPT !.start = start, !.end = end, !.conf = "medium"]

ComputeFuncEnd(data, query, bounds, next) ==
    LET ret == FindEpilogueForward(data, query)
        end == IF bounds.end > 0 THEN bounds.end ELSE IF ret > query THEN ret ELSE Len(data)
    IN IF next # Absent /\ end > next THEN next ELSE end

(***************************************************************************)
(* function_at without an exception table: the nearest known start owns    *)
(* the query if its control flow leads there; else the guess is labelled   *)
(***************************************************************************)
KnownStarts(data, exports, pointers, tables) ==
    DiscoverFunctionStarts(data, exports \cup DataPointerStarts(data, pointers) \cup LinearSweepStarts(data), tables)

RefineFuncStart_Nearest(data, exports, pointers, tables, query) ==
    LET starts == KnownStarts(data, exports, pointers, tables).starts
        below  == {s \in starts : s <= query}
    IN IF below = {} THEN HeuristicFuncBounds(data, query)
       ELSE [start |-> Max(below), end |-> Len(data), conf |-> "high", source |-> "call-target", hint |-> Max(below)]
\* best: the known start at or before the query; guess: the heuristic's answer
RefineGuess(data, exports, tables, query, known, best, guess) ==
    LET above  == {s \in known.starts : s > query}
        next   == IF above = {} THEN Absent ELSE Min(above)
        inside == best # Absent /\ best < guess.start /\ ~Int3RunBetween(data, best, guess.start)
    IN IF best # Absent /\ FunctionContains(data, tables, best, query, known.starts)
       THEN [start  |-> best, end |-> ComputeFuncEnd(data, query, guess, next), hint |-> best,
             conf   |-> IF ~known.complete THEN "medium" ELSE IF best \in exports THEN "exact" ELSE "high",
             source |-> IF best \in exports THEN "export" ELSE "call-target"]
       ELSE IF guess.start = Absent THEN NoBounds
       ELSE IF ~FunctionContains(data, tables, guess.start, query, known.starts)
       THEN [guess EXCEPT !.source = "heuristic-misaligned", !.conf = "low"]
       ELSE IF (PrecededByGap(data, guess.start) \/ ~inside) /\ StrongPrologue(data, guess.start)
       THEN [guess EXCEPT !.source = "prologue", !.conf = "medium"]
       ELSE [guess EXCEPT !.source = "heuristic", !.conf = "low"]
RefineKnown(data, exports, tables, query, known) ==
    LET best == Max({Absent} \cup {s \in known.starts : s <= query})
    IN RefineGuess(data, exports, tables, query, known, best, [HeuristicFuncBounds(data, query) EXCEPT !.hint = best])
RefineFuncStart(data, exports, pointers, tables, query) ==
    RefineKnown(data, exports, tables, query, KnownStarts(data, exports, pointers, tables))

(***************************************************************************)
(* Function tables: ranges [begin, end) in order of begin                  *)
(***************************************************************************)
\* sort.Search: the first entry of lo .. hi that begins after the query, by halving
RECURSIVE SearchFirst(_, _, _, _)
SearchFirst(entries, lo, hi, query) ==
    LET mid == lo + (hi - lo) \div 2
    IN IF lo >= hi THEN lo
       ELSE IF entries[mid].begin > query THEN SearchFirst(entries, lo, mid, query)
       ELSE SearchFirst(entries, mid + 1, hi, query)

\* the last entry that begins at or before the query, if it holds the query
Containing(entries, query) ==
    LET i == SearchFirst(entries, 1, Len(entries) + 1, query) - 1
    IN IF i >= 1 /\ query < entries[i].end THEN entries[i] ELSE [begin |-> Absent, end |-> Absent]
FindFunc(table, rva) == Containing(table, rva)
PdataFuncEndOffset(entries, query) == Containing(entries, query).end
\* opFunctionAt: entries that end before they begin are left out first
FunctionAtPdata(entries, query) == Containing(SelectSeq(entries, LAMBDA e : e.begin < e.end), query)

\* a section is [rva, data]
SectionEnd(s) == s.rva + Len(s.data)
HoldsRVA(s, rva) == s.rva <= rva /\ rva < SectionEnd(s)
IsInExecSection(sections, rva) == \E s \in ToSet(sections) : HoldsRVA(s, rva)

BuildFuncRangesFromStarts_ToNext(starts, sections) ==
    LET sorted == SetToSortSeq(starts, <)
    IN [i \in DOMAIN sorted |-> [begin |-> sorted[i], end |-> IF i < Len(sorted) THEN sorted[i + 1] ELSE SectionEnd(Last(sections))]]
BuildFuncRangesFromStarts(starts, sections) ==
    LET held   == {r \in starts : IsInExecSection(sections, r)}
        sorted == SetToSortSeq(held, <)
        secEnd(r) == SectionEnd(SelectSeq(sections, LAMBDA s : HoldsRVA(s, r))[1])
        end(i) == Min({secEnd(sorted[i])} \cup {r \in held : r > sorted[i]})
    IN [i \in DOMAIN sorted |-> [begin |-> sorted[i], end |-> end(i)]]
MergeStartsIntoFuncTable(table, extra, sections) ==
    BuildFuncRangesFromStarts({table[i].begin : i \in DOMAIN table} \cup extra, sections)

\* calls hold offsets of their section; here they become addresses
CallTargetsIn(arch, s) == {s.rva + BranchTargetOff(s.data, i) : i \in CallSites(arch, s.data)}
BuildFuncTableFromCalls(arch, sections) ==
    BuildFuncRangesFromStarts(UNION {CallTargetsIn(arch, s) : s \in ToSet(sections)}, sections)

InsertFunc(table, rva, sections) ==
    LET after == {table[i].begin : i \in {j \in DOMAIN table : table[j].begin > rva}}
        holds == SelectSeq(sections, LAMBDA s : HoldsRVA(s, rva))
        end   == IF after # {} THEN Min(after) ELSE IF holds # <<>> THEN SectionEnd(holds[1]) ELSE 0
        prior == Max({Absent} \cup {table[i].begin : i \in {j \in DOMAIN table : table[j].begin < rva}})
        cut(e) == IF e.begin = prior /\ e.end > rva THEN [e EXCEPT !.end = rva] ELSE e
        cutAll == [i \in DOMAIN table |-> cut(table[i])]
    IN IF FindFunc(table, rva).begin = rva \/ end <= rva THEN table
       ELSE SortSeq(Append(cutAll, [begin |-> rva, end |-> end]), LAMBDA a, b : a.begin < b.begin)

\* the exception table of a PE file; entries that end before they begin are left out
BuildFuncTable(pdata) == SortSeq(SelectSeq(pdata, LAMBDA e : e.begin < e.end), LAMBDA a, b : a.begin < b.begin)

\* what each kind of file says about its functions; addresses, as in the file
CgOpenPE(sections, pdata, exports, pointers) ==
    LET base   == IF BuildFuncTable(pdata) # <<>> THEN BuildFuncTable(pdata) ELSE BuildFuncTableFromCalls("x86", sections)
        shift(s, offs) == {s.rva + o : o \in offs}
        held   == UNION {shift(s, DataPointerStarts(s.data, {p - s.rva : p \in pointers})) : s \in ToSet(sections)}
        swept  == UNION {shift(s, LinearSweepStarts(s.data)) : s \in ToSet(sections)}
        merge(table, extra) == IF extra = {} THEN table ELSE MergeStartsIntoFuncTable(table, extra, sections)
    IN FoldLeft(merge, base, <<exports, held, swept>>)
CgOpenELF(arch, sections, symbols) ==
    FoldLeft(LAMBDA table, rva : InsertFunc(table, rva, sections), BuildFuncTableFromCalls(arch, sections),
             SelectSeq(symbols, LAMBDA rva : IsInExecSection(sections, rva)))
CgOpenMachO(arch, sections, symbols) == CgOpenELF(arch, sections, symbols)

(***************************************************************************)
(* The call graph from a root                                              *)
(***************************************************************************)
ScanCallTargetsCFG_Range(s, fn, walls) ==
    LET calls == {i \in CallsAt(s.data) : fn.begin <= s.rva + i /\ s.rva + i < fn.end}
    IN [direct |-> {s.rva + BranchTargetOff(s.data, i) : i \in calls}, indirect |-> {}]
ScanCallTargetsCFG(s, fn, walls) ==
    LET body == FunctionBody(s.data, <<>>, fn.begin - s.rva, {w - s.rva : w \in walls})
        at(op) == {i \in body : OpAt(s.data, i) = op /\ InstLen(s.data, i) > 0}
    IN [direct   |-> {s.rva + BranchTargetOff(s.data, i) : i \in at("call")},
        indirect |-> {BranchTargetOff(s.data, i) : i \in at("icall")}]
\* on ARM the range of the function is scanned
ScanCallTargetsARM(s, fn) ==
    LET calls == {i \in CallSites("arm", s.data) : fn.begin <= s.rva + i /\ s.rva + i < fn.end}
    IN {s.rva + BranchTargetOff(s.data, i) : i \in calls}

FindCallers(arch, sections, target, table) ==
    LET calls(s) == {j \in CallSites(arch, s.data) : s.rva + BranchTargetOff(s.data, j) = target}
    IN {FindFunc(table, c).begin : c \in UNION {{s.rva + i : i \in calls(s)} : s \in ToSet(sections)}} \ {Absent}

\* one round of the search: the first function of the queue, its callees in order
Expand(arch, g, sections, table, depth, maxNodes) ==
    LET cur     == Head(g.queue)
        fn      == FindFunc(table, cur)
        holds   == SelectSeq(sections, LAMBDA s : HoldsRVA(s, fn.begin))
        walls   == {table[i].begin : i \in DOMAIN table}
        direct  == IF holds = <<>> THEN {}
                   ELSE IF arch = "arm" THEN ScanCallTargetsARM(holds[1], fn)
                   ELSE ScanCallTargetsCFG(holds[1], fn, walls).direct
        callees == SetToSortSeq({t \in direct : IsInExecSection(sections, t)}, <)
        visit(h, t) ==
          LET fresh == t \notin DOMAIN h.visited /\ Cardinality(DOMAIN h.visited) < maxNodes
          IN [queue   |-> IF fresh /\ FindFunc(table, t).begin = t THEN Append(h.queue, t) ELSE h.queue,
              visited |-> IF fresh THEN (t :> h.visited[cur] + 1) @@ h.visited ELSE h.visited,
              edges   |-> Append(h.edges, <<cur, t>>)]
        popped == [g EXCEPT !.queue = Tail(@)]
    IN IF g.visited[cur] >= depth \/ fn.begin = Absent THEN popped ELSE FoldLeft(visit, popped, callees)
RECURSIVE CallGraphFrom(_, _, _, _, _, _)
CallGraphFrom(arch, g, sections, table, depth, maxNodes) ==
    IF g.queue = <<>> \/ Cardinality(DOMAIN g.visited) >= maxNodes THEN g
    ELSE CallGraphFrom(arch, Expand(arch, g, sections, table, depth, maxNodes), sections, table, depth, maxNodes)

\* a root that no call leads to is put into the table first
GraphOf(arch, sections, table, root, depth, maxNodes) ==
    LET fn == FindFunc(table, root)
        g  == CallGraphFrom(arch, [queue |-> <<fn.begin>>, visited |-> (fn.begin :> 0), edges |-> <<>>],
                            sections, table, depth, maxNodes)
    IN IF fn.begin = Absent THEN [err |-> TRUE, table |-> table]
       ELSE [err |-> FALSE, table |-> table, root |-> fn.begin, visited |-> g.visited, edges |-> ToSet(g.edges),
             order |-> g.edges, callers |-> FindCallers(arch, sections, fn.begin, table)]
OpCallGraph(arch, sections, table, root, depth, maxNodes) ==
    GraphOf(arch, sections, IF FindFunc(table, root).begin = Absent /\ IsInExecSection(sections, root)
                            THEN InsertFunc(table, root, sections) ELSE table, root, depth, maxNodes)

\* the tree printed: a function is spread out where it comes first
RECURSIVE PrintCallTree(_, _, _, _, _)
PrintCallTree(fn, edges, depth, maxDepth, printed) ==
    LET kids == FoldLeft(LAMBDA out, e : IF e[1] = fn /\ e[2] \notin ToSet(out) THEN Append(out, e[2]) ELSE out, <<>>, edges)
    IN IF fn \in printed \/ depth >= maxDepth THEN printed \cup {fn}
       ELSE FoldLeft(LAMBDA p, k : PrintCallTree(k, edges, depth + 1, maxDepth, p), printed \cup {fn}, kids)

(***************************************************************************)
(* References to a range of addresses: every offset is tried, decodable or *)
(* not; a match ends the trying at that offset                             *)
(***************************************************************************)
Referring == {"call", "icall", "jmp", "jcc"}
CollectXref(s, first, last, room) ==
    LET target(i) == IF OpAt(s.data, i) = "icall" THEN BranchTargetOff(s.data, i)
                     ELSE s.rva + BranchTargetOff(s.data, i)
        hits == {i \in Offsets(s.data) : /\ OpAt(s.data, i) \in Referring /\ InstLen(s.data, i) > 0
                                         /\ first <= target(i) /\ target(i) <= last}
        sorted == SetToSortSeq({s.rva + i : i \in hits}, <)
    IN SubSeq(sorted, 1, Min({room, Len(sorted)}))
OpXref(sections, first, last, maxResults) ==
    FoldLeft(LAMBDA refs, s : refs \o CollectXref(s, first, last, maxResults - Len(refs)), <<>>, sections)

(***************************************************************************)
(* The listing: at most count instructions of what was read                *)
(***************************************************************************)
IsFuncBoundaryAfterRet(data, pos) ==
    pos >= Len(data) \/ OpAt(data, pos) \in Padding \/ MatchesPrologue(data, pos)
RECURSIVE DisasmX86(_, _, _, _, _)
DisasmX86(data, pos, count, stopAtRet, listed) ==
    LET next == pos + Step(data, pos)
    IN IF count = 0 \/ pos >= Len(data) THEN [listed |-> listed, next |-> pos, more |-> count = 0 /\ pos < Len(data)]
       ELSE IF stopAtRet /\ OpAt(data, pos) = "ret" /\ IsFuncBoundaryAfterRet(data, next)
       THEN [listed |-> Append(listed, pos), next |-> next, more |-> FALSE]
       ELSE DisasmX86(data, next, count - 1, stopAtRet, Append(listed, pos))
\* funcEnd: where the function ends, for a request by address (va) whose
\* function is known; nothing past it is read
OpDisassemble(data, offset, count, stopAtRet, funcEnd) ==
    LET upTo   == Min({Len(data), offset + count * MaxInstLen} \cup {e \in {funcEnd} : e > offset})
        window == SubSeq(data, offset + 1, upTo)
        page   == DisasmX86(window, 0, count, stopAtRet, <<>>)
    IN [page EXCEPT !.listed = [i \in DOMAIN @ |-> offset + @[i]], !.next = offset + @]

(***************************************************************************)
(* Addresses and file offsets; a section here is [va, vsize, off, size]    *)
(***************************************************************************)
RvaToFileOffset(sections, rva) ==
    LET s == SelectSeq(sections, LAMBDA x : x.va <= rva /\ rva < x.va + x.vsize)
    IN IF s = <<>> THEN Absent ELSE rva - s[1].va + s[1].off
FileOffsetToRVA(sections, off) ==
    LET s == SelectSeq(sections, LAMBDA x : x.off <= off /\ off < x.off + x.size)
    IN IF s = <<>> THEN Absent ELSE s[1].va + (off - s[1].off)
=============================================================================
