----------------------------- MODULE MCMemSearch ----------------------------
(***************************************************************************)
(* The inputs on which the searches of MemSearch are compared with what    *)
(* they should find: all small memories.  The variables say which tool is  *)
(* looked at, what it is given, and whether its answer is due.             *)
(***************************************************************************)
EXTENDS MemSearch, TLC

VARIABLES part,   \* the tool that is looked at
          input,  \* what it is given
          done    \* its answer is due

Due(p) == done /\ part = p

Patterns == UNION {[1 .. k -> Bytes] : k \in 1 .. 3}
SearchInputs  == [mem : UNION {[1 .. k -> Bytes] : k \in 0 .. 7}, pat : Patterns, wide : BOOLEAN]
TwoFields(pat) == <<[off |-> 0, bytes |-> pat], [off |-> 1, bytes |-> pat]>>
FilterInputs  == [old : [1 .. 4 -> Bytes], mem : [1 .. 4 -> Bytes \cup {Gap}], type : {"int", "uint"},
                  filter : {"exact", "changed", "unchanged", "increased", "decreased"}]
ValueInputs   == [type : {"int", "uint"}, a : -5 .. 8, b : -5 .. 8, size : 1 .. 3, order : {"little", "big"}]
PointerInputs == [mem : [1 .. 6 -> Bytes], target : 0 .. 3]

\* A filter keeps the matches whose value in memory now passes, with that
\* value as the next one to compare with, whether it starts from a list of
\* matches or from a snapshot, and a diff against the snapshot names the words
\* that changed; holes in the memory only lose matches.
FilterKeeps(in) ==
    LET by == [filter |-> in.filter, type |-> in.type, size |-> 2, order |-> "little", value |-> <<1, 0>>]
        list  == [i \in 1 .. 3 |-> [addr |-> i - 1, prev |-> Cut(in.old, i - 1, 2)]]
    IN /\ ListFiltered(in.mem, list, by)
       /\ SnapshotFiltered(in.mem, in.old, by)
       /\ DiffNames(in.mem, in.old, 2)

\* A scan of process memory that reads in pieces finds what one look at the
\* whole memory finds: searches, filters over lists and snapshots, pointer
\* chains (memtool).
SearchesRight ==
    /\ Due("search")  => /\ ScanFinds(input.mem, input.pat, IF input.wide THEN Len(input.pat) ELSE 1)
                         /\ StructFinds(input.mem, TwoFields(input.pat))
    /\ Due("filter")  => FilterKeeps(input)
    /\ Due("pointer") => ChainsLead(input.mem, input.target, 1, 2)
    /\ Due("value")   => ValuesRight(input)
=============================================================================
