----------------------------- MODULE MemSearch ------------------------------
(***************************************************************************)
(* How memtool searches (tools/memtool): values and their bytes, reading   *)
(* memory in chunks, the first scan and the filters that follow, snapshots,*)
(* stores that move to disk, struct search, pointer scan and pointer       *)
(* chains.  A region is a sequence of bytes, some of which cannot be read; *)
(* addresses count from its beginning.  The limits on the number of        *)
(* matches of one scan are left out.                                       *)
(***************************************************************************)
EXTENDS Integers, Sequences, SequencesExt, FiniteSetsExt

CONSTANTS Base,         \* the number of values of a byte
          ScanChunk,    \* scanChunkSize
          CompareChunk, \* the chunk of a comparison with a snapshot
          BatchSize,    \* filterBatchSize
          MemThreshold, \* matchMemThreshold
          IterBatch     \* iterBatch

ASSUME MemAssumption == {Base, ScanChunk, CompareChunk, BatchSize, IterBatch} \subseteq Nat \ {0}
                          /\ MemThreshold \in Nat

Gap   == -1  \* a byte that cannot be read
Bytes == 0 .. Base - 1

Cut(s, at, n) == SubSeq(s, at + 1, at + n)
ChunkCount(len, size) == (len + size - 1) \div size
Chunks(len, size) == 0 .. ChunkCount(len, size) - 1

(***************************************************************************)
(* Values                                                                  *)
(***************************************************************************)
\* Base ^ k, the number of values of k bytes
Power(k) == LET p[i \in 0 .. k] == IF i = 0 THEN 1 ELSE Base * p[i - 1] IN p[k]

\* the number a sequence of bytes stands for; highest byte first
Unsigned(bytes, order) ==
    LET len == Len(bytes)
        byte(i) == IF order = "little" THEN bytes[len + 1 - i] ELSE bytes[i]
        n[i \in 0 .. len] == IF i = 0 THEN 0 ELSE n[i - 1] * Base + byte(i)
    IN n[len]
Signed(bytes, order) ==
    LET n == Unsigned(bytes, order)  all == Power(Len(bytes))
    IN IF 2 * n >= all THEN n - all ELSE n
Value(type, bytes, order) == IF type = "int" THEN Signed(bytes, order) ELSE Unsigned(bytes, order)

\* a number outside the range of the type is refused: no bytes
EncodeValue(type, n, size, order) ==
    LET all    == Power(size)
        low    == IF type = "int" THEN -(all \div 2) ELSE 0
        u      == n % all
        little == [i \in 1 .. size |-> (u \div Power(i - 1)) % Base]
    IN IF n < low \/ n >= low + all THEN <<>>
       ELSE IF order = "little" THEN little ELSE Reverse(little)

\* bytes too short to hold a value are equal to everything
CompareValues_Unsigned(type, a, b, size, order) ==
    IF Len(a) < size \/ Len(b) < size THEN 0
    ELSE Unsigned(a, order) - Unsigned(b, order)
CompareValues(type, a, b, size, order) ==
    IF Len(a) < size \/ Len(b) < size THEN 0
    ELSE Value(type, a, order) - Value(type, b, order)

\* by: what is asked (filter), and the type, size, order and value it is about
Keep(by, cur, old) ==
    CASE by.filter = "exact"     -> cur = by.value
      [] by.filter = "changed"   -> cur # old
      [] by.filter = "unchanged" -> cur = old
      [] by.filter = "increased" -> CompareValues(by.type, cur, old, Len(old), by.order) > 0
      [] by.filter = "decreased" -> CompareValues(by.type, cur, old, Len(old), by.order) < 0

(***************************************************************************)
(* Reading                                                                 *)
(***************************************************************************)
\* the bytes up to the first that cannot be read; none is an error
ReadMemory(mem, at, n) ==
    LET readable == {k \in 0 .. n : \A i \in 1 .. k : /\ at + i \in 1 .. Len(mem)
                                                      /\ mem[at + i] # Gap}
    IN Cut(mem, at, Max(readable))

\* where the pattern is in a buffer; after a match the search goes on behind it
ScanBuffer(buf, pattern, step) ==
    LET hit(i) == Cut(buf, i, Len(pattern)) = pattern
        all    == Max({0, Len(buf) - Len(pattern) + 1})
        look[n \in 0 .. all] ==
            IF n = 0 THEN [next |-> 0, found |-> {}]
            ELSE LET s == look[n - 1]
                 IN IF n - 1 < s.next \/ ~hit(n - 1) THEN s
                    ELSE [next |-> n - 1 + step, found |-> s.found \cup {n - 1}]
    IN look[all].found

\* one region, chunk by chunk: the end of a buffer is kept in front of the next
Overlap_Short(buf, patLen) == IF Len(buf) >= patLen - 1 THEN Cut(buf, Len(buf) - patLen + 2, patLen - 2)
                              ELSE <<>>
Overlap(buf, patLen) == IF Len(buf) >= patLen - 1 THEN Cut(buf, Len(buf) - patLen + 1, patLen - 1)
                        ELSE <<>>
SearchMemory(mem, pattern, step) ==
    LET all == ChunkCount(Len(mem), ScanChunk)
        scan[n \in 0 .. all] ==
          IF n = 0 THEN [found |-> {}, overlap |-> <<>>]
          ELSE LET s    == scan[n - 1]
                   at   == (n - 1) * ScanChunk
                   data == ReadMemory(mem, at, Min({ScanChunk, Len(mem) - at}))
                   buf  == s.overlap \o data
               IN IF data = <<>> THEN [s EXCEPT !.overlap = <<>>]
                  ELSE [found   |-> s.found \cup {at - Len(s.overlap) + i : i \in ScanBuffer(buf, pattern, step)},
                        overlap |-> Overlap(buf, Len(pattern))]
    IN scan[all].found

(***************************************************************************)
(* Stores                                                                  *)
(***************************************************************************)
NewMatchStore == [mem |-> <<>>, disk |-> <<>>, onDisk |-> FALSE]

\* at the threshold all matches are written to a file and stay there
PromoteToDisk(store) == [mem |-> <<>>, disk |-> store.mem, onDisk |-> TRUE]
AddMatch(store, m) ==
    LET st == IF ~store.onDisk /\ Len(store.mem) >= MemThreshold THEN PromoteToDisk(store) ELSE store
    IN IF st.onDisk THEN [st EXCEPT !.disk = Append(@, m)] ELSE [st EXCEPT !.mem = Append(@, m)]
AddBulk(matches) ==
    LET store[n \in 0 .. Len(matches)] ==
            IF n = 0 THEN NewMatchStore ELSE AddMatch(store[n - 1], matches[n])
    IN store[Len(matches)]

Count(store) == Len(store.mem) + Len(store.disk)
GetBatch(store, start, n) ==
    LET size == Min({n, Count(store) - start})
    IN IF start >= Count(store) THEN <<>>
       ELSE Cut(IF store.onDisk THEN store.disk ELSE store.mem, start, size)
ForEachBatch(store) ==
    [k \in 1 .. ChunkCount(Count(store), IterBatch) |->
        GetBatch(store, (k - 1) * IterBatch, IterBatch)]

(***************************************************************************)
(* Filters                                                                 *)
(***************************************************************************)
\* matches close together are read at once, from the first of them, and a
\* match is kept only when the read reaches its last byte
FlushPending(mem, batch, by) ==
    LET size == by.size
        first[k \in 1 .. Len(batch)] ==
            IF k = 1 \/ batch[k].addr + size - batch[first[k - 1]].addr > BatchSize
            THEN k ELSE first[k - 1]
        last(k) == Max({j \in 1 .. Len(batch) : first[j] = first[k]})
        from(k) == batch[first[k]].addr
        read(k) == ReadMemory(mem, from(k), batch[last(k)].addr + size - from(k))
        now(k)  == Cut(read(k), batch[k].addr - from(k), size)
    IN {[addr |-> batch[k].addr, prev |-> now(k)] :
           k \in {k \in 1 .. Len(batch) : /\ batch[k].addr - from(k) + size <= Len(read(k))
                                         /\ Keep(by, now(k), batch[k].prev)}}

FilterMatches(mem, store, by) ==
    UNION {FlushPending(mem, batch, by) : batch \in {ForEachBatch(store)[k] : k \in DOMAIN ForEachBatch(store)}}

\* chunks that cannot be read are written as zeros
TakeSnapshot(mem) ==
    [k \in 1 .. ChunkCount(Len(mem), ScanChunk) |->
        LET at   == (k - 1) * ScanChunk
            want == Min({ScanChunk, Len(mem) - at})
            data == ReadMemory(mem, at, want)
        IN [addr |-> at, data |-> IF data = <<>> THEN [i \in 1 .. want |-> 0] ELSE data]]

\* the first piece that ends after the address, if it holds it
SnapshotReadAt(snap, at, n) ==
    LET later == {k \in DOMAIN snap : snap[k].addr + Len(snap[k].data) > at}
        piece == snap[Min(later)]
    IN IF later = {} \/ at < piece.addr THEN <<>>
       ELSE Cut(piece.data, at - piece.addr, Min({n, Len(piece.data) - (at - piece.addr)}))

\* piece k, chunk c: at every aligned offset both reads reach
ComparePart(mem, snap, k, c, by) ==
    LET size == by.size
        off  == c * CompareChunk
        want == Min({CompareChunk, Len(snap[k].data) - off})
        at   == snap[k].addr + off
        old  == SnapshotReadAt(snap, at, want)
        cur  == ReadMemory(mem, at, want)
    IN {[addr |-> at + i * size, prev |-> Cut(cur, i * size, size)] :
           i \in {i \in 0 .. want : /\ i * size + size <= Min({Len(old), Len(cur)})
                                    /\ Keep(by, Cut(cur, i * size, size), Cut(old, i * size, size))}}
FilterFromSnapshot(mem, snap, by) ==
    UNION {UNION {ComparePart(mem, snap, k, c, by) : c \in Chunks(Len(snap[k].data), CompareChunk)} : k \in DOMAIN snap}

\* diff: the words of four bytes that changed
CompareWithSnapshot(mem, snap, word) ==
    {d.addr : d \in FilterFromSnapshot(mem, snap, [filter |-> "changed", size |-> word])}

(***************************************************************************)
(* Struct search, pointer scan, pointer chains                             *)
(***************************************************************************)
\* fields: offset and bytes; the size is the end of the last field
StructSize(fields) == Max({fields[f].off + Len(fields[f].bytes) : f \in DOMAIN fields})

\* each chunk is read with the size of the struct in addition
StructSearch_NoExtra(mem, fields) ==
    LET size == StructSize(fields)
        buf(k) == ReadMemory(mem, k * ScanChunk, Min({ScanChunk, Len(mem) - k * ScanChunk}))
    IN UNION {{k * ScanChunk + i : i \in {i \in 0 .. Len(buf(k)) - size :
                  \A f \in DOMAIN fields : Cut(buf(k), i + fields[f].off, Len(fields[f].bytes)) = fields[f].bytes}}
              : k \in Chunks(Len(mem), ScanChunk)}
StructSearch(mem, fields) ==
    LET size == StructSize(fields)
        buf(k) == ReadMemory(mem, k * ScanChunk, Min({ScanChunk + size, Len(mem) - k * ScanChunk}))
    IN UNION {{k * ScanChunk + i : i \in {i \in 0 .. Len(buf(k)) - size :
                  \A f \in DOMAIN fields : Cut(buf(k), i + fields[f].off, Len(fields[f].bytes)) = fields[f].bytes}}
              : k \in Chunks(Len(mem), ScanChunk)}

\* aligned words of the chunk that point into the range, zero excepted
ScanForPointers(mem, low, high, size) ==
    UNION {LET buf == ReadMemory(mem, k * ScanChunk, Min({ScanChunk, Len(mem) - k * ScanChunk}))
               val(i) == Unsigned(Cut(buf, i * size, size), "little")
           IN {[source |-> k * ScanChunk + i * size, value |-> val(i)] :
                  i \in {i \in 0 .. Len(buf) : /\ i * size + size <= Len(buf)
                                               /\ val(i) \in low .. high /\ val(i) # 0}}
           : k \in Chunks(Len(mem), ScanChunk)}

\* addresses have a width: the upper bound of the range may wrap around
PointerScan_OtherSign(mem, target, maxOffset, size) ==
    LET low  == Max({target - maxOffset, 0})
        high == (target + maxOffset) % Power(size)
    IN {[base |-> hit.source, off |-> hit.value - target] : hit \in ScanForPointers(mem, low, high, size)}
PointerScan(mem, target, maxOffset, size) ==
    LET low  == Max({target - maxOffset, 0})
        high == (target + maxOffset) % Power(size)
    IN {[base |-> hit.source, off |-> target - hit.value] : hit \in ScanForPointers(mem, low, high, size)}

Broken == -1
DerefPtr(mem, at, size) ==
    LET data == ReadMemory(mem, at, size)
    IN IF Len(data) < size THEN Broken ELSE Unsigned(data, "little")

\* the base and all offsets but the last are dereferenced
ResolveChain(mem, base, offs, size) ==
    LET wrap(n) == n % Power(size)
        last    == Len(offs)
        p[n \in 1 .. last] == IF n = 1 THEN DerefPtr(mem, base, size)
                              ELSE IF p[n - 1] = Broken THEN Broken
                              ELSE DerefPtr(mem, wrap(p[n - 1] + offs[n - 1]), size)
    IN IF offs = <<>> THEN base ELSE IF p[last] = Broken THEN Broken ELSE wrap(p[last] + offs[last])

(***************************************************************************)
(* What the searches should find                                           *)
(***************************************************************************)
Occurrences(mem, pat) == {i \in 0 .. Len(mem) - Len(pat) : Cut(mem, i, Len(pat)) = pat}
Readable(mem)         == \A i \in DOMAIN mem : mem[i] # Gap

\* A scan that reads in pieces reports only places where the pattern is, and
\* leaves out only those that overlap one it reports.
ScanFinds(mem, pat, step) ==
    LET found == SearchMemory(mem, pat, step)
        occ   == Occurrences(mem, pat)
    IN found \subseteq occ /\ \A i \in occ : \E j \in found : i - j \in 0 .. step - 1

\* A search for a struct reports only places where all its fields are, and all
\* of them unless there are holes in the memory.
StructFinds(mem, fields) ==
    LET places == {i \in 0 .. Len(mem) - StructSize(fields) :
                     \A f \in DOMAIN fields : Cut(mem, i + fields[f].off, Len(fields[f].bytes)) = fields[f].bytes}
        found  == StructSearch(mem, fields)
    IN found \subseteq places /\ (Readable(mem) => found = places)

\* A filter over a list of matches, which is in the order of addresses, keeps
\* only matches that can be read and whose value now passes, with that value as
\* the next one to compare with, and all of them unless there are holes: none
\* is lost when the list moves to disk, between two batches or between two
\* reads.
Ascending(matches) == \A i, j \in DOMAIN matches : i < j => matches[i].addr <= matches[j].addr
Passing(mem, matches, by) ==
    LET now(k) == Cut(mem, matches[k].addr, by.size)
    IN {[addr |-> matches[k].addr, prev |-> now(k)] :
           k \in {k \in DOMAIN matches : /\ \A i \in 1 .. by.size : mem[matches[k].addr + i] # Gap
                                         /\ Keep(by, now(k), matches[k].prev)}}
ListFiltered(mem, matches, by) ==
    LET kept == FilterMatches(mem, AddBulk(matches), by)
    IN kept \subseteq Passing(mem, matches, by) /\ (Readable(mem) => kept = Passing(mem, matches, by))

\* A filter that starts from a snapshot does the same with every word of it,
\* and a diff against the snapshot names the words that are different.
Words(old, size) ==
    [i \in 1 .. Len(old) \div size |-> [addr |-> (i - 1) * size, prev |-> Cut(old, (i - 1) * size, size)]]
SnapshotFiltered(mem, old, by) ==
    LET kept == FilterFromSnapshot(mem, TakeSnapshot(old), by)
        all  == Passing(mem, Words(old, by.size), by)
    IN kept \subseteq all /\ (Readable(mem) => kept = all)
DiffNames(mem, old, word) ==
    LET diff  == CompareWithSnapshot(mem, TakeSnapshot(old), word)
        at(i) == Words(old, word)[i].addr
        other == {at(i) : i \in {i \in DOMAIN Words(old, word) : Cut(mem, at(i), word) # Cut(old, at(i), word)}}
    IN diff \subseteq other /\ (Readable(mem) => diff = other)

\* A number that fits its type is encoded and read back in either byte order,
\* one that does not is refused, and encoded numbers compare as the numbers do.
ValuesRight(in) ==
    LET enc(n)  == EncodeValue(in.type, n, in.size, in.order)
        half    == Power(in.size) \div 2
        fits(n) == n \in (IF in.type = "int" THEN -half .. half - 1 ELSE 0 .. 2 * half - 1)
        compare == CompareValues(in.type, enc(in.a), enc(in.b), in.size, in.order)
    IN /\ (enc(in.a) # <<>>) = fits(in.a)
       /\ fits(in.a) => Value(in.type, enc(in.a), in.order) = in.a
       /\ fits(in.a) /\ fits(in.b) => (compare > 0) = (in.a > in.b) /\ (compare < 0) = (in.a < in.b)

\* A chain that a pointer scan reports leads to the target when followed.
ChainsLead(mem, target, maxOffset, size) ==
    \A c \in PointerScan(mem, target, maxOffset, size) :
        ResolveChain(mem, c.base, <<c.off>>, size) = target
=============================================================================
