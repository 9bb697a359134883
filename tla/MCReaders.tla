------------------------------ MODULE MCReaders -----------------------------
(***************************************************************************)
(* Small texts, trees and queries for Readers.  Pages are followed until   *)
(* there is no next one, or until Fuel pages were asked for.               *)
(***************************************************************************)
EXTENDS Readers

Fuel == 8
TextRuns(n) == UNION {[1 .. k -> {"nl", "cr", "x"}] : k \in 0 .. n}
LineSizes(n) == UNION {[1 .. k -> {1, 2}] : k \in 0 .. n}
TextInputs == TextRuns(5)
ReadInputs == [sizes : LineSizes(4), offset : {NotGiven, -6, -2, 0, 3, 9}, limit : {NotGiven, 0, 1, 2}, max : {5, 6, 8}]
RangeInputs == [sizes : LineSizes(4), a : 1 .. 4, b : 1 .. 4]

TextFile(kind, sizes) == [kind |-> kind, sizes |-> sizes, bytes |-> Len(sizes)]
TooBig == [TextFile("file", <<1>>) EXCEPT !.bytes = MaxTotalBytes + 1]
MultiFiles == {TextFile("file", s) : s \in {<<>>, <<1>>, <<1, 2>>, <<2, 1, 1>>}} \cup {TooBig}
              \cup {TextFile(k, <<>>) : k \in {"nopath", "missing", "unreadable"}}
MultiInputs == [files : UNION {[1 .. n -> MultiFiles] : n \in 1 .. 3}, max : {8, 9, 12, 20}]

\* names: 1 and 2 plain, 7 hidden, 8 generated, 9 generated but for listdir
AnyOf == {1, 2, 7, 8, 9}
Spots == {<<1>>, <<1, 1>>, <<1, 2>>, <<1, 7>>, <<1, 8>>, <<1, 9>>, <<1, 1, 1>>, <<1, 1, 2>>, <<1, 7, 1>>, <<1, 8, 1>>, <<1, 9, 1>>}
Shapes == {S \in SUBSET Spots :
               /\ <<1>> \in S
               /\ \A p \in S : Len(p) > 1 => Parent(p) \in S
               /\ \A n \in {8, 9} : <<1, n>> \in S => <<1, n, 1>> \in S
               /\ ~{<<1, 8>>, <<1, 9>>} \subseteq S}
\* A path with others below is a directory; <<1, 1>> may be an empty one.
HasBelow(S, p) == \E c \in S : Len(c) > 1 /\ Parent(c) = p
Sprouts == {[p \in S |-> IF p = <<1>> \/ HasBelow(S, p) \/ (empty /\ p = <<1, 1>>) THEN "dir" ELSE "file"] :
               S \in Shapes, empty \in BOOLEAN}
Base1 == <<1>>
FilesOf(tree) == {p \in DOMAIN tree : tree[p] = "file"}

Rule(parts, deep, tail, slash, dirOnly, negate) ==
    [parts |-> parts, deep |-> deep, tail |-> tail, slash |-> slash, dirOnly |-> dirOnly, negate |-> negate]
KeepTwo == Rule(<<{2}>>, "none", {}, FALSE, FALSE, TRUE)
IgnoreLines == {KeepTwo, Rule(<<{1}>>, "none", {}, FALSE, FALSE, FALSE),
                Rule(<<{1, 2}>>, "none", {}, TRUE, TRUE, FALSE), Rule(<<{1}, {1}>>, "none", {}, FALSE, FALSE, FALSE),
                Rule(<<{2}>>, "front", {2}, FALSE, FALSE, FALSE), Rule(<<{1}>>, "back", {}, FALSE, FALSE, FALSE),
                Rule(<<{1, 2}>>, "none", {}, FALSE, FALSE, FALSE)}
IgnoreTrees == {t \in Sprouts : {<<1, 1>>, <<1, 2>>} \cap DOMAIN t # {} /\ Cardinality(DOMAIN t) > 3}
IgnoreInputs == [tree : IgnoreTrees, git : {<<l>> : l \in IgnoreLines} \cup {<<>>}, own : {<<l>> : l \in IgnoreLines} \cup {<<>>}]

HitLine(size) == [hit |-> TRUE, size |-> size]
MissLine == [hit |-> FALSE, size |-> 1]
LongMiss == [hit |-> FALSE, size |-> ScanRoom + 1]
FileTexts == {<<>>, <<HitLine(1)>>, <<HitLine(2), MissLine>>, <<MissLine, HitLine(1), MissLine, MissLine, HitLine(1)>>,
              <<HitLine(1), HitLine(2), HitLine(1)>>, <<LongMiss, HitLine(1)>>}
GrepTree == <<1>> :> "dir" @@ <<1, 1>> :> "file" @@ <<1, 2>> :> "dir" @@ <<1, 2, 1>> :> "file" @@ <<1, 2, 2>> :> "file"
GrepInputs == [a : FileTexts, b : FileTexts, c : FileTexts, mode : {"content", "files_with_matches", "count"},
               compact : BOOLEAN, maxResults : {2, 9}, max : {7, 12, 40}]
ContextInputs == [lines : UNION {[1 .. n -> {HitLine(1), MissLine}] : n \in 1 .. 5}, before : 0 .. 2, after : 0 .. 1,
                  max : {7, 12, 40}, maxResults : {1, 9}]
ListTrees == {t \in Sprouts : {<<1, 8>>, <<1, 9>>, <<1, 7, 1>>} \cap DOMAIN t = {}}
\* hard: the cap on answers, which an answer of two entries may not reach; from
\* one page to the next at most two paths come or go
ListInputs == {x \in [one : ListTrees, two : ListTrees, depth : {1, 3}, max : {1, 2}, dirs : BOOLEAN, hard : {4, 40}] :
                  Cardinality(DOMAIN x.one \ DOMAIN x.two) + Cardinality(DOMAIN x.two \ DOMAIN x.one) <= 2}

\* Every tool numbers the lines of a text alike: grep has a line for each that
\* read and multiread count, whatever the text ends with.
LinesAgree(in) == Len(GrepLines(in)) = TextLineCount(in)

ReadFrom(sizes, offset, limit, max) ==
    LET off == IF offset = NotGiven THEN [form |-> "none", a |-> 0, b |-> 0] ELSE [form |-> "int", a |-> offset, b |-> 0]
    IN ReadHandle(sizes, off, limit, FALSE, NotGiven, NotGiven, 3, max)
\* r is the page before
RECURSIVE ReadOn(_, _, _, _, _)
ReadOn(sizes, r, limit, max, fuel) ==
    LET got == [k \in 1 .. r.whole - r.page.first + 1 |-> r.page.first + k - 1]
    IN IF r.page.next = 0 \/ fuel = 0 THEN got
       ELSE got \o ReadOn(sizes, ReadFrom(sizes, r.page.next, limit, max), limit, max, fuel - 1)

\* Following next_offset shows the rest of the file, each line once, when a
\* page has room for its footer and for its longest line.
ReadRight(in) ==
    LET start == StartIndex(Len(in.sizes), IF in.offset = NotGiven THEN 0 ELSE in.offset)
    IN in.max >= FooterRoom + SmallBudget =>
          ReadOn(in.sizes, ReadFrom(in.sizes, in.offset, in.limit, in.max), in.limit, in.max, Fuel)
            = [k \in 1 .. Len(in.sizes) - start |-> start + k]

\* A range reads the same lines in either order, as an offset or as
\* start_line and end_line.
RangeRight(in) ==
    LET off(a, b) == [form |-> "range", a |-> a, b |-> b]
        none      == [form |-> "none", a |-> 0, b |-> 0]
        lo == Min({in.a, in.b})
        hi == Max({in.a, in.b})
        byRange == ReadHandle(in.sizes, off(in.a, in.b), NotGiven, FALSE, NotGiven, NotGiven, 3, 40)
        byLines == ReadHandle(in.sizes, none, NotGiven, FALSE, lo, hi, 3, 40)
    IN /\ byRange = byLines
       /\ hi <= Len(in.sizes) => byRange.page.first = lo /\ byRange.page.last = hi

MultiReadFrom(files, first, offset, max) ==
    LET rest == SubSeq(files, first, Len(files))
    IN MultiRead(ResolveEntries([i \in DOMAIN rest |-> [file |-> rest[i], limit |-> 0,
                                     offset |-> IF i = 1 THEN offset ELSE NotGiven]], NotGiven, NotGiven, FALSE, 2), max)
\* r is the answer from file number first on
RECURSIVE MultiOn(_, _, _, _, _)
MultiOn(files, first, r, max, fuel) ==
    LET got  == [k \in DOMAIN r.shown |-> <<first + r.shown[k][1] - 1, r.shown[k][2]>>]
        next == first + r.next[1] - 1
    IN IF r.next[1] = 0 \/ fuel = 0 THEN got
       ELSE got \o MultiOn(files, next, MultiReadFrom(files, next, r.next[2], max), max, fuel - 1)

\* Following next_file_index and next_offset shows every line of every file
\* that can be read, in order; at most the last line of a file comes twice
\* (its footer did not fit).  A file that alone is over the limit of a call
\* ends this: every call from there on fails and points to that file again.
ShowsAll(files, got) ==
    LET big  == {i \in DOMAIN files : files[i].bytes > MaxTotalBytes}
        seen == 1 .. (IF big = {} THEN Len(files) ELSE Min(big) - 1)
    IN /\ ToSet(got) = UNION {{<<i, k>> : k \in DOMAIN files[i].sizes} : i \in {i \in seen : files[i].kind = "file"}}
       /\ \A j \in 1 .. Len(got) - 1 :
            \/ got[j + 1][1] > got[j][1]
            \/ got[j + 1] = <<got[j][1], got[j][2] + 1>>
            \/ got[j + 1] = got[j] /\ got[j][2] = Len(files[got[j][1]].sizes)
       /\ \A i \in big : LET r == MultiReadFrom(files, i, NotGiven, 20) IN r.errors = 1 /\ r.next = <<1, 0>>
MultiReadRight(in) ==
    ShowsAll(in.files, MultiOn(in.files, 1, MultiReadFrom(in.files, 1, NotGiven, in.max), in.max, Fuel))

EveryFile == [prefix |-> <<>>, deep |-> TRUE, suffix |-> AnyOf, parts |-> <<>>]
FlatAt(dir, n) == [prefix |-> dir, deep |-> FALSE, suffix |-> {}, parts |-> [i \in 1 .. n |-> AnyOf]]
Asks == [mode |-> "files_with_matches", compact |-> TRUE, before |-> 0, after |-> 0, hidden |-> FALSE, ignored |-> FALSE,
         glob |-> AnyOf, recursive |-> TRUE, maxResults |-> 9, max |-> 40]
OneHit(tree) == [p \in DOMAIN tree |-> [kind |-> "text", lines |-> <<HitLine(1)>>]]

GlobFrom(found, limit, cursor) == GlobHandle(found, [p \in found |-> Last(p)], 2, cursor, limit, 7)
RECURSIVE GlobOn(_, _, _, _)
GlobOn(found, limit, r, fuel) ==
    IF r.next = NotGiven \/ fuel = 0 THEN r.shown ELSE r.shown \o GlobOn(found, limit, GlobFrom(found, limit, r.next), fuel - 1)
OncePaged(found, pages) == ToSet(pages) = found /\ Len(pages) = Cardinality(found)

\* grep and glob pass over the same files: what is below an ignored, hidden or
\* generated directory, and what a rule ignores, the last one that matches
\* deciding.  A pattern without "**" finds no file that "**" does not, and
\* where nothing is hidden or ignored, sloc and listdir see the files that their
\* own lists of directories leave.
\* The pages of glob show each match once.
FoundAlike(in, rules, glob) ==
    LET grep  == {m[1] : m \in ToSet(GrepHandle(in.tree, Base1, OneHit(in.tree), rules, Asks, NotGiven).shown)}
        kept(p) == LET rel == RelTo(Base1, p) IN
                   /\ \A i \in 1 .. Len(rel) - 1 : rel[i] \notin HiddenNames \cup IgnoredDirs
                   /\ ~RulesMatchPath(rules, rel, FALSE)
        outside(dirs) == {p \in FilesOf(in.tree) : \A i \in 1 .. Len(p) - 1 : p[i] \notin dirs}
        flat  == UNION {FindMatches(in.tree, Base1, FlatAt(<<>>, n), rules, FALSE, FALSE) : n \in 1 .. 2}
        all   == [depth |-> 9, dirs |-> FALSE, files |-> TRUE, names |-> AnyOf]
        sloc  == SlocWalk(in.tree, Base1, OneHit(in.tree), [n \in AnyOf |-> "Go"], AnyOf, 0)
    IN /\ glob = {p \in FilesOf(in.tree) : kept(p)}
       /\ grep = glob
       /\ \A limit \in {1, 9} : OncePaged(glob, GlobOn(glob, limit, GlobFrom(glob, limit, NotGiven), Fuel))
       /\ flat \cap FilesOf(in.tree) = glob
       /\ in.own = <<KeepTwo>> => (<<1, 2>> \in FilesOf(in.tree) => <<1, 2>> \in glob)
       /\ rules = <<>> /\ (\A p \in DOMAIN in.tree : Last(p) # 7) =>
             ToSet(sloc) = outside(SlocSkips) /\ ToSet(ListWalk(in.tree, Base1, all)) = outside(ListSkips)
AsIgnored(in, rules) == FoundAlike(in, rules, FindMatches(in.tree, Base1, EveryFile, rules, FALSE, FALSE))
IgnoreRight(in) == AsIgnored(in, LoadRootIgnoreRules(in.git, in.own))

GrepFrom(text, root, q, cursor) == GrepHandle(GrepTree, root, text, <<>>, q, cursor)
\* r is the page before
RECURSIVE GrepOn(_, _, _, _)
GrepOn(text, q, r, fuel) ==
    IF ~r.ok \/ r.next = NotGiven \/ fuel = 0 THEN r.shown
    ELSE r.shown \o GrepOn(text, q, GrepFrom(text, Base1, q, r.next), fuel - 1)

GrepText(in) == [p \in {<<1, 1>>, <<1, 2, 1>>, <<1, 2, 2>>} |->
                    [kind |-> "text", lines |-> IF p = <<1, 1>> THEN in.a ELSE IF p = <<1, 2, 1>> THEN in.b ELSE in.c]]
\* All there is to find, in order; a file counts as matching only by a line
\* before the first that is too long to be scanned.
AllHits(text, mode) ==
    LET scanned(p, i) == \A j \in 1 .. i : text[p].lines[j].size <= ScanRoom
        hits(p) == {i \in DOMAIN text[p].lines : text[p].lines[i].hit /\ (mode = "files_with_matches" => scanned(p, i))}
        of(p) == IF hits(p) = {} THEN <<>>
                 ELSE IF mode = "content" THEN LET s == SetToSortSeq(hits(p), <) IN [k \in DOMAIN s |-> <<p, s[k]>>]
                 ELSE << <<p, IF mode = "count" THEN Cardinality(hits(p)) ELSE 0>> >>
    IN of(<<1, 1>>) \o of(<<1, 2, 1>>) \o of(<<1, 2, 2>>)

\* Pages of grep, following the cursor, are together a prefix of all there is
\* to find, nothing twice; they are all of it when the collection budget holds
\* it; and a page without a cursor leaves nothing unsaid.  sloc counts the lines
\* of the same files, each under one language.
PagesRight(in, all, first, got) ==
    /\ IsPrefix(got, all)
    /\ (in.compact /\ in.mode = "content") \/ in.max = 40 => got = all
    /\ (first.next = NotGiven) = (first.shown = all)
    /\ first.more => Len(all) > Len(first.shown)
CountsRight(in, s) ==
    /\ s.total.files = 3 /\ s.total.lines = Len(in.a) + Len(in.b) + Len(in.c)
    /\ s.langs["Go"].files = 2 /\ s.langs["C"].lines = Len(in.c)
    /\ s.langs["Go"].lines + s.langs["C"].lines = s.total.lines
GrepPages(in, text, q, first) == PagesRight(in, AllHits(text, in.mode), first, GrepOn(text, q, first, Fuel))
GrepRight(in) ==
    LET text  == GrepText(in)
        q     == [Asks EXCEPT !.mode = in.mode, !.compact = in.compact, !.maxResults = in.maxResults, !.max = in.max]
    IN /\ GrepPages(in, text, q, GrepFrom(text, Base1, q, NotGiven))
       /\ CountsRight(in, Sloc(GrepTree, Base1, text, [n \in {1, 2} |-> <<"Go", "C">>[n]], {1, 2}, 0))

\* With context lines: the first hits, each with its neighbours, nothing else,
\* no line twice, "--" exactly where lines were left out; and a search that was
\* cut or has more says so.
InContext(in, r) ==
    LET got  == [k \in DOMAIN r.shown |-> r.shown[k][2]]
        lines == SelectSeq(got, LAMBDA i : i # 0)
        hits == {i \in DOMAIN in.lines : in.lines[i].hit}
        near(S) == {i \in DOMAIN in.lines : \E h \in S : h - i \in -in.after .. in.before}
    IN /\ ToSet(lines) \subseteq near(hits)
       /\ \A j \in 1 .. Len(lines) - 1 : lines[j] < lines[j + 1]
       /\ in.before + in.after > 0 =>
             \A j \in 2 .. Len(got) : got[j] # 0 => (got[j - 1] = 0) = (got[j] # got[j - 1] + 1)
       /\ ~(r.cut \/ r.more) => ToSet(lines) = near(hits)
ContextRight(in) ==
    LET text == [p \in {<<1, 1>>} |-> [kind |-> "text", lines |-> in.lines]]
        q    == [Asks EXCEPT !.mode = "content", !.before = in.before, !.after = in.after, !.max = in.max, !.maxResults = in.maxResults]
    IN InContext(in, GrepFrom(text, <<1, 1>>, q, NotGiven))

\* r is a page, got what the pages before show; the rest is listed in `tree'
RECURSIVE ListOn(_, _, _, _, _)
ListOn(tree, in, q, got, r) ==
    IF ~r.ok \/ ~r.more \/ Len(got) > 2 * Fuel
    THEN [ok |-> r.ok, cut |-> r.ok /\ r.cut, got |-> got \o (IF r.ok THEN r.shown ELSE <<>>)]
    ELSE ListOn(tree, in, q, got \o r.shown, ListDir(tree, Base1, q, Last(r.shown), in.max, in.hard))

\* When the directory changes after the first page, the pages list whatever
\* was there all the time exactly once, or a stale cursor is refused; without a
\* change they list everything, as many as counts_only counts.  When the cap on
\* answers cuts one, cursor and all, it says so, and what is listed is the
\* beginning.
ListedOnce(in, q, first, pages) ==
    LET one   == ListWalk(in.one, Base1, q)
        there == ToSet(one) \cap ToSet(ListWalk(in.two, Base1, q))
        times(p) == Cardinality({i \in DOMAIN pages.got : pages.got[i] = p})
        n     == ListCounts(in.one, Base1, q)
    IN /\ \A p \in there : times(p) <= 1
       /\ pages.ok /\ ~pages.cut => \A p \in there : first.more => times(p) = 1
       /\ in.one = in.two => /\ pages.ok /\ IsPrefix(pages.got, one)
                             /\ ~pages.cut => Len(pages.got) = n.dirs + n.files /\ Len(one) = Len(pages.got)
       /\ pages.cut => in.hard < Min({in.max, Len(one) + Len(ListWalk(in.two, Base1, q))}) + FooterRoom
ListRight(in) ==
    LET q     == [depth |-> in.depth, dirs |-> in.dirs, files |-> FALSE, names |-> AnyOf]
        first == ListDir(in.one, Base1, q, <<>>, in.max, in.hard)
    IN ListedOnce(in, q, first, ListOn(in.two, in, q, <<>>, first))
=============================================================================
