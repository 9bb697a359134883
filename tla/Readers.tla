------------------------------ MODULE Readers -------------------------------
(***************************************************************************)
(* Tools that show files and directories a page at a time: read and        *)
(* multiread, grep, glob, listdir and sloc, with the ignore rules they     *)
(* share.  Every one gives the caller a position to continue from; what    *)
(* matters is that the pages together show everything once.                *)
(*                                                                         *)
(* Paths, trees and the walk are those of Archives.  A line has a size in  *)
(* characters, a page a budget.  A pattern for names is the set of names   *)
(* that filepath.Match accepts.                                            *)
(***************************************************************************)
EXTENDS Archives

CONSTANTS FooterRoom,    \* characters kept for the footer of a page, which has as many
          SmallBudget,   \* with less than this beside the footer, no room is kept
          HardOutput,    \* HardOutputChars
          HardResults,   \* hardMaxResults of grep
          MaxTotalBytes, \* maxTotalBytes of multiread
          ScanRoom,      \* the longest line that bufio.Scanner takes
          HiddenNames,   \* names that begin with a dot
          IgnoredDirs,   \* defaultIgnoredDirs, of grep and glob
          ListSkips,     \* skipDirs of listdir
          SlocSkips      \* skipDirs of sloc

ASSUME ReadersAssumption ==
    {FooterRoom, SmallBudget, HardOutput, HardResults, MaxTotalBytes, ScanRoom} \subseteq Nat \ {0}

BodyBudget(max) == IF max - FooterRoom < SmallBudget THEN max ELSE max - FooterRoom

SumOf(sizes) == FoldLeft(LAMBDA sum, size : sum + size, 0, sizes)
\* AppendWithinRuneBudget, one after the other: how many fit, whole
Fitting(sizes, budget) ==
    Max({n \in 0 .. Len(sizes) : \A k \in 0 .. n : SumOf(SubSeq(sizes, 1, k)) <= budget})
\* TruncateRunes over body and footer, with a suffix as long as the footer:
\* how many records stay whole
StayWhole(sizes, max) ==
    IF SumOf(sizes) + FooterRoom <= max THEN Len(sizes)
    ELSE Fitting(sizes, IF FooterRoom >= max THEN max ELSE max - FooterRoom)

(***************************************************************************)
(* Lines of a text, given as a sequence of "nl", "cr" and "x"              *)
(***************************************************************************)
TextLineCount(text) ==
    Cardinality({i \in DOMAIN text : text[i] = "nl"}) + (IF text # <<>> /\ Last(text) # "nl" THEN 1 ELSE 0)
TrimCR(line) == IF line # <<>> /\ Last(line) = "cr" THEN Front(line) ELSE line
SplitAtNewlines(text) ==
    FoldLeft(LAMBDA out, c : IF c = "nl" THEN Append(out, <<>>) ELSE Append(Front(out), Append(Last(out), c)),
             << <<>> >>, text)
\* grep splits, drops the empty end of a final newline, and trims
GrepLines_KeepEnd(text) == LET parts == SplitAtNewlines(text) IN [i \in DOMAIN parts |-> TrimCR(parts[i])]
GrepLines(text) ==
    LET parts == SplitAtNewlines(text)
        lines == IF Last(parts) = <<>> THEN Front(parts) ELSE parts
    IN [i \in DOMAIN lines |-> TrimCR(lines[i])]

(***************************************************************************)
(* read                                                                    *)
(***************************************************************************)
\* an argument that was not given
NotGiven == -99

\* the forms of an offset: absent, a number, or a range in either order
ParseFlexOffset(v) ==
    CASE v.form = "none"  -> [offset |-> 0, limit |-> 0, ok |-> TRUE]
      [] v.form = "int"   -> [offset |-> v.a, limit |-> 0, ok |-> TRUE]
      [] v.form = "range" -> [offset |-> Min({v.a, v.b}), limit |-> Max({v.a, v.b}) - Min({v.a, v.b}) + 1, ok |-> TRUE]
      [] OTHER            -> [offset |-> 0, limit |-> 0, ok |-> FALSE]

StartIndex(total, offset) ==
    IF total = 0 THEN 0
    ELSE IF offset < 0 THEN Max({total + offset, 0})
    ELSE Min({Max({offset, 1}), total}) - 1
EndIndex(total, start, limit) == IF limit > 0 /\ start + limit < total THEN start + limit ELSE total

\* the lines first .. last that fit, and where to continue (0: nowhere)
ReadLines_SkipCut(sizes, offset, limit, budget) ==
    LET start == StartIndex(Len(sizes), offset)
        end   == EndIndex(Len(sizes), start, limit)
        n     == Fitting(SubSeq(sizes, start + 1, end), budget)
    IN [first |-> start + 1, last |-> start + n,
        next |-> IF start + n < end THEN start + n + 2 ELSE IF end < Len(sizes) THEN end + 1 ELSE 0]
PageWithin(sizes, start, end, budget) ==
    LET n == Fitting(SubSeq(sizes, start + 1, end), budget)
    IN [first |-> start + 1, last |-> start + n,
        next |-> IF start + n < end THEN start + n + 1 ELSE IF end < Len(sizes) THEN end + 1 ELSE 0]
ReadLines(sizes, offset, limit, budget) ==
    LET start == StartIndex(Len(sizes), offset)
    IN PageWithin(sizes, start, EndIndex(Len(sizes), start, limit), budget)

\* the whole answer is cut at max once more, footer and all: `whole' lines stay
ReadAnswer(sizes, page, max) ==
    [ok |-> TRUE, page |-> page, whole |-> page.first - 1 + StayWhole(SubSeq(sizes, page.first, page.last), max)]

\* Handle: start_line and end_line stand for an offset and a limit.
ReadHandle(sizes, offset, limit, all, startLine, endLine, defaultLimit, max) ==
    LET from   == IF startLine # NotGiven /\ offset.form = "none"
                  THEN [form |-> "int", a |-> startLine, b |-> 0] ELSE offset
        first  == IF startLine # NotGiven THEN startLine ELSE 1
        asked  == IF endLine # NotGiven /\ endLine >= first THEN endLine - first + 1 ELSE limit
        parsed == ParseFlexOffset(from)
        most   == IF asked # NotGiven THEN asked
                  ELSE IF parsed.limit > 0 THEN parsed.limit ELSE IF all THEN 0 ELSE defaultLimit
    IN IF ~parsed.ok \/ most < 0 THEN [ok |-> FALSE]
       ELSE ReadAnswer(sizes, ReadLines(sizes, parsed.offset, most, BodyBudget(max)), max)

(***************************************************************************)
(* multiread: a file is [kind, sizes, bytes]; separators, headers, errors  *)
(* and footers have size 1                                                 *)
(***************************************************************************)
\* a file's own offset and limit, else the call's, else the defaults
ResolveEntries(files, offset, limit, all, defaultLimit) ==
    [i \in DOMAIN files |->
        [file |-> files[i].file,
         offset |-> IF files[i].offset # NotGiven THEN files[i].offset ELSE IF offset # NotGiven THEN offset ELSE 0,
         limit |-> IF files[i].limit # NotGiven THEN files[i].limit ELSE IF limit # NotGiven THEN limit
                   ELSE IF all THEN 0 ELSE defaultLimit]]

\* used: characters so far; shown: <<entry, line>>; next: <<file index, offset>>, <<0, 0>> for nowhere
StopAt(state, i, offset) == [state EXCEPT !.stopped = TRUE, !.truncated = TRUE, !.next = <<i, offset>>]
\* the lines of an open file and its footer
MultiReadLines(opened, entry, i, page, budget) ==
    LET sizes == entry.file.sizes
        end   == EndIndex(Len(sizes), page.first - 1, entry.limit)
        shown == [opened EXCEPT !.used = @ + SumOf(SubSeq(sizes, page.first, page.last)), !.read = @ + 1,
                                !.shown = @ \o [k \in 1 .. page.last - page.first + 1 |-> <<i, page.first + k - 1>>]]
    IN IF page.last < end THEN StopAt(shown, i, page.last + 1)
       ELSE IF shown.used + 1 > budget THEN StopAt(shown, i, end + 1)
       ELSE [shown EXCEPT !.used = @ + 1, !.truncated = @ \/ end < Len(sizes)]
MultiReadEntry(state, entry, i, budget) ==
    LET f      == entry.file
        room(n) == state.used + n <= budget
        before == IF i > 1 THEN 1 ELSE 0
        failed(s) == [s EXCEPT !.errors = @ + 1, !.used = IF @ + 1 <= budget THEN @ + 1 ELSE @]
        stop(s, offset) == StopAt(s, i, offset)
        opened == [state EXCEPT !.used = @ + before + 1, !.bytes = @ + f.bytes]
    IN IF state.stopped THEN state
       ELSE IF ~room(before) THEN stop(state, 0)
       ELSE IF f.kind = "nopath" THEN failed([state EXCEPT !.used = @ + before])
       ELSE IF ~room(before + 1) THEN stop([state EXCEPT !.used = @ + before], 0)
       ELSE IF f.kind \in {"missing", "dir"} THEN failed([state EXCEPT !.used = @ + before + 1])
       ELSE IF opened.bytes > MaxTotalBytes THEN stop(failed(opened), 0)
       ELSE IF f.kind = "unreadable" THEN failed(opened)
       ELSE MultiReadLines(opened, entry, i, ReadLines(f.sizes, entry.offset, entry.limit, budget - opened.used), budget)

\* cut: the summary did not fit and the answer was cut once more
MultiReadAnswer(last, max) ==
    [ok |-> TRUE, shown |-> last.shown, next |-> last.next, read |-> last.read, errors |-> last.errors,
     truncated |-> last.truncated \/ last.used + FooterRoom > max, cut |-> last.used + FooterRoom > max]
\* refused: a negative limit
MultiRead(entries, max) ==
    IF entries = <<>> \/ \E i \in DOMAIN entries : entries[i].limit < 0 THEN [ok |-> FALSE]
    ELSE MultiReadAnswer(FoldLeft(LAMBDA state, i : MultiReadEntry(state, entries[i], i, BodyBudget(max)),
                                  [used |-> 0, bytes |-> 0, read |-> 0, errors |-> 0, shown |-> <<>>, next |-> <<0, 0>>,
                                   truncated |-> FALSE, stopped |-> FALSE],
                                  [i \in DOMAIN entries |-> i]), max)

(***************************************************************************)
(* Ignore rules.  A pattern is [parts, tail, deep, slash, dirOnly,         *)
(* negate]: parts are patterns for names; deep says where "**" stands.     *)
(***************************************************************************)
\* a pattern with a slash inside is anchored at the root of the search
LoadIgnoreFile(lines) ==
    [i \in DOMAIN lines |-> [anchored |-> lines[i].slash \/ Len(lines[i].parts) > 1 \/ lines[i].deep # "none"] @@ lines[i]]
\* .ignore comes last and so can override .gitignore
LoadRootIgnoreRules(gitignore, ignore) == LoadIgnoreFile(gitignore) \o LoadIgnoreFile(ignore)

PartsMatch(parts, names) == Len(parts) = Len(names) /\ \A i \in DOMAIN parts : names[i] \in parts[i]
SuffixesOf(path) == {SubSeq(path, i, Len(path)) : i \in DOMAIN path}

\* "**/rest" also accepts a name that ends with the letters of rest: the tail.
\* "dir/**" accepts the directory too; its parts are taken literally.
IgnoreGlobMatch(pattern, path) ==
    CASE pattern.deep = "none"  -> PartsMatch(pattern.parts, path)
      [] pattern.deep = "front" -> (\E s \in SuffixesOf(path) : PartsMatch(pattern.parts, s)) \/ Last(path) \in pattern.tail
      [] pattern.deep = "back"  -> /\ Len(path) >= Len(pattern.parts)
                                   /\ PartsMatch(pattern.parts, SubSeq(path, 1, Len(pattern.parts)))
MatchIgnoreGlob(pattern, path) ==
    IF pattern.anchored THEN IgnoreGlobMatch(pattern, path) ELSE \E s \in SuffixesOf(path) : IgnoreGlobMatch(pattern, s)
\* the last pattern that matches decides
RulesMatch_First(rules, path, isDir) ==
    LET hits == {i \in DOMAIN rules : (isDir \/ ~rules[i].dirOnly) /\ MatchIgnoreGlob(rules[i], path)}
    IN hits # {} /\ ~rules[Min(hits)].negate
RulesMatch(rules, path, isDir) ==
    LET hits == {i \in DOMAIN rules : (isDir \/ ~rules[i].dirOnly) /\ MatchIgnoreGlob(rules[i], path)}
    IN hits # {} /\ ~rules[Max(hits)].negate
RulesMatchPath(rules, path, isDir) ==
    (\E k \in 1 .. Len(path) - 1 : RulesMatch(rules, SubSeq(path, 1, k), TRUE)) \/ RulesMatch(rules, path, isDir)

RelTo(root, p) == SubSeq(p, Len(root) + 1, Len(p))

(***************************************************************************)
(* grep.  text[p] is the file's lines, each [hit, size], and whether it    *)
(* looks binary.  A path prefix has size 1.                                *)
(***************************************************************************)
\* the lines of a file to show, before and after a hit, with "--" (line 0) between
WithContext(lines, hits, before, after) ==
    LET near == {i \in DOMAIN lines : \E h \in hits : i \in h - before .. h + after}
    IN FoldLeft(LAMBDA out, i : out \o (IF out # <<>> /\ Last(out) # i - 1 THEN <<0, i>> ELSE <<i>>),
                <<>>, SetToSortSeq(near, <))

NoHits == [matches |-> <<>>, count |-> 0, chars |-> 0, cut |-> FALSE, more |-> FALSE]

\* o: [mode, before, after, path (1 in a directory), room]
NoContext(o) == o.before = 0 /\ o.after = 0
\* of the lines `all', those that fit; of the total hits of the file they have `used'
ShowLines(p, lines, all, used, total, o) ==
    LET sizes == [k \in DOMAIN all |-> IF all[k] = 0 THEN 1 ELSE lines[all[k]].size + o.path]
        n     == Fitting(sizes, o.room)
        atSep == n < Len(all) /\ all[n + 1] = 0
    IN [matches |-> [k \in 1 .. n |-> <<p, all[k]>>], chars |-> SumOf(SubSeq(sizes, 1, n)),
        count |-> IF NoContext(o) THEN n ELSE used, cut |-> n < Len(all),
        more |-> used < total \/ (n < Len(all) /\ ~atSep)]
\* to tell whether a file matches, its lines are scanned up to the first that
\* is too long; whether the scan got to the end is not asked
Scanned(lines) ==
    LET long == {i \in DOMAIN lines : lines[i].size > ScanRoom}
    IN IF long = {} THEN DOMAIN lines ELSE 1 .. Min(long) - 1
SearchFile(p, lines, limit, o) ==
    LET hits  == {i \in IF o.mode = "files_with_matches" THEN Scanned(lines) ELSE DOMAIN lines : lines[i].hit}
        used  == Min({limit, Cardinality(hits)})
        first == {h \in hits : Cardinality({g \in hits : g <= h}) <= used}
        all   == IF NoContext(o) THEN SetToSortSeq(first, <) ELSE WithContext(lines, first, o.before, o.after)
    IN IF hits = {} THEN NoHits
       ELSE IF o.mode # "content"
            THEN IF 1 > o.room THEN [NoHits EXCEPT !.count = 1, !.cut = TRUE, !.more = TRUE]
                 ELSE [NoHits EXCEPT !.matches = << <<p, IF o.mode = "count" THEN Cardinality(hits) ELSE 0>> >>,
                                     !.count = 1, !.chars = 1]
       ELSE ShowLines(p, lines, all, used, Cardinality(hits), o)

\* a directory search after the results r of one more file
Joined(st, r) ==
    [matches |-> st.matches \o r.matches, count |-> st.count + r.count, chars |-> st.chars + r.chars,
     cut |-> r.cut, more |-> r.cut \/ r.more, over |-> r.cut \/ r.more]

\* Only what is below the root can be ignored or hidden.  When the results are
\* full the walk goes on until one more hit shows that there is more.
SearchDir(tree, root, text, rules, q, limit, o) ==
    LET skipped == {p \in DOMAIN tree \ {root} :
                       /\ tree[p] = "dir"
                       /\ \/ ~q.hidden /\ Last(p) \in HiddenNames
                          \/ ~q.ignored /\ (Last(p) \in IgnoredDirs \/ RulesMatch(rules, RelTo(root, p), TRUE))
                          \/ ~q.recursive}
        files == SelectSeq(Walk(tree, root, skipped),
                           LAMBDA p : /\ tree[p] # "dir"
                                      /\ q.ignored \/ ~RulesMatch(rules, RelTo(root, p), FALSE)
                                      /\ Last(p) \in q.glob /\ text[p].kind = "text")
        lines(p) == text[p].lines
        visit(st, p) ==
          LET probe == SearchFile(p, lines(p), 1, [o EXCEPT !.before = 0, !.after = 0, !.room = HardOutput])
          IN IF st.over THEN st
             ELSE IF st.count >= limit
                  THEN IF probe.count > 0 THEN [st EXCEPT !.more = TRUE, !.over = TRUE] ELSE [st EXCEPT !.more = FALSE]
             ELSE IF o.room <= st.chars THEN [st EXCEPT !.cut = TRUE, !.more = TRUE, !.over = TRUE]
             ELSE Joined(st, SearchFile(p, lines(p), limit - st.count, [o EXCEPT !.room = @ - st.chars]))
    IN FoldLeft(visit, [over |-> FALSE] @@ NoHits, files)

\* the page from an offset in what was found
GrepPage(found, text, q, path, compact, context, offset) ==
    LET rest    == SubSeq(found.matches, offset + 1, Len(found.matches))
        page    == SubSeq(rest, 1, Min({q.maxResults, Len(rest)}))
        \* compact: the path once, above the lines of its file
        header(k) == IF ~compact THEN path ELSE IF k = 1 \/ page[k - 1][1] # page[k][1] THEN 1 ELSE 0
        size(k) == IF q.mode # "content" \/ page[k][2] = 0 THEN 1 ELSE text[page[k][1]].lines[page[k][2]].size + header(k)
        n       == Fitting([k \in DOMAIN page |-> size(k)], BodyBudget(q.max))
        more    == found.more \/ Len(rest) > q.maxResults
        cut     == found.cut \/ n < Len(page)
    IN [ok |-> TRUE, shown |-> SubSeq(page, 1, n), more |-> more, cut |-> cut,
        next |-> IF (more \/ cut) /\ ~context THEN offset + n ELSE NotGiven]

\* Handle: a page from the offset in the cursor (NotGiven: none).  Collection
\* begins at the first result every time; only the compact form of a directory
\* search collects beyond the budget of the page.
GrepHandle(tree, root, text, rules, q, cursor) ==
    LET isDir   == tree[root] = "dir"
        compact == q.compact /\ isDir /\ q.mode = "content"
        context == q.before > 0 \/ q.after > 0
        offset  == IF cursor = NotGiven THEN 0 ELSE cursor
        limit   == q.maxResults + offset
        o       == [mode |-> q.mode, before |-> q.before, after |-> q.after, path |-> IF isDir THEN 1 ELSE 0,
                    room |-> IF compact THEN HardOutput ELSE q.max]
        found   == IF isDir THEN SearchDir(tree, root, text, rules, q, limit, o)
                   ELSE SearchFile(root, text[root].lines, limit, o)
    IN IF limit > HardResults \/ (cursor # NotGiven /\ context) THEN [ok |-> FALSE]
       ELSE GrepPage(found, text, q, o.path, compact, context, offset)

(***************************************************************************)
(* glob.  A pattern is [prefix, deep, suffix, parts]: prefix/**/suffix     *)
(* when deep, else prefix/parts, where the prefix has no wildcard.         *)
(***************************************************************************)
FindMatches(tree, base, pattern, rules, hidden, ignored) ==
    LET plain(name) == (hidden \/ name \notin HiddenNames) /\ (ignored \/ name \notin IgnoredDirs)
        \* a prefix that does not exist is dropped
        start == IF base \o pattern.prefix \in DOMAIN tree THEN base \o pattern.prefix ELSE base
        skipped == {p \in DOMAIN tree :
                       /\ tree[p] = "dir"
                       /\ \/ p # start /\ ~plain(Last(p))
                          \/ p # base /\ ~ignored /\ RulesMatch(rules, RelTo(base, p), TRUE)}
        deep == {p \in ToSet(Walk(tree, start, skipped)) :
                    /\ tree[p] # "dir" /\ Last(p) \in pattern.suffix
                    /\ ignored \/ ~RulesMatch(rules, RelTo(base, p), FALSE)}
        parts == [i \in DOMAIN pattern.prefix |-> {pattern.prefix[i]}] \o pattern.parts
        explicit == IF pattern.parts = <<>> THEN Len(parts) - 1 ELSE Len(pattern.prefix)
        flat == {p \in DOMAIN tree :
                    /\ Within(p, base) /\ PartsMatch(parts, RelTo(base, p))
                    /\ \A i \in explicit + 1 .. Len(parts) :
                          i < Len(parts) \/ tree[p] = "dir" => plain(RelTo(base, p)[i])
                    /\ ignored \/ ~RulesMatchPath(rules, RelTo(base, p), tree[p] = "dir")}
    IN IF pattern.deep THEN deep ELSE flat

\* the newest first; the cursor is a position in that order
GlobHandle(found, mtime, size, cursor, limit, max) ==
    LET order  == SetToSortSeq(found, LAMBDA p, q : mtime[p] > mtime[q] \/ (mtime[p] = mtime[q] /\ Before(p, q)))
        offset == IF cursor = NotGiven THEN 0 ELSE cursor
        page   == SubSeq(order, offset + 1, Min({offset + limit, Len(order)}))
        n      == Fitting([k \in DOMAIN page |-> size], BodyBudget(max))
    IN IF offset > Len(order) THEN [ok |-> FALSE]
       ELSE [ok |-> TRUE, shown |-> SubSeq(page, 1, n), next |-> IF offset + n < Len(order) THEN offset + n ELSE NotGiven]

(***************************************************************************)
(* listdir.  q is [depth, dirs, files, names]; the cursor is the last path *)
(* listed.  An entry has size 1.                                           *)
(***************************************************************************)
ListWalk(tree, root, q) ==
    LET skipped == {p \in DOMAIN tree \ {root} : \/ Last(p) \in HiddenNames \cup ListSkips
                                                \/ Len(p) - Len(root) >= q.depth}
    IN SelectSeq(Walk(tree, root, skipped),
                 LAMBDA p : /\ p # root /\ Last(p) \notin HiddenNames /\ Last(p) \in q.names
                            /\ tree[p] \in (IF q.files THEN {} ELSE {"dir"}) \cup (IF q.dirs THEN {} ELSE {"file", "locked"}))

\* The answer ends with a footer that holds the cursor.  When it is longer than
\* the cap on all answers (hard), entries at the end go, and the footer: more is
\* what the caller reads there.
ListAnswer(rest, max, hard) ==
    LET page == SubSeq(rest, 1, Min({max, Len(rest)}))
        kept == StayWhole([i \in DOMAIN page |-> 1], hard)
    IN [ok |-> TRUE, shown |-> SubSeq(page, 1, kept), cut |-> Len(page) + FooterRoom > hard,
        more |-> Len(rest) > max /\ Len(page) + FooterRoom <= hard]
ListDir_ByPosition(tree, root, q, cursor, max, hard) ==
    LET all  == ListWalk(tree, root, q)
        from == IF cursor = <<>> THEN 0 ELSE Len(SelectSeq(all, LAMBDA p : Before(p, cursor))) + 1
    IN ListAnswer(SubSeq(all, from + 1, Len(all)), max, hard)
ListDir(tree, root, q, cursor, max, hard) ==
    LET all  == ListWalk(tree, root, q)
        from == IF cursor = <<>> THEN 0 ELSE Max({0} \cup {i \in DOMAIN all : all[i] = cursor})
    IN IF cursor # <<>> /\ cursor \notin ToSet(all) THEN [ok |-> FALSE]
       ELSE ListAnswer(SubSeq(all, from + 1, Len(all)), max, hard)
\* counts_only goes through everything
ListCounts(tree, root, q) ==
    LET all == ToSet(ListWalk(tree, root, q))
    IN [dirs |-> Cardinality({p \in all : tree[p] = "dir"}), files |-> Cardinality({p \in all : tree[p] # "dir"})]

(***************************************************************************)
(* sloc.  lang gives the language of a name, "" if it is not known; an     *)
(* empty line has size 0; unreadable files are passed over.                *)
(***************************************************************************)
SlocWalk(tree, root, text, lang, glob, maxDepth) ==
    LET skipped == {p \in DOMAIN tree : /\ tree[p] = "dir"
                                        /\ \/ Last(p) \in SlocSkips
                                           \/ maxDepth > 0 /\ Len(p) - Len(root) >= maxDepth}
    IN SelectSeq(Walk(tree, root, skipped),
                 LAMBDA p : tree[p] # "dir" /\ Last(p) \in glob /\ lang[Last(p)] # "" /\ text[p].kind # "unreadable")
Sloc(tree, root, text, lang, glob, maxDepth) ==
    LET files == ToSet(SlocWalk(tree, root, text, lang, glob, maxDepth))
        sum(S, n(_)) == FoldSet(LAMBDA p, total : total + n(p), 0, S)
        total(p) == Len(text[p].lines)
        blank(p) == Len(SelectSeq(text[p].lines, LAMBDA l : l.size = 0))
        stat(S)  == [files |-> Cardinality(S), lines |-> sum(S, total), blank |-> sum(S, blank)]
    IN IF files = {} THEN [ok |-> FALSE]
       ELSE [ok |-> TRUE, total |-> stat(files),
             langs |-> [l \in {lang[Last(p)] : p \in files} |-> stat({p \in files : lang[Last(p)] = l})]]
=============================================================================
