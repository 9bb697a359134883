------------------------------ MODULE MCToolHost ----------------------------
(***************************************************************************)
(* Small outputs, calls, tool boxes and processes for ToolHost, and what   *)
(* the caller should see.                                                  *)
(***************************************************************************)
EXTENDS ToolHost

SeqsUpTo(S, n) == UNION {[1 .. k -> S] : k \in 0 .. n}
OutputLines == {<<"git", "w", 1>>, <<"git", "w", 2>>, <<"git", "v", 1>>, <<"diag", "e", 0>>, <<"data", "e", 0>>}
ArgValue(kind, reads, size) == [kind |-> kind, reads |-> reads, size |-> size]
ArgValues == {ArgValue("string", {}, "small"), ArgValue("string", {"integer", "boolean"}, "small"),
              ArgValue("string", {"array"}, "small"), ArgValue("boolean", {}, "small"),
              ArgValue("integer", {}, "small"), ArgValue("integer", {"boolean"}, "small")}
             \cup {ArgValue(kind, IF kind = "string" THEN {"integer"} ELSE {}, size) :
                      kind \in {"string", "integer"}, size \in {"large", "huge"}}
Schemas == [kinds : [n : {"integer", "boolean", "any"}, s : {"array", "string", "integer"}],
            required : SUBSET {"n", "s"}, open : {{}, {"n"}}]
Catalog == [a |-> "core", b |-> "net", c |-> "net"]
BoxOps == [op : {"enable", "disable"}, names : SUBSET {"a", "b", "x"}, groups : SUBSET {"net"}, profile : {""}]
          \cup [op : {"profile"}, names : {{}}, groups : {{}}, profile : {"core", "web", "none"}]
          \cup [op : {"list", "what"}, names : {{}}, groups : {{}}, profile : {""}]
KillRequests == [pid : {-1, 0, 1, 2, 3}, port : {0, 80}, tree : BOOLEAN, signal : {"kill", "stop", "usr1"},
                 dryRun : BOOLEAN, zombies : {TRUE}]
OwnPid == 4

CaptureInputs  == [chunks : SeqsUpTo(SeqsUpTo({Ascii, Lead, Cont}, 2), 3), limit : 1 .. 4, mode : {"head", "tail", "head_tail"}]
CapInputs      == [contents : SeqsUpTo([text : BOOLEAN, runes : {0, 1, 3}], 3), max : 1 .. 5]
StoreInputs    == SeqsUpTo([size : {0, 1, 2, 5}, wait : 0 .. 2], 4)
PageInputs     == [len : 0 .. 5, chars : 1 .. 3]
LineInputs     == [out : SeqsUpTo(OutputLines, 4), err : {<<>>, <<<<"data", "e", 0>>>>, <<<<"git", "w", 1>>, <<"git", "w", 2>>>>},
                   view : {"", "raw"}, result : {"exited", "timedOut", "failed"}, exitCode : {0, 1}]
DispatchInputs == [args : UNION {[D -> ArgValues] : D \in SUBSET {"n", "s"}}, schema : Schemas,
                   does : [kind : {"ok", "failure", "error", "panic"}, contents : {<<>>, <<[text |-> TRUE, runes |-> 9]>>}]]
ToolboxInputs  == SeqsUpTo(BoxOps, 2)
KillInputs     == [input : KillRequests, parent : [2 .. 5 -> {1, 2, 3}], port : {{2, 3}}, denied : {{2}}]
EnvInputs      == [env : SeqsUpTo({"P", "p", "q"} \X {1}, 2), user : SeqsUpTo({"P", "p", "q"} \X {2}, 2)]
SuspendInputs  == [starts : BOOLEAN, stops : BOOLEAN]

\* A capture keeps the first and the last bytes of the output, however it was
\* cut into writes, within its limit, and gives valid UTF-8.
CaptureOk(in) ==
    LET whole == FlattenSeq(in.chunks)
        n     == Len(whole)
        c     == FoldLeft(CaptureWrite, NewBoundedCapture(in.limit, in.mode), in.chunks)
        r     == CaptureResult(c)
    IN /\ r.truncated = (n > in.limit) /\ r.total = n
       /\ r.parts = IF ~r.truncated THEN <<ToValidUTF8(whole)>>
                    ELSE <<ToValidUTF8(SubSeq(whole, 1, HeadLimit(c))), ToValidUTF8(SubSeq(whole, n - TailLimit(c) + 1, n))>>
       /\ Len(c.head) + Len(c.tail) <= in.limit
       /\ \A i \in DOMAIN r.parts : ToValidUTF8(r.parts[i]) = r.parts[i]

\* The texts of a result are cut to the limit all together, what is not text
\* stays, and a result within the limit is not touched.
CapOk(in) ==
    LET out      == LimitToolResultText(in.contents, in.max)
        texts(s) == SelectSeq(s, LAMBDA c : c.text)
        other(s) == SelectSeq(s, LAMBDA c : ~c.text)
    IN /\ TextRunes(out) <= in.max
       /\ other(out) = other(in.contents)
       /\ \A i \in DOMAIN texts(out) : texts(out)[i].runes <= texts(in.contents)[i].runes
       /\ TextRunes(in.contents) <= in.max => out = in.contents

\* the store after every put, with the time
Stores(ops) ==
    FoldLeft(LAMBDA hist, op :
                LET now == Last(hist).now + op.wait
                IN Append(hist, [now |-> now, store |-> RawPut(Last(hist).store, Len(hist), op.size, now)]),
             <<[now |-> 0, store |-> NewRawOutputStore]>>, ops)

\* After any sequence of puts the store's byte count is that of its entries,
\* it is within both limits, what was just put can be read, the newest entries
\* are those kept, and an expired one is not given out.
StoresOk(in, hist) ==
    \A k \in DOMAIN hist :
        LET s == hist[k].store
            now == hist[k].now
        IN /\ s.totalBytes = FoldLeft(LAMBDA n, id : n + s.entries[id].size, 0, s.order)
           /\ s.totalBytes <= MaxBytes /\ Len(s.order) <= MaxEntries
           /\ ToSet(s.order) = DOMAIN s.entries /\ Cardinality(ToSet(s.order)) = Len(s.order)
           /\ k > 1 => LET fits == in[k - 1].size \in 1 .. MaxBytes
                       IN /\ RawGet(s, k - 1, now).found = fits
                          /\ fits => IsSuffix(Front(s.order), hist[k - 1].store.order)
           /\ \A id \in 1 .. Len(in) : RawGet(s, id, now + 1).found => now + 1 < s.entries[id].expires
StoreOk(in) == StoresOk(in, Stores(in))

RECURSIVE ReadPages(_, _, _)
ReadPages(len, at, chars) ==
    LET p == OutputPage(len, at, chars)
    IN [i \in 1 .. p.to - p.from |-> p.from + i] \o (IF p.next THEN ReadPages(len, p.to, chars) ELSE <<>>)

\* Following the pages of a stored output reads all of it once.
PageOk(in) == ReadPages(in.len, 0, in.chars) = [i \in 1 .. in.len |-> i]

\* The compact view of a stream stands for exactly its lines and folds no plain
\* line.
ViewOk(lines, out) ==
    LET expand(g) == [i \in 1 .. g.count |-> IF g.shown # <<>> THEN <<"git", g.line>> ELSE <<g.line[1], g.line[2]>>]
    IN /\ FlattenSeq([k \in DOMAIN out |-> expand(out[k])]) = [i \in DOMAIN lines |-> <<lines[i][1], lines[i][2]>>]
       /\ \A k \in DOMAIN out : out[k].count > 1 /\ out[k].shown = <<>> => out[k].line[1] # "data"

\* Of a process that ran, whatever of either stream is not shown can be asked
\* for under the id that the answer names, unless both together exceed the
\* store; one that was not started or took too long is reported so.
RanRight(in, r) ==
    LET all == [out |-> in.out, err |-> in.err]
    IN IF r.status # "completed" THEN in.result # "exited" /\ r.isError /\ r.store = NewRawOutputStore
       ELSE /\ in.result = "exited" /\ r.isError = (in.exitCode # 0)
            /\ \A s \in DOMAIN all : IF r.compacted THEN ViewOk(all[s], r.shown[s]) ELSE r.shown[s] = all[s]
            /\ r.rawID = RawGet(r.store, 1, 0).found
            /\ r.compacted => r.rawID \/ Len(in.out) + Len(in.err) > MaxBytes
            /\ Len(in.out) <= 3 /\ Len(in.err) <= 2 => ~r.truncated
LinesOk(in) ==
    LET of(lines) == [bytes |-> [i \in DOMAIN lines |-> Ascii], lines |-> lines]
        run == [result |-> in.result, exitCode |-> in.exitCode, out |-> of(in.out), err |-> of(in.err)]
    IN RanRight(in, ExecForeground(run, 5, in.view, NewRawOutputStore, 1, 0))

\* the schema shown for an operation that takes only n
OneOf(schema) == CompactInputSchema(schema, [get |-> [fields |-> {"n"}, required |-> schema.required \cap {"n"}]], "get")

\* A tool runs only on arguments that satisfy its schema and fit its input,
\* each as the caller gave it or read from the string the caller gave; only an
\* integer too large for a float64 is another then.  Whatever the tool does, a
\* panic too, the caller gets one answer that says whether it worked; a result
\* is bounded, and the text of an error is there whole.  Arguments that fit the
\* schema shown for one operation fit the whole one, if it requires no more.
DispatchOk(in) ==
    LET r == RunTool(in.args, in.schema, in.does, 3)
        given(v, w) == \/ w = v
                       \/ w.kind \in v.reads /\ w.reads = {}
        same(v, w)  == IF w.kind = "integer" /\ v.size = "large" THEN w.size = "rounded" /\ given(v, [w EXCEPT !.size = "large"])
                       ELSE w.size = v.size /\ given(v, w)
    IN /\ r.ran => /\ in.schema.required \subseteq DOMAIN r.saw /\ DOMAIN r.saw = DOMAIN in.args
                   /\ \A p \in DOMAIN r.saw : /\ in.schema.kinds[p] \in {"any", r.saw[p].kind}
                                              /\ same(in.args[p], r.saw[p])
                                              /\ r.saw[p].kind = "integer" /\ r.saw[p].size = "huge" =>
                                                    in.schema.kinds[p] = "any" \/ p \in in.schema.open
       /\ r.isError = (~r.ran \/ in.does.kind # "ok")
       /\ in.does.kind \in {"ok", "failure"} => TextRunes(r.contents) <= 3
       /\ r.ran /\ in.does.kind = "error" => TextRunes(r.contents) = TextRunes(in.does.contents)
       /\ DOMAIN in.args \subseteq {"n"} /\ in.schema.required \subseteq {"n"} =>
             r.ran = RunTool(in.args, OneOf(in.schema), in.does, 3).ran

\* A change of the tool box that is refused changes nothing; one that is
\* accepted leaves what it names enabled or disabled; a bound tool is
\* registered with the server.  A tool can be called and described whatever is
\* enabled, which enables it; one that does not exist cannot.
Callable(box, name, call, desc) ==
    /\ call.result.isError = (name = "x") /\ desc.err = (name = "x")
    /\ call.box = desc.box
    /\ IF name = "x" THEN call.box = box ELSE Inventory(call.box) = Inventory(box) \cup {"b"}
BoxesOk(in, hist) ==
    \A k \in DOMAIN hist :
         /\ hist[k].box.bound \subseteq hist[k].box.registered /\ hist[k].box.registered \subseteq DOMAIN Catalog
         /\ k > 1 => LET o == in[k - 1]
                     IN /\ hist[k].err => hist[k].box = hist[k - 1].box
                        /\ ~hist[k].err /\ o.op = "enable" => o.names \subseteq hist[k].active
                        /\ ~hist[k].err /\ o.op = "disable" => o.names \cap hist[k].active = {}
         /\ \A name \in {"b", "x"} :
              LET none == [n \in {} |-> 0]
                  free == [n \in {"b", "x"} |-> [kinds |-> none, required |-> {}, open |-> {}]]
              IN Callable(hist[k].box, name,
                          ToolboxCall(hist[k].box, Catalog, name, none, free, [kind |-> "ok", contents |-> <<>>], 3),
                          ToolboxDescribe(hist[k].box, Catalog, name, free, "", <<>>))
ToolboxOk(in) ==
    LET does(box, o) == ToolboxHandle(box, Catalog, o.op, o.names, o.groups, o.profile, [web |-> {"net"}])
    IN BoxesOk(in, FoldLeft(LAMBDA h, o : Append(h, does(Last(h).box, o)),
                            <<[box |-> [bound |-> {}, registered |-> {}], err |-> FALSE, active |-> {}]>>, in))

\* prockill never signals pid 1, a group, or the server itself; a dry run and
\* a refusal signal nobody; a tree is the whole tree, children killed before
\* their parents and parents stopped before their children.
KilledAsAsked(in, r) ==
    LET down   == [p \in 0 .. 5 |-> LET D[n \in 0 .. 4] == IF n = 0 THEN {p}
                                           ELSE D[n - 1] \cup {c \in DOMAIN in.parent : in.parent[c] \in D[n - 1]} IN D[4]]
        forest == \A p \in DOMAIN in.parent : in.parent[p] \in DOMAIN in.parent => in.parent[p] \notin down[p]
        sent   == ToSet(r.signalled)
        roots  == IF in.input.port > 0 THEN in.port ELSE {in.input.pid}
        meant  == IF in.input.tree THEN UNION {down[p] : p \in roots} ELSE roots
        at(p)  == {i \in DOMAIN r.signalled : r.signalled[i] = p}
    IN /\ \A p \in sent : p > 1 /\ p # OwnPid
       /\ r.refused \/ in.input.dryRun => sent = {}
       /\ ~r.refused => IF in.input.dryRun THEN ToSet(r.listed) = meant
                        ELSE sent = IF in.input.tree THEN meant \ {OwnPid} ELSE meant
       /\ (forest /\ Cardinality(roots) = 1 /\ in.input.tree) =>
            \A p, q \in sent : in.parent[q] = p => \A i \in at(p), j \in at(q) : (j < i) = (in.input.signal # "stop")
KillOk(in) == KilledAsAsked(in, ProcKill(in.input, in.parent, (80 :> in.port), OwnPid, in.denied, {5}))

\* A variable the user sets replaces every spelling of it in the environment,
\* once, with the last value given; the others stay, and a process that is
\* started never has a dangerous variable (here P) changed.
EnvOk(in) ==
    LET fold == [P |-> "P", p |-> "P", q |-> "q"]
        of(s, k) == SelectSeq(s, LAMBDA e : fold[e[1]] = k)
        out == MergeEnv(in.env, in.user, fold)
        request == [command |-> "c", timeout |-> 0, maxOutput |-> 0, view |-> "", cwd |-> "", env |-> in.user,
                    suspended |-> FALSE, background |-> TRUE]
    IN /\ \A k \in {"P", "q"} : of(out, k) = IF of(in.user, k) = <<>> THEN of(in.env, k) ELSE <<Last(of(in.user, k))>>
       /\ ProcExec(request, {"P"}, fold, 1, 1, 2) # "refused" => of(out, "P") = of(in.env, "P")

\* A process to be started suspended is left suspended or not at all.
SuspendOk(in) == LET r == StartSuspended(in.starts, in.stops) IN r.err = (r.left = "none") /\ r.left # "running"
=============================================================================
