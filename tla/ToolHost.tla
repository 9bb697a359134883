------------------------------ MODULE ToolHost ------------------------------
(***************************************************************************)
(* What every tool call passes through: the dispatch of safetool, the      *)
(* toolbox gateway, the bounds on output (capture, final cap, folding of   *)
(* diagnostics, the store of raw outputs) and the process tools prockill   *)
(* and procexec that use them.  Each is a function of its inputs.          *)
(***************************************************************************)
EXTENDS Integers, Sequences, SequencesExt, FiniteSetsExt, Functions, TLC

CONSTANTS MaxEntries,    \* maxRawOutputEntries
          MaxBytes,      \* maxRawOutputBytes
          RawOutputTTL,
          MaxExamples,   \* paths shown of a group of git warnings
          SuffixRunes    \* length of the final cap's marker

ASSUME ToolHostAssumption ==
    {MaxEntries, MaxBytes, RawOutputTTL, MaxExamples, SuffixRunes} \subseteq Nat \ {0}

(***************************************************************************)
(* BoundedCapture.  A byte is Ascii, or one of the two bytes Lead and Cont *)
(* of a longer character; Replaced is the replacement character.           *)
(***************************************************************************)
Replaced == 0
Ascii    == 1
Lead     == 2
Cont     == 3

NewBoundedCapture(limit, mode) ==
    [limit |-> limit, mode |-> mode, total |-> 0, head |-> <<>>, tail |-> <<>>]
HeadLimit(c) == CASE c.mode = "head" -> c.limit
                  [] c.mode = "tail" -> 0
                  [] OTHER -> (c.limit + 1) \div 2
TailLimit(c) == c.limit - HeadLimit(c)

CaptureWrite_HeadOnly(c, p) ==
    [c EXCEPT !.total = @ + Len(p), !.head = @ \o SubSeq(p, 1, Min({HeadLimit(c) - Len(@), Len(p)}))]
CaptureWrite(c, p) ==
    LET n    == Min({HeadLimit(c) - Len(c.head), Len(p)})
        tail == c.tail \o SubSeq(p, n + 1, Len(p))
        keep == Min({TailLimit(c), Len(tail)})
    IN [c EXCEPT !.total = @ + Len(p),
                 !.head  = @ \o SubSeq(p, 1, n),
                 !.tail  = SubSeq(tail, Len(tail) - keep + 1, Len(tail))]

\* a run of bytes that is no character becomes one replacement character
ToValidUTF8(s) ==
    LET whole(i) == \/ s[i] \in {Ascii, Replaced}
                    \/ s[i] = Lead /\ i < Len(s) /\ s[i + 1] = Cont
                    \/ s[i] = Cont /\ i > 1 /\ s[i - 1] = Lead
    IN FoldLeft(LAMBDA out, i : IF whole(i) THEN Append(out, s[i])
                                ELSE IF i > 1 /\ ~whole(i - 1) THEN out
                                ELSE Append(out, Replaced), <<>>, [i \in DOMAIN s |-> i])

CaptureResult(c) ==
    LET truncated == c.total > c.limit
    IN [parts |-> IF truncated THEN <<ToValidUTF8(c.head), ToValidUTF8(c.tail)>>
                               ELSE <<ToValidUTF8(c.head \o c.tail)>>,
        total |-> c.total, truncated |-> truncated]

(***************************************************************************)
(* The final cap.  A content is a number of runes and whether it is text.  *)
(***************************************************************************)
TruncateRunes(n, max, suffix) ==
    IF n <= max THEN [kept |-> n, runes |-> n]
    ELSE IF suffix >= max THEN [kept |-> max, runes |-> max]
    ELSE [kept |-> max - suffix, runes |-> max]

TextRunes(contents) == FoldLeft(LAMBDA sum, c : IF c.text THEN sum + c.runes ELSE sum, 0, contents)

LimitToolResultText_EachFits(contents, max) ==
    FoldLeft(LAMBDA out, c : Append(out, IF c.text THEN [c EXCEPT !.runes = Min({@, max})] ELSE c), <<>>, contents)
LimitToolResultText(contents, max) ==
    LET step(st, c) ==
            IF ~c.text THEN [st EXCEPT !.out = Append(@, c)]
            ELSE IF st.marked THEN st
            ELSE IF c.runes < st.remaining - SuffixRunes
                 THEN [st EXCEPT !.out = Append(@, c), !.remaining = @ - c.runes]
                 ELSE [st EXCEPT !.out = Append(@, [c EXCEPT !.runes = TruncateRunes(@, st.remaining, SuffixRunes).runes]),
                                 !.marked = TRUE]
    IN IF TextRunes(contents) <= max THEN contents
       ELSE FoldLeft(step, [out |-> <<>>, remaining |-> max, marked |-> FALSE], contents).out

(***************************************************************************)
(* The store of raw outputs: records by id, their order, their total size  *)
(***************************************************************************)
NewRawOutputStore == [entries |-> <<>>, order |-> <<>>, totalBytes |-> 0]
RemoveLocked(s, id) ==
    [entries    |-> Restrict(s.entries, DOMAIN s.entries \ {id}),
     order      |-> SelectSeq(s.order, LAMBDA x : x # id),
     totalBytes |-> IF id \in DOMAIN s.entries THEN s.totalBytes - s.entries[id].size ELSE s.totalBytes]
DropOldest(s, n) == FoldLeft(RemoveLocked, s, SubSeq(s.order, 1, n))

RemoveExpiredLocked(s, now) ==
    LET alive(i) == now < s.entries[s.order[i]].expires
    IN DropOldest(s, Min({i - 1 : i \in {j \in DOMAIN s.order : alive(j)}} \cup {Len(s.order)}))

RawPut_CountOnly(s, id, size, now) ==
    LET t == IF Len(s.order) >= MaxEntries THEN DropOldest(s, 1) ELSE s
    IN [entries    |-> (id :> [size |-> size, expires |-> now + RawOutputTTL]) @@ t.entries,
        order      |-> Append(t.order, id),
        totalBytes |-> t.totalBytes + size]
\* put: refuses what is empty or could never fit
RawPut(s, id, size, now) ==
    LET t    == RemoveExpiredLocked(s, now)
        fits(n) == LET u == DropOldest(t, n)
                   IN Len(u.order) < MaxEntries /\ u.totalBytes + size <= MaxBytes
        room == DropOldest(t, Min({n \in 0 .. Len(t.order) : fits(n)}))
    IN IF size = 0 \/ size > MaxBytes THEN s
       ELSE [entries    |-> (id :> [size |-> size, expires |-> now + RawOutputTTL]) @@ room.entries,
             order      |-> Append(room.order, id),
             totalBytes |-> room.totalBytes + size]
RawGet(s, id, now) ==
    LET t == RemoveExpiredLocked(s, now) IN [store |-> t, found |-> id \in DOMAIN t.entries]

\* toolbox output: one page of a record of length len
OutputPage(len, offset, maxChars) ==
    LET end == Min({offset + maxChars, len})
    IN [err |-> offset < 0 \/ offset > len \/ maxChars < 1, from |-> offset, to |-> end, next |-> end < len]

(***************************************************************************)
(* Folding of repeated diagnostics.  A line is <<kind, text, path>>: "git" *)
(* is a line-ending warning of git about a path, "diag" another line that  *)
(* looks like a diagnostic, "data" any other.                              *)
(***************************************************************************)
IsDiagnosticLine(line) == line[1] \in {"git", "diag"}
NormalizeOutputView(view) == IF view = "" THEN "compact" ELSE view
SameGroup(a, b) == \/ a = b
                   \/ a[1] = "git" /\ b[1] = "git" /\ a[2] = b[2]

\* the maximal runs of lines of one group, as sequences
Runs(lines) ==
    FoldLeft(LAMBDA out, line : IF out # <<>> /\ SameGroup(Last(Last(out)), line)
                                THEN Append(Front(out), Append(Last(out), line))
                                ELSE Append(out, <<line>>), <<>>, lines)
FormatGitLineEndingGroup(run) ==
    [line |-> Head(run)[2], count |-> Len(run), shown |-> [i \in 1 .. Min({Len(run), MaxExamples}) |-> run[i][3]]]

CompactDiagnosticOutput_All(lines) ==
    FoldLeft(LAMBDA out, run : Append(out, [line |-> Head(run), count |-> Len(run), shown |-> <<>>]), <<>>, Runs(lines))
CompactDiagnosticOutput(lines) ==
    LET single(line) == [line |-> line, count |-> 1, shown |-> <<>>]
        shows(run) ==
            IF Len(run) > 1 /\ Head(run)[1] = "git" THEN <<FormatGitLineEndingGroup(run)>>
            ELSE IF Len(run) > 1 /\ IsDiagnosticLine(Head(run))
                 THEN <<[line |-> Head(run), count |-> Len(run), shown |-> <<>>]>>
            ELSE [i \in DOMAIN run |-> single(run[i])]
    IN FoldLeft(LAMBDA out, run : out \o shows(run), <<>>, Runs(lines))

(***************************************************************************)
(* Dispatch.  A JSON value has a kind; a string also the set of kinds its  *)
(* text reads as, and a number reads as boolean when it is 0 or 1.  The    *)
(* size of an integer, or of one in a string, is "large" when a float64    *)
(* cannot hold it, "huge" when the nearest float64 is no Go integer.  A    *)
(* schema gives each property its kind, the properties it requires, and    *)
(* those whose field takes any number (open).  No schema has defaults.     *)
(***************************************************************************)
CoerceTo(v, kind) ==
    IF kind \in v.reads /\ \/ v.kind = "string" /\ kind \in {"integer", "boolean", "array"}
                           \/ v.kind = "integer" /\ kind = "boolean"
    THEN [v EXCEPT !.kind = kind, !.reads = {}] ELSE v
CoerceArgs(args, schema) ==
    [p \in DOMAIN args |-> IF p \in DOMAIN schema.kinds THEN CoerceTo(args[p], schema.kinds[p]) ELSE args[p]]
ValidArgs(args, schema) ==
    /\ schema.required \subseteq DOMAIN args /\ DOMAIN args \subseteq DOMAIN schema.kinds
    /\ \A p \in DOMAIN args : schema.kinds[p] \in {args[p].kind, "any"}

\* the arguments are decoded into float64, then read into the handler's input
DecodeArgs(args) ==
    [p \in DOMAIN args |-> IF args[p].kind = "integer" /\ args[p].size = "large"
                           THEN [args[p] EXCEPT !.size = "rounded"] ELSE args[p]]
InputHolds(args, schema) ==
    \A p \in DOMAIN args : args[p].kind = "integer" /\ args[p].size = "huge" => schema.kinds[p] = "any" \/ p \in schema.open

\* rawHandler: `does` is what the handler of the tool does with its arguments:
\* it panics, returns an error with a text, or a result that says whether it
\* is one of failure.  Only results go through the final cap.
ToolError(runes) == [isError |-> TRUE, contents |-> <<[text |-> TRUE, runes |-> runes]>>, ran |-> FALSE, saw |-> <<>>]
RunTool_NoValidation(args, schema, does, max) ==
    LET in == DecodeArgs(CoerceArgs(args, schema))
        failed(runes) == [ToolError(runes) EXCEPT !.ran = TRUE, !.saw = in]
    IN IF does.kind = "panic" THEN failed(1)
       ELSE IF does.kind = "error" THEN failed(TextRunes(does.contents))
       ELSE [isError |-> does.kind = "failure", contents |-> LimitToolResultText(does.contents, max), ran |-> TRUE, saw |-> in]
RunTool(args, schema, does, max) ==
    LET coerced == CoerceArgs(args, schema)
        in      == DecodeArgs(coerced)
        failed(runes) == [ToolError(runes) EXCEPT !.ran = TRUE, !.saw = in]
    IN IF ~ValidArgs(coerced, schema) \/ ~InputHolds(in, schema) THEN ToolError(1)
       ELSE IF does.kind = "panic" THEN failed(1)
       ELSE IF does.kind = "error" THEN failed(TextRunes(does.contents))
       ELSE [isError |-> does.kind = "failure", contents |-> LimitToolResultText(does.contents, max), ran |-> TRUE, saw |-> in]

(***************************************************************************)
(* The toolbox: specs gives every tool its group.  bound are the tools the *)
(* client can call directly, registered those with a gateway handler.      *)
(***************************************************************************)
Selected(specs, names, groups) == names \cup {n \in DOMAIN specs : specs[n] \in groups}

Change_Partial(box, specs, enable, names, groups) ==
    LET known == Selected(specs, names, groups) \cap DOMAIN specs
    IN [box |-> [bound |-> IF enable THEN box.bound \cup known ELSE box.bound \ known,
                 registered |-> IF enable THEN box.registered \cup known ELSE box.registered],
        changed |-> known, err |-> known = {}]
Change(box, specs, enable, names, groups) ==
    LET selected == Selected(specs, names, groups)
        known    == names \subseteq DOMAIN specs /\ groups \subseteq Range(specs)
        changed  == IF enable THEN selected \ box.bound ELSE selected \cap box.bound
    IN IF ~known \/ selected = {} THEN [box |-> box, changed |-> {}, err |-> TRUE]
       ELSE [box |-> [bound      |-> IF enable THEN box.bound \cup changed ELSE box.bound \ changed,
                      registered |-> IF enable THEN box.registered \cup changed ELSE box.registered],
             changed |-> changed, err |-> FALSE]

ProfileGroups(profile, extra) == {"core"} \cup (IF profile \in DOMAIN extra THEN extra[profile] ELSE {})
EnableProfile(box, specs, profile, extra) ==
    IF profile \notin {"core"} \cup DOMAIN extra THEN [box |-> box, changed |-> {}, err |-> TRUE]
    ELSE Change(box, specs, TRUE, {}, ProfileGroups(profile, extra))

\* the schema of one operation: the fields of its shape, and what it requires
CompactInputSchema(schema, shapes, operation) ==
    IF operation = "" THEN schema
    ELSE [schema EXCEPT !.kinds = Restrict(@, shapes[operation].fields \cap DOMAIN @),
                        !.required = shapes[operation].required]

\* describe and call bind the tool first; a schema handle names the schema it was made from
ToolboxDescribe(box, specs, name, schemas, operation, knownHandle) ==
    LET c == Change(box, specs, TRUE, {name}, {})
        handle == <<name, operation, schemas[name]>>
    IN IF c.err \/ name \notin c.box.registered THEN [box |-> c.box, err |-> TRUE, shows |-> <<>>]
       ELSE [box |-> c.box, err |-> FALSE, shows |-> IF knownHandle = handle THEN <<>> ELSE <<schemas[name]>>]
ToolboxCall(box, specs, name, args, schemas, does, max) ==
    LET c == Change(box, specs, TRUE, {name}, {})
    IN IF c.err \/ name \notin c.box.registered THEN [box |-> c.box, result |-> ToolError(1)]
       ELSE [box |-> c.box, result |-> RunTool(args, schemas[name], does, max)]

Inventory(box) == {"toolbox"} \cup box.bound
\* Handle: the operations that change what is bound, and what the answer lists as active
ToolboxHandle(box, specs, op, names, groups, profile, extra) ==
    LET c == CASE op = "enable"  -> Change(box, specs, TRUE, names, groups)
               [] op = "disable" -> Change(box, specs, FALSE, names, groups)
               [] op = "profile" -> EnableProfile(box, specs, profile, extra)
               [] op = "list"    -> [box |-> box, changed |-> {}, err |-> FALSE]
               [] OTHER          -> [box |-> box, changed |-> {}, err |-> TRUE]
    IN [box |-> c.box, err |-> c.err, active |-> IF c.err THEN {} ELSE Inventory(c.box)]

(***************************************************************************)
(* Processes: parent gives every process its parent; Self is agent-tool,   *)
(* 1 is init.  The kernel refuses a signal to the processes in `denied`.   *)
(***************************************************************************)
ChildrenOf(parent, p) == SetToSortSeq({c \in DOMAIN parent : parent[c] = p}, <)
RECURSIVE BreadthFirst(_, _, _)
BreadthFirst(parent, queue, result) ==
    IF queue = <<>> THEN result
    ELSE LET kids == SelectSeq(ChildrenOf(parent, Head(queue)), LAMBDA c : c \notin Range(queue \o result))
         IN BreadthFirst(parent, Tail(queue) \o kids, Append(result, Head(queue)))
GetDescendants(parent, pid) == BreadthFirst(parent, <<pid>>, <<>>)

KillTreePlatform_RootFirst(parent, pid, self) ==
    SelectSeq(GetDescendants(parent, pid), LAMBDA p : p > 1 /\ p # self)
KillTreePlatform(parent, pid, self) ==
    SelectSeq(Reverse(GetDescendants(parent, pid)), LAMBDA p : p > 1 /\ p # self)

Signals  == {"kill", "term", "hup", "int", "stop", "cont"}
Pausing  == {"stop", "cont"}

\* zombies among the targets: their parents are told, unless that is init
HandleZombies(parent, pid, zombies) ==
    {parent[p] : p \in {z \in ToSet(GetDescendants(parent, pid)) \cap zombies : parent[z] > 1}}

\* prockill Handle; ports gives the processes behind each port
KillTargets(in, ports) ==
    IF in.port > 0 THEN SetToSortSeq({p \in ports[in.port] : p > 0}, <) ELSE <<in.pid>>
KillAllowed(in, pids, self) ==
    /\ (in.pid = 0) # (in.port = 0)
    /\ in.pid >= 0 /\ in.port \in 0 .. 65535
    /\ in.signal \in Signals
    /\ pids # <<>> /\ \A p \in ToSet(pids) : p > 1 /\ p # self
ProcKill(in, parent, ports, self, denied, zombies) ==
    LET pids    == KillTargets(in, ports)
        asked(p) == IF ~in.tree THEN <<p>>
                    ELSE IF in.signal \in Pausing
                         THEN SelectSeq(GetDescendants(parent, p), LAMBDA q : q > 1 /\ q # self)
                         ELSE KillTreePlatform(parent, p, self)
        listed  == FlattenSeq([i \in DOMAIN pids |-> IF in.tree THEN GetDescendants(parent, pids[i]) ELSE <<pids[i]>>])
        sent    == FlattenSeq([i \in DOMAIN pids |-> asked(pids[i])])
        failed  == SelectSeq(sent, LAMBDA p : p \in denied)
        nobody  == [refused |-> FALSE, listed |-> listed, signalled |-> <<>>, isError |-> FALSE, woken |-> {}]
    IN IF ~KillAllowed(in, pids, self) THEN [nobody EXCEPT !.refused = TRUE, !.listed = <<>>, !.isError = TRUE]
       ELSE IF in.dryRun THEN nobody
       ELSE [refused |-> FALSE, listed |-> listed, signalled |-> sent,
             isError |-> failed # <<>> /\ Len(failed) = Len(sent),
             woken   |-> IF in.zombies THEN UNION {HandleZombies(parent, p, zombies) : p \in ToSet(pids)} ELSE {}]

(***************************************************************************)
(* procexec.  An environment entry is <<key, value>>; fold is the case     *)
(* folding of keys.                                                        *)
(***************************************************************************)
MergeEnv_NoFold(env, user, fold) == env \o user
MergeEnv(env, user, fold) ==
    LET folded    == {fold[user[i][1]] : i \in DOMAIN user}
        lastOf(k) == user[Max({i \in DOMAIN user : fold[user[i][1]] = k})]
    IN SelectSeq(env, LAMBDA e : fold[e[1]] \notin folded) \o SetToSeq({lastOf(k) : k \in folded})

\* Handle: what is refused, and how the process is run
ProcExec(in, dangerous, fold, maxTimeout, minOut, maxOut) ==
    IF \/ in.command = "" \/ in.timeout \notin 0 .. maxTimeout
       \/ in.maxOutput # 0 /\ in.maxOutput \notin minOut .. maxOut
       \/ in.view \notin {"", "compact", "raw"}
       \/ in.cwd \notin {"", "dir"}
       \/ \E i \in DOMAIN in.env : fold[in.env[i][1]] \in dangerous
    THEN "refused"
    ELSE IF in.suspended THEN "suspended" ELSE IF in.background THEN "background" ELSE "foreground"

\* execForeground: Run gives an ExitError for every process that was started and did not
\* exit with 0, one killed at the deadline too; the deadline may also pass before the start.
\* A stream has its bytes, and the lines that what is kept of them reads as.
ExecForeground(run, maxOutput, view, store, id, now) ==
    LET streams    == [out |-> run.out, err |-> run.err]
        limit      == [out |-> (maxOutput + 1) \div 2, err |-> maxOutput \div 2]
        folded     == [s \in DOMAIN streams |-> CompactDiagnosticOutput(streams[s].lines)]
        compact    == /\ NormalizeOutputView(view) = "compact"
                      /\ \E s \in DOMAIN streams : Len(folded[s]) < Len(streams[s].lines)
        kept       == IF compact THEN RawPut(store, id, Len(run.out.lines) + Len(run.err.lines), now) ELSE store
    IN IF run.result # "exited" THEN [status |-> run.result, isError |-> TRUE, store |-> store]
       ELSE [status    |-> "completed",
             isError   |-> run.exitCode # 0,
             shown     |-> [s \in DOMAIN streams |-> IF compact THEN folded[s] ELSE streams[s].lines],
             compacted |-> compact,
             truncated |-> \E s \in DOMAIN streams : CaptureResult(CaptureWrite(NewBoundedCapture(limit[s], "head_tail"),
                                                                                 streams[s].bytes)).truncated,
             rawID     |-> kept # store,
             store     |-> kept]

\* startSuspended: a process that cannot be stopped is killed and waited for
StartSuspended_Leave(starts, stops) ==
    IF ~starts THEN [err |-> TRUE, left |-> "none"]
    ELSE [err |-> ~stops, left |-> IF stops THEN "stopped" ELSE "running"]
StartSuspended(starts, stops) ==
    IF ~starts THEN [err |-> TRUE, left |-> "none"]
    ELSE IF ~stops THEN [err |-> TRUE, left |-> "none"]
    ELSE [err |-> FALSE, left |-> "stopped"]
=============================================================================
