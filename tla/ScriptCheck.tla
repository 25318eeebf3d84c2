---------------------------- MODULE ScriptCheck -----------------------------
(***************************************************************************)
(* Runs of a script and the report that Check gives on it without running  *)
(* it: first the runs, then the check.                                     *)
(***************************************************************************)
(***************************************************************************)
(* What a run of a script may do, as far as its policies can tell: which   *)
(* commands are reached, with which words, in which directory, and which   *)
(* of them are refused.  A command that is allowed may succeed or fail, and *)
(* a substitution or read may yield anything of a few outputs, so a run is *)
(* described by the set of states it may end in and of events it may have. *)
(* An event is a command site with whether it was refused.                 *)
(*                                                                         *)
(* A text is the sequence of its blank-separated parts.  /g is granted for *)
(* writing if the policy says so, /r for reading only, /h is not granted.  *)
(* Redirect targets that are permitted can be opened.                      *)
(***************************************************************************)
EXTENDS Call, SequencesExt, FiniteSetsExt

ScriptVars == {"x", "HOME", "IFS"}
ScriptDirs == {"/g", "/r", "/h"}
AnyOutput == {<<>>, <<"p">>, <<"/h/p">>, <<"cd", "/g">>}
AnyMatch == {<<"*">>, <<"p">>}
BlankIFS == <<"sp">>

Registered == {"echo", "cat", "tee", "cd", "read", "xargs"}
RemediationOnly == {"tee"}

JoinText(t) == FoldLeft(LAMBDA a, b : IF a = "" THEN b ELSE a \o " " \o b, "", t)
SplitText2(t, ifs) == IF ifs = BlankIFS \/ t = <<>> THEN t ELSE <<JoinText(t)>>

(* The sandbox: a relative name is one in the working directory. *)
DirOf(path, dir) == CASE path \in {"/g", "/g/p"} -> "/g" [] path \in {"/r", "/r/p"} -> "/r" [] path \in {"/h", "/h/p"} -> "/h" [] OTHER -> dir
IsAbs(path) == path \in {"/g", "/g/p", "/r", "/r/p", "/h", "/h/p"}
PathOk(policy, path, dir, op) ==
  \/ op = "read" /\ DirOf(path, dir) \in {"/g", "/r"}
  \/ op = "write" /\ policy.writable /\ DirOf(path, dir) = "/g"

NameRefused(policy, name, elevated, stage) ==
  \/ name \notin policy.allowed
  \/ elevated /\ (name \notin policy.elevatable \/ stage)
  \/ name \in RemediationOnly /\ ~policy.remediation
  \/ name \notin Registered

(***************************************************************************)
(* Words and what they may expand to.                                      *)
(***************************************************************************)
Matched(t) == IF Contains(t, "*") THEN AnyMatch ELSE {t}
Fields(w, s) ==
  CASE w.k = "lit" -> {<<JoinText(w.t)>>}
    [] w.k = "var" /\ w.q -> {<<JoinText(s.env[w.x])>>}
    [] w.k = "var" /\ ~w.q -> Matched(SplitText2(s.env[w.x], s.env["IFS"]))
    [] w.k = "glob" -> AnyMatch
    [] OTHER -> {SplitText2(o, s.env["IFS"]) : o \in AnyOutput}
AssignVal(w, s) == CASE w.k = "lit" -> {w.t} [] w.k = "glob" -> {<<"*">>} [] w.k = "var" -> {s.env[w.x]} [] OTHER -> AnyOutput
WordChoices(ws, s) == FoldLeft(LAMBDA acc, w : {Append(a, f) : a \in acc, f \in Fields(w, s)}, {<<>>}, ws)

\* The command is identified by the first field, by the second after sudo.
NameIsKnown(f) == Len(f) >= 2 \/ (Len(f) = 1 /\ f[1] # "sudo")
WordsNeeded(ch) == Min({n \in 0 .. Len(ch) : NameIsKnown(FlattenSeq(SubSeq(ch, 1, n)))} \cup {Len(ch)})

RedirectOk(policy, rd, path, dir) == (rd.op = "out" /\ path = "null") \/ ((rd.op = "out" => policy.remediation) /\ PathOk(policy, path, dir, IF rd.op = "out" THEN "write" ELSE "read"))

(* The builtins, after the policies on their name: whether they are refused *)
(* and the states they may leave.                                           *)
CdTarget(ops, s) == IF ops = <<>> THEN JoinText(s.env["HOME"]) ELSE ops[1]
BuiltinRefused(policy, name, ops, elevated, stage, s) ==
  CASE name = "cat" -> {\E i \in DOMAIN ops : ~PathOk(policy, ops[i], s.dir, "read")}
    [] name = "tee" -> {~policy.writable \/ \E i \in DOMAIN ops : ~PathOk(policy, ops[i], s.dir, "write")}
    [] name = "cd" -> {Len(ops) > 1 \/ ~PathOk(policy, CdTarget(ops, s), s.dir, "read")}
    [] name = "xargs" -> IF NameRefused(policy, IF ops = <<>> THEN "echo" ELSE ops[1], elevated, stage) THEN {TRUE} ELSE BOOLEAN
    [] OTHER -> {FALSE}
BuiltinEffects(name, ops, s) ==
  CASE name = "cd" /\ CdTarget(ops, s) \in ScriptDirs -> {s, [s EXCEPT !.dir = CdTarget(ops, s)]}
    [] name = "read" /\ ops # <<>> /\ ops[1] \in ScriptVars -> {[s EXCEPT !.env[ops[1]] = o] : o \in AnyOutput}
    [] OTHER -> {s}

(***************************************************************************)
(* Statements.  A result has the states and the events.                    *)
(***************************************************************************)
Did(outs, ev) == [outs |-> outs, ev |-> ev]
Both2(a, b) == Did(a.outs \cup b.outs, a.ev \cup b.ev)
Merge(rs) == Did(UNION {r.outs : r \in rs}, UNION {r.ev : r \in rs})
Event(id, refused) == [site |-> id, refused |-> refused]

RECURSIVE ExecStmts(_, _, _, _)
RECURSIVE ExecStmt(_, _, _, _)
RECURSIVE ExecAssigns(_, _, _, _)
RECURSIVE RunLoop(_, _, _, _, _)

ExecFrom(policy, stmts, outs, stage) == Merge({ExecStmts(policy, stmts, s, stage) : s \in outs})
ExecStmts(policy, stmts, s, stage) ==
  IF stmts = <<>> THEN Did({s}, {})
  ELSE Once(ExecStmt(policy, stmts[1], s, stage), LAMBDA a :
       LET b == ExecFrom(policy, Tail(stmts), a.outs, stage) IN Did(b.outs, a.ev \cup b.ev))

\* $(<file): the shell reads the file itself, if cat is allowed.
CatShortcut(body) == Len(body) = 1 /\ body[1].k = "call" /\ body[1].args = <<>> /\ body[1].assigns = <<>> /\ Len(body[1].redirs) = 1 /\ body[1].redirs[1].op = "in"
ExecFileRead(policy, c, s) ==
  {Event(c.id, "cat" \notin policy.allowed \/ Len(f) # 1 \/ ~PathOk(policy, f[1], s.dir, "read")) : f \in Fields(c.redirs[1].w, s)}

\* The substitutions of words are run in a copy of the shell.
SubstEvents(policy, body, s, stage) == IF CatShortcut(body) THEN ExecFileRead(policy, body[1], s) ELSE ExecStmts(policy, body, s, stage).ev
WordEvents(policy, ws, s, stage) == UNION {IF ws[i].k = "sub" THEN SubstEvents(policy, ws[i].body, s, stage) ELSE {} : i \in DOMAIN ws}

\* Each assignment sees the ones before it.
ExecAssigns(policy, as, s, stage) ==
  IF as = <<>> THEN Did({s}, {})
  ELSE LET rest == Merge({ExecAssigns(policy, Tail(as), [s EXCEPT !.env[as[1].x] = v], stage) : v \in AssignVal(as[1].w, s)})
       IN Did(rest.outs, rest.ev \cup WordEvents(policy, <<as[1].w>>, s, stage))

\* Whether the redirects may all be set up, in BOOLEAN, with their events.
ExecRedirects(policy, redirs, s, stage) ==
  [ok |-> {\A i \in DOMAIN redirs : Len(ch[i]) = 1 /\ RedirectOk(policy, redirs[i], ch[i][1], s.dir) : ch \in WordChoices([i \in DOMAIN redirs |-> redirs[i].w], s)},
   ev |-> WordEvents(policy, [i \in DOMAIN redirs |-> redirs[i].w], s, stage)]

AssignOnly(policy, st, s, stage) ==
  LET rd == ExecRedirects(policy, st.redirs, s, stage)
      as == ExecAssigns(policy, st.assigns, s, stage)
  IN Merge({IF ok THEN Did(as.outs, as.ev \cup rd.ev \cup {Event(st.id, FALSE)}) ELSE Did({s}, rd.ev \cup {Event(st.id, TRUE)}) : ok \in rd.ok})

(* The rest of callExpr once the command may be run: the inline assignments  *)
(* are seen by the command and undone after it, the redirects are expanded   *)
(* without them.                                                             *)
Restored(s, before, as) == [s EXCEPT !.env = [v \in ScriptVars |-> IF \E i \in DOMAIN as : as[i].x = v THEN before.env[v] ELSE s.env[v]]]
Dispatch2(policy, st, name, ops, elevated, s, stage) ==
  LET as == ExecAssigns(policy, st.assigns, s, stage)
      rd == ExecRedirects(policy, st.redirs, s, stage)
      Ran(t) == Merge({IF no THEN Did({s}, {Event(st.id, TRUE)}) ELSE Did({Restored(u, s, st.assigns) : u \in BuiltinEffects(name, ops, t)}, {Event(st.id, FALSE)}) :
                       no \in BuiltinRefused(policy, name, ops, elevated, stage, t)})
      runs == Merge({IF ok THEN Merge({Ran(t) : t \in as.outs}) ELSE Did({s}, {Event(st.id, TRUE)}) : ok \in rd.ok})
  IN Did(runs.outs, runs.ev \cup as.ev \cup rd.ev)

ExecCallWith(policy, st, ch, s, stage) ==
  LET all == FlattenSeq(ch)
      elevated == all # <<>> /\ all[1] = "sudo"
      f == IF elevated THEN Tail(all) ELSE all
      needed == WordEvents(policy, SubSeq(st.args, 1, WordsNeeded(ch)), s, stage)
  IN IF all = <<>> THEN Both2(Did({}, needed), AssignOnly(policy, st, s, stage))
     ELSE IF f = <<>> \/ NameRefused(policy, f[1], elevated, stage) THEN Did({s}, needed \cup {Event(st.id, TRUE)})
     ELSE Once(Dispatch2(policy, st, f[1], Tail(f), elevated, s, stage), LAMBDA done : Did(done.outs, done.ev \cup WordEvents(policy, st.args, s, stage)))
ExecCall(policy, st, s, stage) == Merge({ExecCallWith(policy, st, ch, s, stage) : ch \in WordChoices(st.args, s)})

\* A while loop, up to n rounds.
RunLoop(policy, st, outs, stage, n) ==
  LET c == ExecFrom(policy, st.cond, outs, stage)
      d == ExecFrom(policy, st.do, c.outs, stage)
      r == RunLoop(policy, st, d.outs, stage, n - 1)
  IN IF n = 0 THEN Did(outs, {}) ELSE Did(c.outs \cup r.outs, c.ev \cup d.ev \cup r.ev)

ExecFor(policy, st, s, stage) ==
  LET Round(acc, f) == LET r == ExecFrom(policy, st.do, {[t EXCEPT !.env[st.x] = <<f>>] : t \in acc.outs}, stage) IN Did(r.outs, acc.ev \cup r.ev)
      all == Merge({FoldLeft(Round, Did({s}, {}), FlattenSeq(ch)) : ch \in WordChoices(st.items, s)})
  IN Did(all.outs, all.ev \cup WordEvents(policy, st.items, s, stage))

ExecCompound(policy, st, s, stage) ==
  CASE st.k = "block" -> ExecStmts(policy, st.stmts, s, stage)
    [] st.k = "subshell" -> Did({s}, ExecStmts(policy, st.stmts, s, stage).ev)
    [] st.k = "pipe" -> Did({s}, UNION {ExecStmt(policy, t, s, TRUE).ev : t \in {st.left, st.right}})
    [] st.k = "and" -> LET a == ExecStmt(policy, st.left, s, stage) IN Both2(a, ExecFrom(policy, <<st.right>>, a.outs, stage))
    [] st.k = "if" -> LET a == ExecStmts(policy, st.cond, s, stage) IN Both2(a, ExecFrom(policy, st.do, a.outs, stage))
    [] st.k = "while" -> RunLoop(policy, st, {s}, stage, 3)
    [] st.k = "for" -> ExecFor(policy, st, s, stage)

ExecStmt(policy, st, s, stage) ==
  IF st.k = "call" THEN ExecCall(policy, st, s, stage)
  ELSE IF st.redirs = <<>> THEN ExecCompound(policy, st, s, stage)
  ELSE LET rd == ExecRedirects(policy, st.redirs, s, stage)
           all == Merge({IF ok THEN ExecCompound(policy, st, s, stage) ELSE Did({s}, {}) : ok \in rd.ok})
       IN Did(all.outs, all.ev \cup rd.ev \cup {Event(st.id, ~ok) : ok \in rd.ok})

-----------------------------------------------------------------------------
(***************************************************************************)
(* Check: a report on a script that is not run.  Every command site is     *)
(* visited once with what is known of the variables and of the directory   *)
(* there, and is allowed, denied or indeterminate.                         *)
(*                                                                         *)
(* A remote check has no file system: it never allows a path.  The byte    *)
(* budgets of the expansions and read-only variables are left out; the     *)
(* commands are the six above.                                            *)
(***************************************************************************)
CONSTANTS MaxCheckCommands,   \* of sites in one report
          MaxCheckDepth       \* of nested statements

CombineCheckStatus(a, b) == CASE "denied" \in {a, b} -> "denied" [] "indeterminate" \in {a, b} /\ "denied" \notin {a, b} -> "indeterminate" [] OTHER -> "allowed"

(***************************************************************************)
(* What is known: the values assigned so far, the rest of the environment  *)
(* unless envUnknown, and the directory if dirKnown.                       *)
(***************************************************************************)
CkValue(known, t) == [known |-> known, t |-> t]
Unknown == CkValue(FALSE, <<>>)
CkStart(env, dir) == [values |-> <<>>, env |-> env, envUnknown |-> FALSE, dir |-> dir, dirKnown |-> TRUE, pipeline |-> FALSE]
SetValue(st, x, v) == [st EXCEPT !.values = (x :> v) @@ @]
KnownValue(st, x) == IF x \in DOMAIN st.values THEN st.values[x] ELSE CkValue(~st.envUnknown, st.env[x])

Expandable(st, w, quoted) ==
  CASE w.k = "lit" -> TRUE
    [] w.k = "glob" -> quoted
    [] w.k = "var" -> KnownValue(st, w.x).known /\ (quoted \/ w.q \/ KnownValue(st, "IFS").known)
    [] OTHER -> FALSE

\* The fields of a word, or <<>> with known FALSE; a pattern cannot be matched.
CkFields(st, w) ==
  LET split == SplitText2(KnownValue(st, w.x).t, KnownValue(st, "IFS").t)
  IN IF ~Expandable(st, w, FALSE) THEN Unknown
     ELSE IF w.k = "lit" THEN CkValue(TRUE, <<JoinText(w.t)>>)
     ELSE IF w.q THEN CkValue(TRUE, <<JoinText(KnownValue(st, w.x).t)>>)
     ELSE IF Contains(split, "*") THEN Unknown
     ELSE CkValue(TRUE, split)
CkLiteral(st, w) ==
  IF ~Expandable(st, w, TRUE) THEN Unknown
  ELSE CASE w.k = "lit" -> CkValue(TRUE, w.t) [] w.k = "glob" -> CkValue(TRUE, <<"*">>) [] OTHER -> KnownValue(st, w.x)

(***************************************************************************)
(* Effects that are forgotten because they depend on the run.              *)
(***************************************************************************)
ForgetCommandEffects(name, st) ==
  LET a == IF name \in {"read", ""} THEN [st EXCEPT !.envUnknown = TRUE, !.values = [x \in DOMAIN @ |-> Unknown]] ELSE st
  IN IF name \in {"cd", ""} THEN [a EXCEPT !.dirKnown = FALSE] ELSE a

RECURSIVE Invalidate(_, _)
InvalidateCall(st, call1) ==
  IF call1.args = <<>> THEN FoldLeft(LAMBDA s, a : SetValue(s, a.x, Unknown), st, call1.assigns)
  ELSE LET name == CkLiteral(st, call1.args[1])
       IN ForgetCommandEffects(IF name.known /\ JoinText(name.t) \in Registered THEN JoinText(name.t) ELSE "", st)
InvalidateAll(st, stmts) == FoldLeft(LAMBDA s, t : Invalidate(s, t), st, stmts)
Invalidate(st, node) ==
  CASE node.k = "call" -> InvalidateCall(st, node)
    [] node.k \in {"subshell", "pipe"} -> st
    [] node.k = "block" -> InvalidateAll(st, node.stmts)
    [] node.k = "and" -> InvalidateAll(st, <<node.left, node.right>>)
    [] node.k \in {"if", "while"} -> InvalidateAll(st, node.cond \o node.do)
    [] node.k = "for" -> InvalidateAll(SetValue(st, node.x, Unknown), node.do)

(***************************************************************************)
(* The checks of one site; each yields the status it leads to.             *)
(***************************************************************************)
CommandPolicy(policy, name, elevated, pipeline) ==
  IF \/ name \notin policy.allowed
     \/ name \notin Registered
     \/ elevated /\ (name \notin policy.elevatable \/ pipeline)
     \/ name \in RemediationOnly /\ ~policy.remediation
  THEN "denied" ELSE "allowed"

CheckPath2(policy, path, op, st) ==
  IF op = "write" /\ (~policy.remediation \/ (policy.remote /\ ~policy.writable)) THEN "denied"
  ELSE IF ~st.dirKnown /\ ~IsAbs(path) THEN "indeterminate"
  ELSE IF ~PathOk(policy, path, st.dir, op) THEN "denied" ELSE IF policy.remote THEN "indeterminate" ELSE "allowed"
CheckPaths(policy, paths, op, st) == FoldLeft(LAMBDA a, p : CombineCheckStatus(a, CheckPath2(policy, p, op, st)), "allowed", paths)

CheckRedirect(policy, rd, st) ==
  Once(CkFields(st, rd.w), LAMBDA f :
     IF ~f.known THEN "indeterminate"
     ELSE IF Len(f.t) # 1 THEN "denied"
     ELSE IF rd.op = "out" /\ f.t[1] = "null" THEN "allowed"
     ELSE CheckPath2(policy, f.t[1], IF rd.op = "out" THEN "write" ELSE "read", st))
CheckRedirects(policy, redirs, st) == FoldLeft(LAMBDA a, rd : CombineCheckStatus(a, CheckRedirect(policy, rd, st)), "allowed", redirs)

CheckCd(policy, ops, st) ==
  LET home == KnownValue(st, "HOME")
  IN IF Len(ops) > 1 THEN "denied"
     ELSE IF ops = <<>> /\ ~home.known THEN "indeterminate"
     ELSE CheckPath2(policy, IF ops = <<>> THEN JoinText(home.t) ELSE ops[1], "read", st)
CheckOperands(policy, name, ops, elevated, st) ==
  CASE name \in {"echo", "read"} -> "allowed"
    [] name = "cat" -> CheckPaths(policy, ops, "read", st)
    [] name = "tee" -> IF ~policy.writable THEN "denied" ELSE CombineCheckStatus(IF policy.remote THEN "indeterminate" ELSE "allowed", CheckPaths(policy, ops, "write", st))
    [] name = "cd" -> CheckCd(policy, ops, st)
    [] name = "xargs" -> CombineCheckStatus("indeterminate", CommandPolicy(policy, IF ops = <<>> THEN "echo" ELSE ops[1], elevated, st.pipeline))

(***************************************************************************)
(* The walk.  r has the state st, the entries and whether it has stopped.  *)
(***************************************************************************)
Limit(r) == [r EXCEPT !.stopped = TRUE]
\* add: no site above the limit
AddEntry(r, id, status) == IF Cardinality(r.entries) >= MaxCheckCommands THEN Limit(r) ELSE [r EXCEPT !.entries = @ \cup {[site |-> id, status |-> status]}]
WithState(r, st) == [r EXCEPT !.st = st]

RECURSIVE CheckStmt(_, _, _, _)
RECURSIVE CheckStmts(_, _, _, _)
CheckStmts(policy, stmts, r, depth) == IF stmts = <<>> THEN r ELSE CheckStmts(policy, Tail(stmts), CheckStmt(policy, stmts[1], r, depth), depth)

\* In a copy of the state.
Apart(policy, stmts, r, depth) == WithState(CheckStmts(policy, stmts, r, depth), r.st)
RedirectWords(redirs) == [i \in DOMAIN redirs |-> redirs[i].w]
\* $(<file) is a site of its own, of the command cat.
RECURSIVE CheckSubstitutions(_, _, _, _)
CheckFileRead(policy, c, r, depth) ==
  CheckSubstitutions(policy, RedirectWords(c.redirs), AddEntry(r, c.id, CombineCheckStatus(CommandPolicy(policy, "cat", FALSE, r.st.pipeline), CheckRedirects(policy, c.redirs, r.st))), depth + 1)
CheckSubstitutions(policy, ws, r, depth) ==
  FoldLeft(LAMBDA q, w : IF w.k # "sub" \/ q.stopped THEN q
                         ELSE IF CatShortcut(w.body) THEN CheckFileRead(policy, w.body[1], q, depth)
                         ELSE Apart(policy, w.body, q, depth + 1), IF depth > MaxCheckDepth THEN Limit(r) ELSE r, ws)

\* The words up to the first that cannot be expanded.
CollectFields(st, ws) == FoldLeft(LAMBDA a, w : IF ~a.known THEN a ELSE LET f == CkFields(st, w) IN CkValue(f.known, a.t \o f.t), CkValue(TRUE, <<>>), ws)
CheckAssigns(st, as) == FoldLeft(LAMBDA s, a : SetValue(s, a.x, CkLiteral(s, a.w)), st, as)
AssignStatus(st, as) == IF \A i \in DOMAIN as : CkLiteral(CheckAssigns(st, SubSeq(as, 1, i - 1)), as[i].w).known THEN "allowed" ELSE "indeterminate"

CheckCall(policy, c, r, depth) ==
  LET st == r.st
  IN  Once(CollectFields(st, c.args), LAMBDA f :
  LET elevated == f.t # <<>> /\ f.t[1] = "sudo"
      fields == IF elevated THEN Tail(f.t) ELSE f.t
      name == IF fields = <<>> THEN "" ELSE fields[1]
      named == CombineCheckStatus(IF f.known THEN "allowed" ELSE "indeterminate",
                 IF fields # <<>> THEN CommandPolicy(policy, name, elevated, st.pipeline) ELSE IF elevated /\ f.known THEN "denied" ELSE "allowed")
      after == CheckAssigns(st, c.assigns)
      rest == CombineCheckStatus(CombineCheckStatus(CheckRedirects(policy, c.redirs, st), AssignStatus(st, c.assigns)),
                IF f.known /\ fields # <<>> THEN CheckOperands(policy, name, Tail(fields), elevated, after) ELSE "allowed")
  IN  Once(IF named = "denied" THEN named ELSE CombineCheckStatus(named, rest), LAMBDA status :
  LET kept == IF fields = <<>> /\ f.known /\ status # "denied" THEN [st EXCEPT !.values = after.values] ELSE st
      added == WithState(AddEntry(r, c.id, status), kept)
      subs == CheckSubstitutions(policy, [i \in DOMAIN c.assigns |-> c.assigns[i].w] \o c.args \o RedirectWords(c.redirs), added, depth)
  IN
     IF Cardinality(r.entries) >= MaxCheckCommands THEN Limit(r)
     ELSE IF c.args # <<>> /\ status # "denied" THEN WithState(subs, ForgetCommandEffects(name, kept))
     ELSE subs))

\* Mutant: what only a second command may do is not forgotten.
CheckAndKeeps(policy, c, r, depth) ==
  LET a == CheckStmt(policy, c.left, r, depth + 1) IN Apart(policy, <<c.right>>, a, depth + 1)

CheckAnd(policy, c, r, depth) ==
  LET a == CheckStmt(policy, c.left, r, depth + 1)
      b == Apart(policy, <<c.right>>, a, depth + 1)
  IN WithState(b, Invalidate(b.st, c.right))

CheckPipe(policy, c, r, depth) ==
  LET stage == WithState(r, [r.st EXCEPT !.pipeline = TRUE])
  IN WithState(Apart(policy, <<c.right>>, Apart(policy, <<c.left>>, stage, depth + 1), depth + 1), r.st)

\* A branch or loop is checked with all of its own effects forgotten.
CheckBranchOrLoop(policy, c, r, depth) ==
  LET q == WithState(r, Invalidate(r.st, c)) IN Apart(policy, c.do, Apart(policy, c.cond, q, depth + 1), depth + 1)
CheckFor(policy, c, r, depth) ==
  LET q == WithState(r, Invalidate(r.st, c)) IN Apart(policy, c.do, CheckSubstitutions(policy, c.items, q, depth), depth + 1)

CheckStmt(policy, c, r, depth) ==
  Once(IF c.redirs = <<>> THEN r ELSE CheckSubstitutions(policy, RedirectWords(c.redirs), AddEntry(r, c.id, CheckRedirects(policy, c.redirs, r.st)), depth), LAMBDA q :
     IF r.stopped THEN r
     ELSE IF depth > MaxCheckDepth THEN Limit(r)
     ELSE CASE c.k = "call" -> CheckCall(policy, c, r, depth)
            [] c.k # "call" /\ q.stopped -> q
            [] c.k = "block" /\ ~q.stopped -> CheckStmts(policy, c.stmts, q, depth + 1)
            [] c.k = "subshell" /\ ~q.stopped -> Apart(policy, c.stmts, q, depth + 1)
            [] c.k = "pipe" /\ ~q.stopped -> CheckPipe(policy, c, q, depth)
            [] c.k = "and" /\ ~q.stopped -> CheckAnd(policy, c, q, depth)
            [] c.k \in {"if", "while"} /\ ~q.stopped -> CheckBranchOrLoop(policy, c, q, depth)
            [] c.k = "for" /\ ~q.stopped -> CheckFor(policy, c, q, depth))

(* What validateNode says of the redirects of a script that is not in       *)
(* remediation mode: a literal target is the null device, and a target does *)
(* not run commands.                                                        *)
RECURSIVE AllRedirects(_)
WordRedirects(ws) == UNION {IF ws[i].k = "sub" THEN UNION {AllRedirects(ws[i].body[n]) : n \in DOMAIN ws[i].body} ELSE {} : i \in DOMAIN ws}
AllRedirects(c) ==
  LET Of(stmts) == UNION {AllRedirects(stmts[i]) : i \in DOMAIN stmts}
  IN {c.redirs[i] : i \in DOMAIN c.redirs} \cup
     CASE c.k = "call" -> WordRedirects(c.args \o [i \in DOMAIN c.assigns |-> c.assigns[i].w] \o RedirectWords(c.redirs))
       [] c.k \in {"block", "subshell"} -> Of(c.stmts)
       [] c.k \in {"pipe", "and"} -> Of(<<c.left, c.right>>)
       [] c.k \in {"if", "while"} -> Of(c.cond \o c.do)
       [] c.k = "for" -> Of(c.do) \cup WordRedirects(c.items)
RedirectAllowed(rd, remediation) == rd.op = "in" \/ remediation \/ (rd.w.k = "lit" /\ rd.w.t = <<"null">>) \/ rd.w.k = "var"
Validated(policy, stmts) == \A i \in DOMAIN stmts : \A rd \in AllRedirects(stmts[i]) : RedirectAllowed(rd, policy.remediation)

CheckScriptPolicy(policy, stmts, env, dir) ==
  Once(CheckStmts(policy, stmts, [st |-> CkStart(env, dir), entries |-> {}, stopped |-> FALSE], 0), LAMBDA r :
  LET all == {e.status : e \in r.entries} \cup IF r.stopped THEN {"indeterminate"} ELSE {}
  IN
     IF ~Validated(policy, stmts) THEN [status |-> "denied", entries |-> {}]
     ELSE [status |-> FoldSet(CombineCheckStatus, "allowed", all), entries |-> r.entries])
RunEvents(policy, stmts, env, dir) == IF Validated(policy, stmts) THEN ExecStmts(policy, stmts, [env |-> env, dir |-> dir], FALSE).ev ELSE {}

(* A script that Check allows is refused nothing when it is run, whichever   *)
(* branches are taken, whatever read and the substitutions yield and whether *)
(* or not a command that may run succeeds.                                   *)
ApprovalHolds == call.tool = "check" =>
  (CheckScriptPolicy(call.policy, call.stmts, call.env, call.dir).status = "allowed" =>
     \A e \in RunEvents(call.policy, call.stmts, call.env, call.dir) : ~e.refused)

(* A command site that Check denies is refused each time a run reaches it:   *)
(* what is only possibly refused is reported as indeterminate.               *)
DenialHolds == call.tool = "check" =>
  LET denied == {e.site : e \in {f \in CheckScriptPolicy(call.policy, call.stmts, call.env, call.dir).entries : f.status = "denied"}}
  IN \A e \in RunEvents(call.policy, call.stmts, call.env, call.dir) : e.site \in denied => e.refused

\* What Check reports holds in every run: a script it allows is refused
\* nothing, and what it denies is refused whenever it is reached.
VerdictHolds ==
  /\ ApprovalHolds
  /\ DenialHolds

=============================================================================
