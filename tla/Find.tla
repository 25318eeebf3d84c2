-------------------------------- MODULE Find --------------------------------
(***************************************************************************)
(* find: the parser of its expressions, then the tests on one entry, then  *)
(* the walk over the tree, each with what it promises.                     *)
(***************************************************************************)
(***************************************************************************)
(* The expressions of find (builtins/find/expr.go): the parser.            *)
(*                                                                         *)
(* An expression is a leaf [k, v], [k |-> "not", x] or                     *)
(* [k |-> "and" | "or", l, r].                                           *)
(***************************************************************************)
EXTENDS Call, SequencesExt

CONSTANTS MaxExprDepth, MaxExprNodes,
          MaxExecBytes       \* MaxCommandLineBytes

-----------------------------------------------------------------------------
(* The parser.  st: pos, depth, nodes, maxDepth, minDepth.                   *)

BlockedPredicates == {"-delete", "-regex"}
PlainPredicates == {"-true", "-false", "-print", "-prune", "-quit", "-empty"}
CheckedPredicates == {"-type", "-size", "-mtime", "-mmin", "-perm"}
DepthOptions == {"-maxdepth", "-mindepth"}
ValuePredicates == {"-name", "-path", "-newer"} \cup CheckedPredicates

Syntax(why) == [ok |-> FALSE, why |-> why]
Parsed(e, st) == [ok |-> TRUE, e |-> e, st |-> st]
Leaf(k, v) == [k |-> k, v |-> v]
Peek(a, st) == IF st.pos > Len(a) THEN "" ELSE a[st.pos]
NextArg(st) == [st EXCEPT !.pos = @ + 1]
AddNode(st) == [st EXCEPT !.nodes = @ + 1]
Deeper(st) == [st EXCEPT !.depth = @ + 1]

\* The depth is that of the place, so it is given back behind the operand.
Shallower(e, st) == [st EXCEPT !.depth = @ - 1]

\* parseExecLikePredicate: the words up to ";"; "+" is special only right after "{}".
ParseExec(a, st, kind) ==
  LET ends == {i \in st.pos..Len(a) : a[i] = ";"}
      end == CHOOSE i \in ends : \A k \in ends : i <= k
      batch == \E i \in (st.pos + 1)..Len(a) : a[i] = "+" /\ a[i - 1] = "{}" /\ \A k \in ends : i < k
  IN  IF batch \/ ends = {} \/ end = st.pos THEN Syntax("exec")
      ELSE Parsed([k |-> kind, v |-> SubSeq(a, st.pos, end - 1)], [st EXCEPT !.pos = end + 1])

ParsePrimary(a, st0) ==
  LET st == AddNode(st0)
      tok == Peek(a, st)
      next == NextArg(st)
  IN  CASE st.pos > Len(a) -> Syntax("missing")
        [] st.nodes > MaxExprNodes -> Syntax("nodes")
        [] tok = "--help" -> Syntax("help")
        [] tok \in BlockedPredicates -> Syntax("blocked")
        [] tok \in PlainPredicates -> Parsed(Leaf(tok, ""), next)
        [] tok \in {"-exec", "-execdir"} -> ParseExec(a, next, tok)
        [] tok \notin ValuePredicates \cup DepthOptions -> Syntax("unknown")
        [] next.pos > Len(a) -> Syntax("missing")
        [] tok \in CheckedPredicates \cup DepthOptions /\ Peek(a, next) = "bad" -> Syntax("argument")
        [] tok = "-maxdepth" -> Parsed(Leaf("-true", ""), [NextArg(next) EXCEPT !.maxDepth = Peek(a, next)])
        [] tok = "-mindepth" -> Parsed(Leaf("-true", ""), [NextArg(next) EXCEPT !.minDepth = Peek(a, next)])
        [] OTHER -> Parsed(Leaf(tok, Peek(a, next)), NextArg(next))

RECURSIVE ParseOr(_, _), ParseAnd(_, _), ParseUnary(_, _), OrRest(_, _), AndRest(_, _)

ParseOr(a, st) == OrRest(a, ParseAnd(a, st))

OrRest(a, left) ==
  IF ~left.ok THEN left
  ELSE IF Peek(a, left.st) \notin {"-o", "-or"} THEN left
  ELSE LET st == AddNode(NextArg(left.st))
       IN  Once(ParseAnd(a, st), LAMBDA right :
           IF st.nodes > MaxExprNodes THEN Syntax("nodes") ELSE IF ~right.ok THEN right
           ELSE OrRest(a, Parsed([k |-> "or", l |-> left.e, r |-> right.e], right.st)))

ParseAnd(a, st) == AndRest(a, ParseUnary(a, st))

\* Two operands without an operator between them are joined by and.
AndRest(a, left) ==
  IF ~left.ok THEN left
  ELSE LET tok == Peek(a, left.st)
           st == AddNode(IF tok \in {"-a", "-and"} THEN NextArg(left.st) ELSE left.st)
       IN  Once(ParseUnary(a, st), LAMBDA right :
           IF tok \in {"", "-o", "-or", ")"} THEN left
           ELSE IF st.nodes > MaxExprNodes THEN Syntax("nodes") ELSE IF ~right.ok THEN right
           ELSE AndRest(a, Parsed([k |-> "and", l |-> left.e, r |-> right.e], right.st)))

ParseUnary(a, st) ==
  LET tok == Peek(a, st)
      in == Deeper(NextArg(st))
      group == ParseOr(a, in)
      operand == ParseUnary(a, AddNode(in))
  IN  CASE tok \in {"!", "-not"} ->
             IF in.depth > MaxExprDepth THEN Syntax("depth")
             ELSE IF in.nodes + 1 > MaxExprNodes THEN Syntax("nodes")
             ELSE IF ~operand.ok THEN operand
             ELSE Parsed([k |-> "not", x |-> operand.e], Shallower([k |-> "not"], operand.st))
        [] tok = "(" ->
             IF Peek(a, NextArg(st)) = ")" THEN Syntax("empty")
             ELSE IF in.depth > MaxExprDepth THEN Syntax("depth")
             ELSE IF ~group.ok THEN group
             ELSE IF Peek(a, group.st) # ")" THEN Syntax("paren")
             ELSE Parsed(group.e, NextArg(Shallower([k |-> "group"], group.st)))
        [] OTHER -> ParsePrimary(a, st)

StartOfParse == [pos |-> 1, depth |-> 0, nodes |-> 0, maxDepth |-> "", minDepth |-> ""]

ParseExpression(a) ==
  Once(ParseOr(a, StartOfParse), LAMBDA r : IF r.ok /\ r.st.pos <= Len(a) THEN Syntax("unexpected") ELSE r)

\* Whether the tokens form an expression at all.
RECURSIVE IsExpression(_)
IsExpression(s) ==
  \/ Len(s) = 1 /\ s[1] \in PlainPredicates
  \/ Len(s) > 1 /\ s[1] = "!" /\ IsExpression(Tail(s))
  \/ Len(s) > 2 /\ s[1] = "(" /\ s[Len(s)] = ")" /\ IsExpression(SubSeq(s, 2, Len(s) - 1))
  \/ \E i \in 1..(Len(s) - 1) : IsExpression(SubSeq(s, 1, i)) /\ IsExpression(SubSeq(s, i + 1, Len(s)))
  \/ \E i \in 2..(Len(s) - 1) : s[i] \in {"-o", "-a"} /\ IsExpression(SubSeq(s, 1, i - 1)) /\ IsExpression(SubSeq(s, i + 1, Len(s)))

\* Tokens are accepted exactly when they form an expression, up to the limits on nodes and
\* depth, however parentheses, negations and implied conjunctions are mixed.
ParserAccepts ==
  call.tool = "find tokens" =>
    LET r == ParseExpression(call.tokens)
    IN  IF r.ok THEN IsExpression(call.tokens) ELSE r.why \in {"nodes", "depth"} \/ ~IsExpression(call.tokens)

RECURSIVE Stripped(_), NodesOf(_), DepthOf(_), Largest(_)
Stripped(e) ==
  CASE e.k = "group" -> Stripped(e.x)
    [] e.k = "not" -> [k |-> "not", x |-> Stripped(e.x)]
    [] e.k \in {"and", "or"} -> [k |-> e.k, l |-> Stripped(e.l), r |-> Stripped(e.r)]
    [] OTHER -> e
NodesOf(e) == CASE e.k = "group" -> NodesOf(e.x) [] e.k = "not" -> 1 + NodesOf(e.x)
                [] e.k \in {"and", "or"} -> 1 + NodesOf(e.l) + NodesOf(e.r) [] OTHER -> 1
Largest(S) == CHOOSE n \in S : \A m \in S : m <= n
DepthOf(e) == CASE e.k \in {"group", "not"} -> 1 + DepthOf(e.x)
                [] e.k \in {"and", "or"} -> Largest({DepthOf(e.l), DepthOf(e.r)}) [] OTHER -> 0

\* The tokens written for an expression are read back as that expression, and it is refused
\* exactly when it has too many nodes or its groups and negations are nested too deeply.
ParserReadsBack ==
  call.tool = "find expression" =>
    LET r == ParseExpression(call.tokens)
    IN  IF NodesOf(call.e) <= MaxExprNodes /\ DepthOf(call.e) <= MaxExprDepth THEN r.ok /\ r.e = Stripped(call.e)
        ELSE ~r.ok

-----------------------------------------------------------------------------
(***************************************************************************)
(* The tests of find on one entry (builtins/find/match.go, eval.go): glob  *)
(* patterns, sizes, ages, permission modes, and the names -execdir uses.   *)
(* A character is its code.                                                *)
(***************************************************************************)
CONSTANTS FileSizeMax,   \* math.MaxInt64
          DurationMax,   \* the longest time.Duration
          Day, Minute, Second    \* in the unit of a duration

-----------------------------------------------------------------------------
(* Patterns: "*" 42, "?" 63, "[" 91, "\" 92, "]" 93, "^" 94, "!" 33, "-" 45.  *)

\* matchClass: whether the class at the front of p holds ch, and its length; 0 for a bracket
\* that is not closed, -1 for a range without an end.
RECURSIVE ClassFrom(_, _, _, _, _, _)
ClassFrom(p, ch, i, negate, matched, first) ==
  LET EscapedAt(k) == p[k] = 92 /\ k < Len(p)
      After(k) == IF EscapedAt(k) THEN k + 2 ELSE k + 1
      CharAt(k) == IF EscapedAt(k) THEN p[k + 1] ELSE p[k]
      j == After(i)
      ranged == j < Len(p) /\ p[j] = 45 /\ p[j + 1] # 93
      hi == IF ranged THEN CharAt(j + 1) ELSE CharAt(i)
  IN  CASE i > Len(p) -> [matched |-> FALSE, width |-> 0]
        [] p[i] = 93 /\ ~first -> [matched |-> (matched # negate), width |-> i]
        [] ~ranged /\ j = Len(p) /\ p[j] = 45 -> [matched |-> FALSE, width |-> -1]
        [] OTHER -> ClassFrom(p, ch, IF ranged THEN After(j + 1) ELSE j, negate,
                              matched \/ (CharAt(i) <= ch /\ ch <= hi), FALSE)

MatchClass(p, ch) ==
  IF Len(p) < 2 THEN [matched |-> FALSE, width |-> 0]
  ELSE IF p[2] \in {94, 33} THEN ClassFrom(p, ch, 3, TRUE, FALSE, TRUE) ELSE ClassFrom(p, ch, 2, FALSE, FALSE, TRUE)

\* After a mismatch the last star takes one more character, as long as there is one.
Retry(star, m) == star.active /\ star.nx <= m.len

\* pathGlobMatch: one pass with a single place to come back to.
RECURSIVE GlobFrom(_, _, _, _, _)
GlobFrom(p, n, px, nx, star) ==
  LET here == IF px <= Len(p) THEN p[px] ELSE 0
      more == nx <= Len(n)
      class == IF here = 91 /\ more THEN MatchClass(SubSeq(p, px, Len(p)), n[nx]) ELSE [matched |-> FALSE, width |-> 0]
      lit == IF here = 92 THEN px + 1 ELSE px
      \* How far the pattern goes on for one character of the name; 0 when it does not match.
      step == CASE here \in {0, 42} \/ ~more -> 0
                [] here = 63 -> 1
                [] here = 91 /\ class.matched -> class.width
                [] here = 91 -> IF class.width = 0 /\ n[nx] = 91 THEN 1 ELSE 0
                [] OTHER -> IF lit <= Len(p) /\ p[lit] = n[nx] THEN lit + 1 - px ELSE 0
  IN  CASE px > Len(p) /\ ~more -> TRUE
        [] here = 42 -> GlobFrom(p, n, px + 1, nx, [active |-> TRUE, px |-> px, nx |-> nx + 1])
        [] step > 0 -> GlobFrom(p, n, px + step, nx + 1, star)
        [] here = 91 /\ more /\ class.width = -1 -> FALSE
        [] Retry(star, [nx |-> nx, len |-> Len(n) + 1]) -> GlobFrom(p, n, star.px + 1, star.nx, [star EXCEPT !.nx = @ + 1])
        [] OTHER -> FALSE

PathGlobMatch(p, n) == GlobFrom(p, n, 1, 1, [active |-> FALSE, px |-> 0, nx |-> 0])

\* The same question of the parts the pattern was written from: a star, any character, a set
\* of characters, or a character.
RECURSIVE PartsMatch(_, _)
PartsMatch(parts, n) ==
  IF parts = <<>> THEN n = <<>>
  ELSE CASE Head(parts).k = "star" -> \E i \in 1..(Len(n) + 1) : PartsMatch(Tail(parts), SubSeq(n, i, Len(n)))
         [] n = <<>> -> FALSE
         [] Head(parts).k = "any" -> PartsMatch(Tail(parts), Tail(n))
         [] Head(parts).k = "class" -> (Head(n) \in Head(parts).set) # Head(parts).negate /\ PartsMatch(Tail(parts), Tail(n))
         [] OTHER -> Head(n) = Head(parts).c /\ PartsMatch(Tail(parts), Tail(n))

\* The matcher, which goes back to the last star only, matches exactly the names the parts of
\* the pattern describe: classes with ranges, negation, an escaped or leading bracket included.
GlobAgrees == call.tool = "find glob" => PathGlobMatch(call.text, call.name) = PartsMatch(call.parts, call.name)

-----------------------------------------------------------------------------
(* Sizes and ages.                                                            *)

FitsSum(size, block) == size <= FileSizeMax - block + 1
Wrapped(n) == IF n > FileSizeMax THEN n - 2 * (FileSizeMax + 1) ELSE n

FileBlocks(size, block) ==
  CASE size <= 0 -> 0
    [] block = 1 -> size
    [] FitsSum(size, block) -> Wrapped(size + block - 1) \div block
    [] OTHER -> size \div block + 1

CompareSize(size, block, cmp, n) ==
  CASE cmp = "+" -> FileBlocks(size, block) > n [] cmp = "-" -> FileBlocks(size, block) < n [] OTHER -> FileBlocks(size, block) = n

\* -size counts the blocks a file needs, also where adding a block would overflow.
SizeInBlocks ==
  call.tool = "find size" =>
    LET needed == CHOOSE k \in 0..call.size : k * call.block >= call.size /\ \A i \in 0..(k - 1) : i * call.block < call.size
    IN  /\ CompareSize(call.size, call.block, "=", call.n) = (needed = call.n)
        /\ CompareSize(call.size, call.block, "+", call.n) = (needed > call.n)
        /\ CompareSize(call.size, call.block, "-", call.n) = (needed < call.n)

MaxMtimeN == DurationMax \div Day - 1

BeyondMtime(n) == n > MaxMtimeN
Overflowed(d) == IF d > DurationMax THEN d - 2 * (DurationMax + 1) ELSE d

\* now is cut to a second for +N and -N, as find does.
EvalMtime(now, mod, n, cmp) ==
  LET age == now - (now % Second) - mod
  IN  CASE cmp = "+" -> ~BeyondMtime(n) /\ age >= Overflowed((n + 1) * Day)
        [] cmp = "-" -> BeyondMtime(n) \/ age < Overflowed(n * Day)
        [] OTHER -> (now - mod) \div Day = n

EvalMmin(now, mod, n, cmp) ==
  LET age == now - mod
      beyond == n > DurationMax \div Minute
  IN  CASE cmp = "+" -> ~beyond /\ age > Overflowed(n * Minute)
        [] cmp = "-" -> beyond \/ age < Overflowed(n * Minute)
        [] OTHER -> -((-age) \div Minute) = n

\* For ages below the last whole day a duration holds: a file is older than N days exactly when
\* it is not younger than N + 1, one older than N + 1 days is older than N, also for an N whose
\* threshold does not fit a duration, and an exact N never holds together with an older one.  In minutes,
\* the three exclude each other the same way and one more minute never makes a file younger.
AgesAgree ==
  call.tool = "find age" =>
    /\ EvalMtime(call.now, call.mod, call.n, "+") = ~EvalMtime(call.now, call.mod, call.n + 1, "-")
    /\ EvalMtime(call.now, call.mod, call.n + 1, "+") => EvalMtime(call.now, call.mod, call.n, "+")
    /\ ~(EvalMtime(call.now, call.mod, call.n, "+") /\ EvalMtime(call.now, call.mod, call.n, "="))
    /\ EvalMmin(call.now, call.mod, call.n, "+") => ~EvalMmin(call.now, call.mod, call.n, "-") /\ ~EvalMmin(call.now, call.mod, call.n, "=")
    /\ EvalMmin(call.now, call.mod, call.n, "=") => EvalMmin(call.now, call.mod, call.n + 1, "-")

-----------------------------------------------------------------------------
(* Modes.  A mode is a set of bits <<class, perm>>: classes "u", "g", "o"     *)
(* with "r", "w", "x", and <<"u", "s">>, <<"g", "s">>, <<"o", "t">>.          *)

Classes == {"u", "g", "o"}
ClassBits(c) == {<<c, p>> : p \in {"r", "w", "x"}}
SpecialBits(who) == {b \in {<<"u", "s">>, <<"g", "s">>, <<"o", "t">>} : b[1] \in who}

Cleared(who) == UNION {ClassBits(c) : c \in who} \cup SpecialBits(who)

\* parseSymbolicMode: one clause [who, op, perms] applied to the mode built so far; perms is a
\* set of letters or a class to copy from.
ApplyClause(mode, clause) ==
  LET who == IF clause.who = {} THEN Classes ELSE clause.who
      copied == {b[2] : b \in {b \in mode : b[1] = clause.copy /\ b[2] \in {"r", "w", "x"}}}
      letters == IF clause.copy # "" THEN copied
                 ELSE (clause.perms \ {"X"}) \cup (IF "X" \in clause.perms /\ \E b \in mode : b[2] = "x" THEN {"x"} ELSE {})
      bits == {b \in UNION {ClassBits(c) : c \in who} \cup SpecialBits(who) : b[2] \in letters}
  IN  CASE clause.op = "=" -> (mode \ Cleared(who)) \cup bits
        [] clause.op = "+" -> mode \cup bits
        [] OTHER -> mode \ bits

ParseSymbolicMode(clauses) == FoldLeft(ApplyClause, {}, clauses)

\* A bit of the mode is what the last clause that names it says.
LastClauseRules ==
  call.tool = "find mode" =>
    \A b \in Cleared(Classes) \cup SpecialBits(Classes) :
      LET Who(c) == IF c.who = {} THEN Classes ELSE c.who
          names == {i \in DOMAIN call.clauses : b[1] \in Who(call.clauses[i])
                                                /\ (call.clauses[i].op = "=" \/ b[2] \in call.clauses[i].perms)}
          last == CHOOSE i \in names : \A k \in names : k <= i
      IN  (b \in ParseSymbolicMode(call.clauses))
            <=> (names # {} /\ call.clauses[last].op # "-" /\ b[2] \in call.clauses[last].perms)

-----------------------------------------------------------------------------
(* The names -execdir uses.  A path is a sequence of characters.              *)

RECURSIVE TrimSlashes(_)
TrimSlashes(p) == IF Len(p) > 1 /\ p[Len(p)] = "/" THEN TrimSlashes(Front(p)) ELSE p

Slashes(p) == {i \in DOMAIN p : p[i] = "/"}
LastSlash(p) == CHOOSE i \in Slashes(p) \cup {0} : \A k \in Slashes(p) : k <= i

BaseName(path) ==
  LET p == TrimSlashes(path) IN IF LastSlash(p) = Len(p) THEN <<"/">> ELSE SubSeq(p, LastSlash(p) + 1, Len(p))

JoinPath(dir, name) == IF dir = <<>> THEN name ELSE IF dir[Len(dir)] = "/" THEN dir \o name ELSE dir \o <<"/">> \o name

RECURSIVE Components(_)
Components(p) ==
  LET cut == Slashes(p)
      end == IF cut = {} THEN Len(p) + 1 ELSE CHOOSE i \in cut : \A k \in cut : i <= k
  IN  IF p = <<>> THEN <<>>
      ELSE (IF end = 1 THEN <<>> ELSE <<SubSeq(p, 1, end - 1)>>) \o Components(SubSeq(p, end + 1, Len(p)))

\* filepath.Clean of an absolute path, by its names only.
CleanPath(comps) ==
  FoldLeft(LAMBDA done, c : IF c = <<".">> THEN done ELSE IF c # <<".", ".">> THEN Append(done, c)
                            ELSE IF done = <<>> THEN done ELSE Front(done), <<>>, comps)

ExecDirParentDir(abs) == LET p == TrimSlashes(abs) IN CleanPath(Components(SubSeq(p, 1, LastSlash(p))))

ExecDirReplacement(path) ==
  IF BaseName(path) = <<"/">> THEN <<"/">>
  ELSE <<".", "/">> \o BaseName(path) \o (IF path[Len(path)] = "/" THEN <<"/">> ELSE <<>>)

AbsPath(path) == IF path[1] = "/" THEN path ELSE JoinPath(call.workDir, path)

\* Where a path leads from a directory when links are followed; the last name only when a
\* slash follows it.
RECURSIVE Locate(_, _, _)
Locate(dir, comps, slash) ==
  IF comps = <<>> THEN dir
  ELSE LET c == Head(comps)
           there == Append(dir, c)
           next == CASE c = <<".">> -> dir
                     [] c = <<".", ".">> -> IF dir = <<>> THEN dir ELSE Front(dir)
                     [] there \in DOMAIN call.links /\ (Len(comps) > 1 \/ slash) -> call.links[there]
                     [] OTHER -> there
       IN  Locate(next, Tail(comps), slash)
Lead(dir, path) == Locate(IF path[1] = "/" THEN <<>> ELSE dir, Components(path), path[Len(path)] = "/")

\* The command of -execdir, run in the directory and with the name find gives it, is about the
\* entry that was found.
ExecDirFindsEntry ==
  call.tool = "find execdir" =>
    Lead(ExecDirParentDir(AbsPath(call.path)), ExecDirReplacement(call.path)) = Lead(<<>>, AbsPath(call.path))

-----------------------------------------------------------------------------
(***************************************************************************)
(* The walk of find (builtins/find/find.go, eval.go): a stack of open      *)
(* directories read one entry at a time, while entries may disappear and   *)
(* the call may be cancelled.                                              *)
(*                                                                         *)
(* call: starts, follow (-L), maxDepth, minDepth, e (the expression),      *)
(* kind, kids, target (the tree: "dir", "file" or "link" for each node,    *)
(* the entries of a directory in order or what a file holds, where a link  *)
(* leads), closed (directories that cannot be opened), torn (that cannot   *)
(* be read to the end), denied (nodes that cannot be examined), noId       *)
(* (nodes without an identity), vanish, cancels, fate (how a command for a *)
(* node ends) and allowed (the commands).  A path is the nodes from a      *)
(* starting point; a node is newer than the ones with smaller numbers.     *)
(***************************************************************************)
CONSTANT MaxTraversalDepth

ClampDepth(n) == IF n > MaxTraversalDepth THEN MaxTraversalDepth ELSE n
NodeOf(path) == path[Len(path)]

-----------------------------------------------------------------------------
(* One entry.  ec: path, info, and what the expression has done so far: out,  *)
(* execs, failed, newer (the references found or not).                        *)

\* Lstat, and Stat with its way back to Lstat for a link that leads nowhere.
Lstat(n) == IF n \in run.gone \cup call.denied THEN [err |-> TRUE] ELSE [err |-> FALSE, node |-> n, kind |-> call.kind[n]]

StatEntry(n) ==
  LET t == call.target[n]
  IN  IF Lstat(n).err \/ ~call.follow \/ call.kind[n] # "link" \/ t \in run.gone THEN Lstat(n) ELSE Lstat(t)

\* The text of a path: the names with slashes between them.
NameOf(n) == <<"a", "b", "c", "d", "e">>[n]
PathText(path) == [i \in 1..(2 * Len(path) - 1) |-> IF i % 2 = 1 THEN NameOf(path[(i + 1) \div 2]) ELSE "/"]

Outcome(ec, matched) == [matched |-> matched, prune |-> FALSE, quit |-> FALSE, ec |-> ec]
Replacement(k, path) == IF k = "-exec" THEN PathText(path) ELSE <<".", "/", NameOf(NodeOf(path))>>

ExecLine(e, path) == [i \in DOMAIN e.v |-> Substitute(e.v[i], <<"{}">>, Replacement(e.k, path))]

ExecFits(e, text) == ~AddLine(NewBudget(MaxExecBytes), e.v, <<"{}">>, text).exceeded

\* evalExecLike; the words hold {} as one character.
EvalExec(ec, e) ==
  LET text == Replacement(e.k, ec.path)
      line == ExecLine(e, ec.path)
      fate == call.fate[NodeOf(ec.path)]
  IN  IF ~ExecFits(e, text) \/ line[1] \notin call.allowed
      THEN Outcome([ec EXCEPT !.failed = TRUE], FALSE)
      ELSE Outcome([ec EXCEPT !.execs = Append(@, line), !.failed = @ \/ fate = "broken"], fate = "0")

\* evalNewer: the reference is examined once for a walk.
EvalNewer(ec, ref) ==
  LET info == StatEntry(ref)
      known == IF ec.newer # "unknown" THEN ec.newer ELSE IF info.err THEN "missing" ELSE "found"
      than == IF ec.newer = "found" THEN ec.than ELSE info.node
  IN  IF known = "missing" THEN Outcome([ec EXCEPT !.newer = known], FALSE)
      ELSE Outcome([ec EXCEPT !.newer = known, !.than = than], ec.info.node > than)

EvalEmpty(ec) ==
  LET n == ec.info.node
      fails == ec.info.kind = "dir" /\ n \in call.closed \cup run.gone
  IN  Outcome([ec EXCEPT !.failed = @ \/ fails], ec.info.kind \in {"dir", "file"} /\ ~fails /\ Range(call.kids[n]) \subseteq run.gone)

\* A pattern that a cancelled call may have left half matched stops the walk.
GlobResult(ec, matched) ==
  IF run.cancelled THEN [Outcome([ec EXCEPT !.failed = TRUE], FALSE) EXCEPT !.quit = TRUE]
  ELSE Outcome(ec, matched)

Prunes(left, right) == left.prune \/ right.prune

Negated(v) == [v EXCEPT !.matched = ~@]

RECURSIVE Evaluate(_, _)
Evaluate(ec, e) ==
  LET left == Evaluate(ec, e.l)
      right == Evaluate(left.ec, e.r)
      operand == Evaluate(ec, e.x)
      \* and goes on after a match, or after none.
      Pair(on) == CASE left.quit -> left
                    [] left.matched # on -> left
                    [] OTHER -> [right EXCEPT !.prune = Prunes(left, right)]
  IN  CASE e.k = "and" -> Pair(TRUE)
        [] e.k = "or" -> Pair(FALSE)
        [] e.k = "not" -> Negated(operand)
        [] e.k = "-name" -> GlobResult(ec, NodeOf(ec.path) = e.v)
        [] e.k = "-type" -> Outcome(ec, ec.info.kind = e.v)
        [] e.k = "-empty" -> EvalEmpty(ec)
        [] e.k = "-newer" -> EvalNewer(ec, e.v)
        [] e.k \in {"-exec", "-execdir"} -> EvalExec(ec, e)
        [] e.k = "-quit" -> [Outcome(ec, TRUE) EXCEPT !.quit = TRUE]
        [] e.k = "-print" -> [Outcome(ec, TRUE) EXCEPT !.ec.out = Append(@, ec.path)]
        [] e.k = "-prune" -> [Outcome(ec, TRUE) EXCEPT !.prune = TRUE]
        [] OTHER -> Outcome(ec, e.k = "-true")

RECURSIVE LeavesOf(_)
LeavesOf(e) == CASE e.k \in {"and", "or"} -> LeavesOf(e.l) \cup LeavesOf(e.r) [] e.k = "not" -> LeavesOf(e.x) [] OTHER -> {e}

ImplicitPrint == ~\E l \in LeavesOf(call.e) : l.k \in {"-print", "-exec", "-execdir"}

\* processEntry.
ProcessEntry(path, info, depth, r) ==
  LET ec == [path |-> path, info |-> info, out |-> r.out, execs |-> r.execs, failed |-> FALSE, newer |-> r.newer, than |-> r.than]
  IN  Once(Evaluate(ec, call.e), LAMBDA v :
  LET fails == v.ec.failed \/ v.ec.newer = "missing"
      seen == [r EXCEPT !.seen = Append(@, path)]
  IN  IF depth < call.minDepth THEN [prune |-> FALSE, quit |-> FALSE, r |-> seen]
      ELSE [prune |-> v.prune, quit |-> v.quit,
            r |-> [seen EXCEPT !.newer = v.ec.newer, !.than = v.ec.than, !.execs = v.ec.execs, !.failed = @ \/ fails, !.met = @ \/ fails,
                               !.out = IF v.matched /\ ~v.quit /\ ImplicitPrint THEN Append(v.ec.out, path) ELSE v.ec.out]])

-----------------------------------------------------------------------------
(* The walk.  run: next (the starting point), stack (the open directories),   *)
(* now (the entry in hand), newer, than, out, execs, seen, failed (of this    *)
(* starting point), any (of all), met (an error was shown), opened, closed.   *)

\* Mutant: a directory is not one of those above its own entries.
CheckLoopLate(path, info, frame) ==
  IF ~(info.kind = "dir" /\ call.follow) THEN [loop |-> FALSE, ids |-> {}, paths |-> {}]
  ELSE IF info.node \notin call.noId THEN [loop |-> info.node \in frame.ids, ids |-> frame.ids, paths |-> {}]
  ELSE [loop |-> path \in frame.paths, ids |-> {}, paths |-> frame.paths]

\* checkLoop: the directories above an entry, by identity or, without one, by path.
CheckLoop(path, info, frame) ==
  IF ~(info.kind = "dir" /\ call.follow) THEN [loop |-> FALSE, ids |-> {}, paths |-> {}]
  ELSE IF info.node \notin call.noId THEN [loop |-> info.node \in frame.ids, ids |-> frame.ids \cup {info.node}, paths |-> {}]
  ELSE [loop |-> path \in frame.paths, ids |-> {}, paths |-> frame.paths \cup {path}]

FindInit ==
  run = [pc |-> "check", next |-> 1, stack |-> <<>>, now |-> <<>>, gone |-> {}, cancelled |-> FALSE, quit |-> FALSE, failed |-> FALSE,
         any |-> FALSE, met |-> FALSE, newer |-> "unknown", than |-> 0, out |-> <<>>, execs |-> <<>>, seen |-> <<>>,
         opened |-> 0, closed |-> 0, code |-> 0]

\* Commands and references are checked before the walk.
CheckArguments ==
  /\ run.pc = "check"
  /\ LET refused == \E l \in LeavesOf(call.e) : l.k \in {"-exec", "-execdir"} /\ "{}" \notin Range(l.v[1]) /\ l.v[1] \notin call.allowed
         missing == \E l \in LeavesOf(call.e) : l.k = "-newer" /\ StatEntry(l.v).err
     IN  run' = IF refused \/ missing THEN [run EXCEPT !.pc = "done", !.code = 1, !.met = TRUE] ELSE [run EXCEPT !.pc = "start"]

MaxDepthUsed == ClampDepth(call.maxDepth)
Shown(r) == [r EXCEPT !.failed = TRUE, !.met = TRUE]
EndFind(r) == [r EXCEPT !.pc = "done", !.code = IF r.any THEN 1 ELSE 0]

NextStart ==
  /\ run.pc = "start"
  /\ run' = IF run.next > Len(call.starts) THEN EndFind(run)
            ELSE IF run.cancelled THEN EndFind([run EXCEPT !.any = TRUE])
            ELSE [run EXCEPT !.pc = "stat", !.next = @ + 1, !.failed = FALSE, !.newer = "unknown", !.now = <<call.starts[run.next]>>]

Top == run.stack[Len(run.stack)]
Descends(prune, depth) == ~prune /\ depth < MaxDepthUsed
Here == IF run.stack = <<>> THEN [depth |-> 0, ids |-> {}, paths |-> {}] ELSE Top
Advanced(r) == [r EXCEPT !.stack[Len(r.stack)].at = @ + 1]
Popped(r) == [r EXCEPT !.stack = Front(@), !.closed = @ + 1]

CloseAll(r) == [r EXCEPT !.closed = @ + Len(r.stack), !.stack = <<>>]
Ended(r) == [CloseAll(r) EXCEPT !.pc = "after"]

\* The next entry of the directory on top; one that is gone may still be read.
ReadEntry ==
  /\ run.pc = "walk" /\ run.stack # <<>> /\ ~run.cancelled
  /\ LET kids == call.kids[Top.node]
     IN  IF Top.at > Len(kids) THEN run' = Popped(IF Top.node \in call.torn THEN Shown(run) ELSE run)
         ELSE \/ run' = [Advanced(run) EXCEPT !.pc = "stat", !.now = Append(Top.path, kids[Top.at])]
              \/ kids[Top.at] \in run.gone /\ run' = Advanced(run)

\* Stat and the expression, for a starting point or an entry.
StatAndEvaluate ==
  /\ run.pc = "stat"
  /\ LET info == StatEntry(NodeOf(run.now))
         loop == CheckLoop(run.now, info, Here).loop
         back == [run EXCEPT !.pc = "walk"]
         p == ProcessEntry(run.now, info, Here.depth, run)
     IN  IF info.err THEN run' = Shown(back)
         ELSE IF loop THEN run' = Shown(back)
         ELSE IF p.quit THEN run' = [Ended(p.r) EXCEPT !.quit = TRUE]
         ELSE run' = [p.r EXCEPT !.pc = IF info.kind = "dir" /\ Descends(p.prune, Here.depth) THEN "open" ELSE "walk"]

\* The directory that was evaluated is opened; it may be gone by now.
OpenEntry ==
  /\ run.pc = "open"
  /\ LET n == NodeOf(run.now)
         node == IF call.follow /\ call.kind[n] = "link" THEN call.target[n] ELSE n
         known == CheckLoop(run.now, [kind |-> "dir", node |-> node], Here)
         frame == [path |-> run.now, node |-> node, depth |-> Here.depth + 1, at |-> 1, ids |-> known.ids, paths |-> known.paths]
     IN  run' = IF {n, node} \cap (run.gone \cup call.closed) # {} THEN Shown([run EXCEPT !.pc = "walk"])
                ELSE [run EXCEPT !.pc = "walk", !.opened = @ + 1, !.stack = Append(@, frame)]

WalkDone ==
  /\ run.pc = "walk" /\ (run.stack = <<>> \/ run.cancelled)
  /\ run' = Ended([run EXCEPT !.failed = @ \/ run.stack # <<>>])

FailedAny(any, failed) == any \/ failed

AfterWalk ==
  /\ run.pc = "after"
  /\ LET r == [run EXCEPT !.any = FailedAny(@, run.failed)]
     IN  run' = IF run.quit THEN EndFind(r) ELSE [r EXCEPT !.pc = "start"]

VanishEntry == run.pc # "done" /\ \E n \in call.vanish \ run.gone : run' = [run EXCEPT !.gone = @ \cup {n}]
CancelFind == run.pc # "done" /\ call.cancels /\ ~run.cancelled /\ run' = [run EXCEPT !.cancelled = TRUE]

FindStep ==
  /\ call.tool = "find"
  /\ CheckArguments \/ NextStart \/ ReadEntry \/ StatAndEvaluate \/ OpenEntry \/ WalkDone \/ AfterWalk \/ VanishEntry \/ CancelFind

-----------------------------------------------------------------------------
(* Properties.                                                               *)

Walking == call.tool = "find"

\* Where an entry on a path leads.
Lands(n) == IF call.follow /\ call.kind[n] = "link" THEN call.target[n] ELSE n

LineBytes(line) == FoldFunction(LAMBDA w, n : Len(w) + 1 + n, 0, line)
CanRun(line) == line[1] \in call.allowed /\ LineBytes(line) <= MaxExecBytes

\* The value of an expression at a path, by its own rules: leaves that are reached.
RECURSIVE ValueAt(_, _)
ValueAt(e, path) ==
  CASE e.k = "and" -> ValueAt(e.l, path) /\ ValueAt(e.r, path)
    [] e.k = "or" -> ValueAt(e.l, path) \/ ValueAt(e.r, path)
    [] e.k = "not" -> ~ValueAt(e.x, path)
    [] e.k = "-name" -> NodeOf(path) = e.v
    [] e.k = "-type" -> call.kind[Lands(NodeOf(path))] = e.v
    [] e.k = "-empty" -> LET n == Lands(NodeOf(path)) IN call.kind[n] # "link" /\ call.kids[n] = <<>> /\ n \notin call.closed
    [] e.k = "-newer" -> Lands(NodeOf(path)) > Lands(e.v)
    [] e.k \in {"-exec", "-execdir"} -> call.fate[NodeOf(path)] = "0" /\ CanRun(ExecLine(e, path))
    [] OTHER -> e.k # "-false"
RECURSIVE Reaches(_, _, _)
Reaches(e, k, path) ==
  CASE e.k = "and" -> Reaches(e.l, k, path) \/ (ValueAt(e.l, path) /\ Reaches(e.r, k, path))
    [] e.k = "or" -> Reaches(e.l, k, path) \/ (~ValueAt(e.l, path) /\ Reaches(e.r, k, path))
    [] e.k = "not" -> Reaches(e.x, k, path)
    [] OTHER -> e.k = k
\* The entries below a path, those of pruned directories and of loops left out.
RECURSIVE Below(_, _, _)
Below(path, above, depth) ==
  LET here == Lands(NodeOf(path))
      pruned == depth >= call.minDepth /\ Reaches(call.e, "-prune", path)
  IN  {path} \cup IF call.kind[here] # "dir" \/ pruned \/ depth >= MaxDepthUsed THEN {}
                  ELSE UNION {IF call.follow /\ call.kind[Lands(n)] = "dir" /\ Lands(n) \in above \cup {here}
                              THEN IF Lands(n) \in call.vanish THEN {Append(path, n)} ELSE {}
                              ELSE Below(Append(path, n), above \cup {here}, depth + 1) : n \in Range(call.kids[here])}
Expected == UNION {Below(<<n>>, {}, 0) : n \in Range(call.starts)}
Prints(path) == Len(path) > call.minDepth /\ (IF ImplicitPrint THEN ValueAt(call.e, path) ELSE Reaches(call.e, "-print", path))

\* find visits entries of the tree within the depth and outside pruned directories only, each
\* once, and when nothing was wrong and nothing stopped it, all of them.
VisitsOnce ==
  Walking /\ call.noId = {} =>
    /\ Range(run.seen) \subseteq Expected
    /\ \A i, k \in DOMAIN run.seen : run.seen[i] = run.seen[k] /\ i # k => \E m, n \in DOMAIN call.starts : m # n /\ call.starts[m] = call.starts[n]
    /\ run.pc = "done" /\ run.code = 0 /\ ~run.quit /\ run.gone = {} => Range(run.seen) = Expected

\* What is printed is what the expression, by the meaning of its operators, prints for the
\* entries that were visited.
PrintsMatches ==
  Walking /\ run.gone = {} /\ ~run.cancelled /\ (\A l \in LeavesOf(call.e) : l.k # "-quit") =>
    run.out = SelectSeq(run.seen, Prints)

\* An error that was shown is in the status, whichever starting point it belongs to.
ErrorsReachStatus == Walking /\ run.pc = "done" => (run.met => run.code = 1) /\ (run.code = 1 => run.met \/ run.cancelled)

\* Every directory that is open is on the stack, so at most one for each level is open, and
\* after the walk none is; an entry that is visited is never deeper than the limit, loops that
\* go through directories without an identity included.
HandlesBounded ==
  Walking => /\ run.opened - run.closed = Len(run.stack)
             /\ Len(run.stack) <= MaxDepthUsed
             /\ \A i \in DOMAIN run.seen : Len(run.seen[i]) <= MaxDepthUsed + 1
             /\ run.pc = "done" => run.stack = <<>>

\* No command line of -exec is longer than the limit on the lines find builds.
ExecBounded ==
  Walking => \A i \in DOMAIN run.execs :
    LineBytes(run.execs[i]) <= MaxExecBytes

\* find reads an expression as it was written, visits every entry it should
\* once, and prints what the expression means for it, its tests included; what
\* failed is in the status, and no directory and no command line is beyond its
\* limit.
FindTrue ==
  /\ ParserAccepts
  /\ ParserReadsBack
  /\ GlobAgrees
  /\ SizeInBlocks
  /\ AgesAgree
  /\ LastClauseRules
  /\ ExecDirFindsEntry
  /\ ExecBounded
  /\ PrintsMatches
  /\ VisitsOnce
  /\ ErrorsReachStatus
  /\ HandlesBounded

=============================================================================
