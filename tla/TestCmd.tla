------------------------------ MODULE TestCmd ------------------------------
(***************************************************************************)
(* The builtins test and [: an expression is read from the arguments and   *)
(* evaluated as it is read.  Whether a word is an operator or an operand   *)
(* depends on how many words its subexpression has.                        *)
(***************************************************************************)
EXTENDS Call, SequencesExt

CONSTANTS MaxParenDepth   \* of nested groups and negations

\* The files the cases know, by the time of their last change, and numbers.
FileTime == [x |-> 1, y |-> 2]
HasFile(w) == w \in DOMAIN FileTime
IntOf(w) == IF w = "1" THEN 1 ELSE IF w = "2" THEN 2 ELSE 0
IsInt(w) == w \in {"1", "2"}

Logical == {"-a", "-o"}
Comparisons == {"=", "!=", "-lt", "-nt"}
UnaryFileOps == {"-a", "-f", "-L"}
IsBinaryOp(w) == w \in Comparisons
IsBinaryOpOrLogical(w) == IsBinaryOp(w) \/ w \in Logical

(***************************************************************************)
(* The parser.  p.value is what was read last; p.start and p.end are the   *)
(* bounds of the subexpression, the first place and the one after its last.*)
(***************************************************************************)
TestParser(args) == [args |-> args, pos |-> 1, err |-> FALSE, depth |-> 0, start |-> 1, end |-> Len(args) + 1, value |-> FALSE]
Left(p) == p.pos <= Len(p.args)
Cur(p) == p.args[p.pos]
SubLen(p) == p.end - p.start
FailTest(p) == [p EXCEPT !.err = TRUE, !.value = FALSE]
Took(p, n, v) == [p EXCEPT !.pos = p.pos + n, !.value = v]

\* the place of the ")" that closes the group from here, or the end
\* Mutant: the first ")" closes the group.
FindMatchingParenFirst(args, from) ==
  LET at == {i \in from .. Len(args) : args[i] = ")"} IN IF at = {} THEN Len(args) + 1 ELSE CHOOSE i \in at : \A k \in at : i <= k
FindMatchingParen(args, from) ==
  LET depth(i) == 1 + Len(SelectSeq(SubSeq(args, from, i), LAMBDA w : w = "(")) - Len(SelectSeq(SubSeq(args, from, i), LAMBDA w : w = ")"))
      at == {i \in from .. Len(args) : depth(i) = 0}
  IN IF at = {} THEN Len(args) + 1 ELSE CHOOSE i \in at : \A k \in at : i <= k

EvalFileTest(op, w) == w # "" /\ HasFile(w) /\ op # "-L"
EvalFileCompare(l, r) == HasFile(l) /\ (~HasFile(r) \/ FileTime[l] > FileTime[r])

ParseTestUnary(p) ==
  IF p.pos + 1 > Len(p.args) THEN FailTest(Took(p, 1, FALSE))
  ELSE Took(p, 2, IF Cur(p) = "-n" THEN p.args[p.pos + 1] # "" ELSE IF Cur(p) = "-z" THEN p.args[p.pos + 1] = "" ELSE EvalFileTest(Cur(p), p.args[p.pos + 1]))

ParseBinaryExpr(p) ==
  LET l == Cur(p)  op == p.args[p.pos + 1]  r == p.args[p.pos + 2] IN
  IF p.pos + 2 > Len(p.args) THEN FailTest(Took(p, 2, FALSE))
  ELSE CASE op = "=" -> Took(p, 3, l = r)
         [] op = "!=" -> Took(p, 3, l # r)
         [] op = "-lt" -> IF IsInt(l) /\ IsInt(r) THEN Took(p, 3, IntOf(l) < IntOf(r)) ELSE FailTest(Took(p, 3, FALSE))
         [] op = "-nt" -> Took(p, 3, EvalFileCompare(l, r))
         [] op = "-a" -> Took(p, 3, l # "" /\ r # "")
         [] op = "-o" -> Took(p, 3, l # "" \/ r # "")

\* the rule for three words: the subexpression is OPERAND OPERATOR OPERAND
ThreeArgBinary(p) == SubLen(p) = 3 /\ p.pos < Len(p.args) /\ IsBinaryOpOrLogical(p.args[p.pos + 1])

\* the subexpression from here to end, and the ")" after it
InGroup(p, end) == [p EXCEPT !.start = p.pos, !.end = end]
CloseGroup(p, q) ==
  LET r == [q EXCEPT !.start = p.start, !.end = p.end, !.depth = p.depth] IN
  IF r.err \/ ~Left(r) THEN FailTest(r) ELSE IF Cur(r) # ")" THEN FailTest(r) ELSE Took(r, 1, r.value)

RECURSIVE ParseTestOr(_), ParseTestAnd(_), ParseTestNot(_), MoreOr(_), MoreAnd(_)
\* Both sides are always read; a side that is not needed still has its errors.
MoreOr(p) ==
  IF p.err \/ ~Left(p) THEN p ELSE IF Cur(p) # "-o" THEN p
  ELSE Once(ParseTestAnd(Took(p, 1, FALSE)), LAMBDA r : MoreOr([r EXCEPT !.value = p.value \/ r.value]))
ParseTestOr(p) == MoreOr(ParseTestAnd(p))
MoreAnd(p) ==
  IF p.err \/ ~Left(p) THEN p ELSE IF Cur(p) # "-a" THEN p
  ELSE LET r == ParseTestNot(Took(p, 1, FALSE)) IN MoreAnd([r EXCEPT !.value = p.value /\ r.value])
ParseTestAnd(p) == MoreAnd(ParseTestNot(p))

ParseGroup(p) ==
  LET q == Took([p EXCEPT !.depth = p.depth + 1], 1, FALSE) IN
  IF p.depth >= MaxParenDepth \/ ~Left(q) THEN FailTest(p) ELSE IF Cur(q) = ")" THEN FailTest(p)
  ELSE CloseGroup(p, ParseTestOr(InGroup(q, FindMatchingParen(q.args, q.pos))))

ParseTestPrimary(p) ==
  LET remaining == p.end - p.pos
      op == p.args[p.pos + 1]
  IN IF p.err \/ ~Left(p) THEN FailTest(p)
     ELSE IF Cur(p) = "(" /\ SubLen(p) = 3 /\ p.pos + 2 <= Len(p.args) /\ p.args[p.pos + 2] = ")" /\ ~IsBinaryOpOrLogical(op) THEN Took(p, 3, op # "")
     ELSE IF Cur(p) = "(" /\ SubLen(p) = 4 /\ p.pos + 3 <= Len(p.args) /\ p.args[p.pos + 3] = ")" THEN
       LET q == Took(p, 1, FALSE) IN CloseGroup(p, ParseTestOr(InGroup(q, q.pos + 2)))
     ELSE IF Cur(p) = "(" /\ (remaining > 1 \/ SubLen(p) > 1) /\ ~ThreeArgBinary(p) THEN ParseGroup(p)
     ELSE IF remaining >= 3 /\ (IsBinaryOp(op) \/ (SubLen(p) = 3 /\ op \in Logical)) THEN ParseBinaryExpr(p)
     ELSE IF remaining >= 2 /\ Cur(p) \in UnaryFileOps \cup {"-n", "-z"} THEN ParseTestUnary(p)
     ELSE IF remaining >= 2 /\ Cur(p) = "-o" THEN Took(p, 2, FALSE)
     ELSE Took(p, 1, Cur(p) # "")

ParseTestNot(p) ==
  IF ~Left(p) THEN ParseTestPrimary(p)
  ELSE IF Cur(p) # "!" THEN ParseTestPrimary(p)
  ELSE IF SubLen(p) = 1 THEN Took(p, 1, TRUE)
  ELSE IF SubLen(p) = 3 /\ IsBinaryOpOrLogical(p.args[p.pos + 1]) THEN ParseTestPrimary(p)
  ELSE IF p.depth >= MaxParenDepth THEN FailTest(p)
  ELSE LET q == ParseTestNot([Took(p, 1, FALSE) EXCEPT !.depth = p.depth + 1, !.start = p.pos + 1])
       IN [q EXCEPT !.start = p.start, !.depth = p.depth, !.value = ~q.value]

\* the exit status: 0 true, 1 false, 2 an error or words left over
EvaluateTest(args) ==
  Once(ParseTestOr(TestParser(args)), LAMBDA p : IF args = <<>> THEN 1 ELSE IF p.err \/ Left(p) THEN 2 ELSE IF p.value THEN 0 ELSE 1)
RunBracket(args) == IF args = <<>> THEN 2 ELSE IF Last(args) # "]" THEN 2 ELSE EvaluateTest(Front(args))

(***************************************************************************)
(* The rules POSIX gives for up to four words.  "free" where it gives none.*)
(***************************************************************************)
TruthStatus(b) == IF b THEN 0 ELSE 1
NotStatus(s) == IF s \in {0, 1} THEN 1 - s ELSE s
Posix1(w) == TruthStatus(w[1] # "")
Posix2(w) ==
  CASE w[1] = "!" -> TruthStatus(w[2] = "") [] w[1] = "-n" -> TruthStatus(w[2] # "") [] w[1] = "-z" -> TruthStatus(w[2] = "") [] w[1] = "-f" -> TruthStatus(HasFile(w[2])) [] OTHER -> 9
Posix3(w) ==
  CASE w[2] = "=" -> TruthStatus(w[1] = w[3]) [] w[2] = "!=" -> TruthStatus(w[1] # w[3])
    [] w[2] = "-a" -> TruthStatus(w[1] # "" /\ w[3] # "") [] w[2] = "-o" -> TruthStatus(w[1] # "" \/ w[3] # "")
    [] w[2] = "-lt" -> IF IsInt(w[1]) /\ IsInt(w[3]) THEN TruthStatus(IntOf(w[1]) < IntOf(w[3])) ELSE 2
    [] w[2] = "-nt" -> TruthStatus(EvalFileCompare(w[1], w[3]))
    [] w[2] \notin {"=", "!=", "-a", "-o", "-lt", "-nt"} /\ w[1] = "!" -> NotStatus(Posix2(Tail(w)))
    [] w[2] \notin {"=", "!=", "-a", "-o", "-lt", "-nt"} /\ w[1] = "(" /\ w[3] = ")" -> Posix1(<<w[2]>>)
    [] OTHER -> 9
Posix4(w) == IF w[1] = "!" THEN NotStatus(Posix3(Tail(w))) ELSE IF w[1] = "(" /\ w[4] = ")" THEN Posix2(SubSeq(w, 2, 3)) ELSE 9
Posix(w) == CASE Len(w) = 0 -> 1 [] Len(w) = 1 -> Posix1(w) [] Len(w) = 2 -> Posix2(w) [] Len(w) = 3 -> Posix3(w) [] Len(w) = 4 -> Posix4(w)

(***************************************************************************)
(* Up to four words mean what the rules for their number say, whatever     *)
(* the words look like: test ! = !, test "(" ! ")", test -f -a -d (the     *)
(* disambiguation in parseNot, parsePrimary and isThreeArgBinary).         *)
(***************************************************************************)
FewWordsByRule == call.tool = "test4" => Posix(call.args) \in {9, EvaluateTest(call.args)}

(***************************************************************************)
(* A written expression is evaluated as the tree it was written from: "!"  *)
(* binds before -a, -a before -o, a group holds its whole, and an operand  *)
(* beside a comparison is an operand whatever it looks like.  Only an      *)
(* expression nested deeper than the limit may be refused instead.         *)
(***************************************************************************)
ExpressionMeant ==
  call.tool = "test" =>
    Once(RunBracket(Append(call.expr.words, "]")), LAMBDA got : got = call.expr.status \/ (call.expr.depth > MaxParenDepth /\ got = 2))

\* test decides one to four words by the rule for their number, and longer
\* expressions by the precedence of their operators.
TestTrue ==
  /\ FewWordsByRule
  /\ ExpressionMeant

=============================================================================
