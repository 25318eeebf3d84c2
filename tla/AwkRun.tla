------------------------------- MODULE AwkRun -------------------------------
(***************************************************************************)
(* A running awk program (runtime.go and eval.go of builtins/awk): rules,  *)
(* statements and expressions, over the trees of AwkParse, the storage of  *)
(* AwkStore and the texts of AwkText.  Evaluating gives                    *)
(* [st, v, sig]: the state, a value, and how control leaves: "" for        *)
(* normally, or the jump or error that unwinds.  Literals are texts, a     *)
(* regular expression stands for itself; numbers are whole, and a quotient *)
(* is taken only where it is exact.  The cost of compiling expressions is  *)
(* with the cache of AwkText.  Powers, tolower, toupper, sprintf, printf   *)
(* and the cancellation of the call are left out.                          *)
(***************************************************************************)
EXTENDS AwkStore, AwkText, AwkParse

CONSTANTS MaxExpressionBytes, MaxStatementExecutions, MaxLoopIterations, MaxExpressionEvaluations, MaxStringWork, MaxStdoutBytes, MaxMainRules

\* call = [tool |-> "awkrun", rules, functions, records]
BlankSeparator == [k |-> "blank", re |-> [cs |-> {" "}, least |-> 1, most |-> 9, bol |-> FALSE]]
RunStart == StoreStart @@ [record |-> <<>>, fields |-> <<>>, nf |-> 0, nr |-> 0, fs |-> BlankSeparator, ofs |-> <<" ">>, last |-> [by |-> "split"],
                           exprTempBytes |-> 0, budgets |-> <<>>, evals |-> 0, stmts |-> 0, loops |-> 0, work |-> 0, ruleEvals |-> 0,
                           out |-> <<>>, outBytes |-> 0, exitCode |-> 0, on |-> {}]
Ok(st, v) == [st |-> st, v |-> v, sig |-> ""]
Unwind(st, sig) == [st |-> st, v |-> Unassigned, sig |-> sig]
Raise(st, why) == Unwind([st EXCEPT !.err = why], "error")
Then(r, Op(_, _)) == IF r.sig # "" THEN r ELSE Op(r.st, r.v)
Okay(st) == Ok(st, Unassigned)
\* The outcome of an operation on the storage or on the record.
Lift(st, s) == IF s.err # "" THEN Raise(st, s.err) ELSE Okay(s)
Counted(st, counter, limit) == IF st[counter] >= limit THEN Raise(st, counter) ELSE Okay([st EXCEPT ![counter] = @ + 1])
ChargeStringProcessing(st, n) == IF n > MaxStringWork - st.work THEN Raise(st, "work") ELSE Okay([st EXCEPT !.work = @ + n])
(***************************************************************************)
(* Values.                                                                 *)
(***************************************************************************)
Alphabet == <<" ", ",", "-", "0", "1", "2", "3", "4", "5", "6", "7", "8", "9", "a", "b", "x", "y">>
Rank(ch) == CHOOSE i \in DOMAIN Alphabet : Alphabet[i] = ch
RECURSIVE TextBelow(_, _)
TextBelow(s, t) == t # <<>> /\ (s = <<>> \/ Rank(s[1]) < Rank(t[1]) \/ (s[1] = t[1] /\ TextBelow(Tail(s), Tail(t))))
RECURSIVE FormatAwkNumber(_)
FormatAwkNumber(n) == IF n < 0 THEN <<"-">> \o FormatAwkNumber(-n) ELSE IF n < 10 THEN <<Alphabet[n + 4]>> ELSE FormatAwkNumber(n \div 10) \o <<Alphabet[(n % 10) + 4]>>
NumberValue(n) == AwkNum(FormatAwkNumber(n))
BoolValue(b) == NumberValue(IF b THEN 1 ELSE 0)
Number(v) ==
  Once(NumericPrefix(v.s), LAMBDA prefix : FoldLeft(LAMBDA n, ch : IF ch \in {"-", "+"} THEN n ELSE 10 * n + DigitOf(ch), 0, prefix) * (IF prefix # <<>> /\ prefix[1] = "-" THEN -1 ELSE 1))
Truth(v) == IF v.kind = "string" THEN v.s # <<>> ELSE Number(v) # 0
Trimmed(s) == LET kept == {i \in DOMAIN s : ~FieldBlank(s[i])} IN IF kept = {} THEN <<>> ELSE SubSeq(s, Min(kept), Max(kept))
InputStringValue(s) == [kind |-> IF Trimmed(s) # <<>> /\ NumericPrefix(Trimmed(s)) = Trimmed(s) THEN "strnum" ELSE "string", s |-> s]
TextBytes(v) == IF v.kind = "number" THEN 0 ELSE Len(v.s)
ChargeStringValue(st, v) == ChargeStringProcessing(st, TextBytes(v))
ConversionString(st, v) == Then(ChargeStringProcessing(st, IF v.kind = "number" THEN Len(v.s) ELSE 0), LAMBDA s, u : Ok(s, AwkStr(v.s)))
ComparesAsNumbers(a, b) == "string" \notin {a.kind, b.kind}
Compared(a, b, op) ==
  LET less(p, q) == IF ComparesAsNumbers(a, b) THEN Number(p) < Number(q) ELSE TextBelow(p.s, q.s)
  IN CASE op = "<" -> less(a, b) [] op = ">" -> less(b, a) [] op = "<=" -> ~less(b, a) [] op = ">=" -> ~less(a, b)
       [] op = "==" -> ~less(a, b) /\ ~less(b, a) [] OTHER -> less(a, b) \/ less(b, a)
Magnitude(n) == IF n < 0 THEN -n ELSE n
Arithmetic(op, a, b) ==
  CASE op = "+" -> a + b [] op = "-" -> a - b [] op = "*" -> a * b
    [] op = "/" -> (Magnitude(a) \div Magnitude(b)) * (IF (a < 0) = (b < 0) THEN 1 ELSE -1)
    [] OTHER -> (Magnitude(a) % Magnitude(b)) * (IF a < 0 THEN -1 ELSE 1)
(***************************************************************************)
(* Temporaries: what an evaluation keeps is charged to a budget of its     *)
(* own, which is given back whichever way the evaluation ends.             *)
(***************************************************************************)
BudgetLimit(kind) == IF kind = "exprTempBytes" THEN MaxExpressionBytes ELSE MaxVariableBytes
RetainBytes(kind, st, n) ==
  IF n > BudgetLimit(kind) - st[kind] THEN Raise(st, kind)
  ELSE Okay([st EXCEPT ![kind] = @ + n, !.budgets[Len(st.budgets)] = @ + n])
Release(kind, r) == [r EXCEPT !.st[kind] = MaxOf(0, @ - Last(r.st.budgets)), !.st.budgets = Front(@)]
WithBudget(kind, st, Body(_)) == Release(kind, Body([st EXCEPT !.budgets = Append(@, 0)]))
ConvfmtString(kind, st, v) ==
  Then(ConversionString(st, v), LAMBDA s, t : IF v.kind = "number" THEN Then(RetainBytes(kind, s, Len(t.s)), LAMBDA s2, u : Ok(s2, t)) ELSE Ok(s, t))
(***************************************************************************)
(* Variables, elements and fields as one.                                  *)
(***************************************************************************)
ReadName(st, name) ==
  IF LookupLocal(st, name) = 0 /\ name = "NF" THEN [st |-> st, v |-> NumberValue(st.nf)]
  ELSE IF LookupLocal(st, name) = 0 /\ name = "NR" THEN [st |-> st, v |-> NumberValue(st.nr)]
  ELSE GetVar(st, name)
SetComputedNF(st) == [st EXCEPT !.varBytes = @ - SizeAt(st.varSizes, "NF"), !.varSizes = Without(@, "NF")]
WriteField(st, n, v) ==
  Then(ConversionString(st, v), LAMBDA s, t :
    Once(SetField(s, n, t.s), LAMBDA set :
    IF n = 0 \/ set.err # "" THEN Lift(s, IF set.err = "" THEN SetComputedNF(set) ELSE set)
    ELSE Then(ChargeStringProcessing(s, MaxOf(Len(set.record), Len(set.fields))),
              LAMBDA s2, u : Okay([IF n > Len(st.fields) THEN SetComputedNF(set) ELSE set EXCEPT !.work = s2.work]))))
WriteNF(st, v) ==
  Once(Number(v), LAMBDA n :
  LET set == SetNF(st, n)
      old == SizeAt(st.varSizes, "NF")
  IN
     IF n < 0 THEN Raise(st, "fatal")
     ELSE IF set.err # "" THEN Raise(st, set.err)
     ELSE Then(ChargeStringProcessing(st, MaxOf(Len(set.record), n)), LAMBDA s, u :
            IF ~Holds(s, old, Len(v.s)) THEN Raise(s, "storage limit")
            ELSE Okay([HoldBytes(set, old, Len(v.s)) EXCEPT !.varSizes = Put(@, "NF", Len(v.s)), !.work = s.work])))
WriteNR(st, v) ==
  LET old == SizeAt(st.varSizes, "NR")
      size == Len(FormatAwkNumber(Number(v)))
  IN IF ~Holds(st, old, size) THEN Raise(st, "storage limit") ELSE Okay([HoldBytes(st, old, size) EXCEPT !.varSizes = Put(@, "NR", size), !.nr = Number(v)])
WriteName(st, name, v) ==
  IF LookupLocal(st, name) = 0 /\ name = "NF" THEN WriteNF(st, v)
  ELSE IF LookupLocal(st, name) = 0 /\ name = "NR" THEN WriteNR(st, v)
  ELSE Lift(st, SetVar(st, name, v))
ElemAt(st, name, key) == Elems(st, EnsureLocalArray(st, name).at)[key]
ReadElem(st, name, key) == LET s == GetArrayElem(st, name, key) IN Then(Lift(st, s), LAMBDA s2, u : Ok(s2, ElemAt(s2, name, key)))
Target(k, name, key, n) == [k |-> k, name |-> name, key |-> key, n |-> n]
SetResolvedAssignable(st, t, v) ==
  CASE t.k = "elem" -> Lift(st, SetArrayElem(st, t.name, t.key, v)) [] t.k = "field" -> WriteField(st, t.n, v) [] OTHER -> WriteName(st, t.name, v)
\* The keys that a loop over an array goes through, charged as the work of sorting them.
RECURSIVE SortLevels(_)
SortLevels(n) == IF n <= 1 THEN 1 ELSE 1 + SortLevels((n \div 2) + (n % 2))
ArrayKeys(st, name) ==
  Then(Lift(st, HasArrayElem(st, name)), LAMBDA s, u :
    LET keys == DOMAIN Elems(s, EnsureLocalArray(s, name).at)
        bytes == FoldSet(LAMBDA k, n : n + MaxOf(1, Len(k)), 0, keys)
    IN Then(ChargeStringProcessing(s, bytes * SortLevels(Cardinality(keys))), LAMBDA s2, w : [Okay(s2) EXCEPT !.v = SetToSortSeq(keys, TextBelow)]))
(***************************************************************************)
(* Expressions.                                                            *)
(***************************************************************************)
\* The program, its statement lists and their expressions run each other.
RECURSIVE Perform(_, _, _)
Eval(n, st) == Perform("expr", n, st)
ExecList(stmts, st) == Perform("list", stmts, st)

Temp == "exprTempBytes"
Args == "callArgBytes"

\* External (regexp): a text used as an expression; of such texts the programs use single characters.
RegexOf(text) == [cs |-> ToSet(text), least |-> Len(text), most |-> Len(text), bol |-> FALSE]
RegexMatches(re, s) == FindRegex(re, s) # NoMatch

\* The parts of an array index, joined by SUBSEP.
RECURSIVE EvalParts(_, _, _, _)
EvalParts(xs, st, parts, joined) ==
  IF xs = <<>> THEN IF Len(parts) > 1 /\ 1 > (MaxExpressionBytes - joined) \div (Len(parts) - 1) THEN Raise(st, Temp)
                    ELSE Ok(st, AwkStr(JoinedBy(parts, <<",">>)))
  ELSE Then(Eval(Head(xs), st), LAMBDA s, v : Then(ConversionString(s, v), LAMBDA s2, t : Then(RetainBytes(Temp, s2, Len(t.s)), LAMBDA s3, u :
         IF Len(t.s) > MaxExpressionBytes - joined THEN Raise(s3, Temp) ELSE EvalParts(Tail(xs), s3, Append(parts, t.s), joined + Len(t.s)))))
EvalArrayKey(xs, st) == WithBudget(Temp, st, LAMBDA s : EvalParts(xs, s, <<>>, 0))

\* What an assignment assigns to, and its value before.
Resolved(r, t) == [st |-> r.st, v |-> r.v, sig |-> r.sig, target |-> t]
NoTarget == Target("none", "", <<>>, 0)
Resolve(n, st) ==
  CASE n.k = "var" -> IF IsArray(st, n.v) THEN Resolved(Raise(st, "fatal"), NoTarget)
                      ELSE LET g == ReadName(st, n.v) IN Resolved(Ok(g.st, g.v), Target("var", n.v, <<>>, 0))
    [] n.k = "idx" -> LET key == EvalArrayKey(n.xs, st) IN
                      Resolved(Then(key, LAMBDA s, t : ReadElem(s, n.v, t.s)), Target("elem", n.v, key.v.s, 0))
    [] OTHER -> LET i == Eval(n.xs[1], st) IN
                Resolved(Then(i, LAMBDA s, v : IF Number(v) < 0 THEN Raise(s, "fatal") ELSE Ok(s, InputStringValue(FieldAt(s, Number(v))))),
                         Target("field", "", <<>>, IF i.sig = "" THEN Number(i.v) ELSE 0))

EvalLogical(n, st) ==
  Then(Eval(n.xs[1], st), LAMBDA s, v :
    IF Truth(v) = (n.v = "||") THEN Ok(s, BoolValue(n.v = "||"))
    ELSE Then(Eval(n.xs[2], s), LAMBDA s2, w : Ok(s2, BoolValue(Truth(w)))))
EvalMatchOperator(n, st, left) ==
  LET literal == n.xs[2].k = "re"
      answer(s, re, t) == Ok(s, BoolValue(RegexMatches(re, t.s) = (n.v = "~")))
  IN WithBudget(Temp, st, LAMBDA s :
       Then(RetainBytes(Temp, s, IF literal THEN 0 ELSE TextBytes(left)), LAMBDA s2, u : Then(ConvfmtString(Temp, s2, left), LAMBDA s3, t :
         IF literal THEN answer(s3, n.xs[2].v, t)
         ELSE Then(Eval(n.xs[2], s3), LAMBDA s4, p : Then(RetainBytes(Temp, s4, TextBytes(p)), LAMBDA s5, u2 :
                Then(ConvfmtString(Temp, s5, p), LAMBDA s6, q : answer(s6, RegexOf(q.s), t)))))))
EvalIn(n, st, left) ==
  Then(ConversionString(st, left), LAMBDA s, t : Then(Lift(s, HasArrayElem(s, n.xs[2].v)), LAMBDA s2, u :
    Ok(s2, BoolValue(t.s \in DOMAIN Elems(s2, EnsureLocalArray(s2, n.xs[2].v).at)))))
Concatenated(st, a, b) ==
  Then(ConversionString(st, a), LAMBDA s, p : Then(ConversionString(s, b), LAMBDA s2, q :
    IF Len(q.s) > MaxExpressionBytes - Len(p.s) THEN Raise(s2, "too long")
    ELSE Then(RetainBytes(Temp, s2, TextBytes(b)), LAMBDA s3, u : Ok(s3, AwkStr(p.s \o q.s)))))
\* A comparison as texts keeps the texts of numbers as well.
CompareValues(st, a, b, op) ==
  IF ComparesAsNumbers(a, b) THEN Ok(st, BoolValue(Compared(a, b, op)))
  ELSE Then(ConvfmtString(Temp, st, a), LAMBDA s, p : Then(ConvfmtString(Temp, s, b), LAMBDA s2, q : Ok(s2, BoolValue(Compared(a, b, op)))))
EvalArithmetic(st, op, a, b) == IF op \in {"/", "%"} /\ Number(b) = 0 THEN Raise(st, "fatal") ELSE Ok(st, NumberValue(Arithmetic(op, Number(a), Number(b))))
ComparisonOps == {"==", "!=", "<", "<=", ">", ">="}
EvalOperands(n, st, a) ==
  WithBudget(Temp, st, LAMBDA s : Then(RetainBytes(Temp, s, TextBytes(a)), LAMBDA s2, u : Then(Eval(n.xs[2], s2), LAMBDA s3, b :
    IF n.v = "concat" THEN Concatenated(s3, a, b)
    ELSE Then(RetainBytes(Temp, s3, TextBytes(b)), LAMBDA s4, u2 : IF n.v \in ComparisonOps THEN CompareValues(s4, a, b, n.v) ELSE EvalArithmetic(s4, n.v, a, b)))))
EvalBinary(n, st) ==
  IF n.v \in {"&&", "||"} THEN EvalLogical(n, st)
  ELSE Then(Eval(n.xs[1], st), LAMBDA s, a :
         CASE n.v \in {"~", "!~"} -> EvalMatchOperator(n, s, a) [] n.v = "in" -> EvalIn(n, s, a) [] OTHER -> EvalOperands(n, s, a))

BaseOp(op) == CASE op = "+=" -> "+" [] op = "-=" -> "-" [] op = "*=" -> "*" [] op = "/=" -> "/" [] OTHER -> "%"
\* The right side is evaluated before the place it is assigned to.
EvalAssign(n, st) ==
  WithBudget(Temp, st, LAMBDA s0 : Then(Eval(n.xs[2], s0), LAMBDA s, right : Then(RetainBytes(Temp, s, TextBytes(right)), LAMBDA s2, u :
    Once(Resolve(n.xs[1], s2), LAMBDA l :
    LET store(s3, v) == Then(SetResolvedAssignable(s3, l.target, v), LAMBDA s4, w : Ok(s4, v))
    IN
       Then(l, LAMBDA s3, left : Then(RetainBytes(Temp, s3, Len(l.target.key)), LAMBDA s4, w :
         IF n.v = "=" THEN store(s4, right)
         ELSE Then(ChargeStringValue(s4, left), LAMBDA s5, w2 : Then(EvalArithmetic(s5, BaseOp(n.v), left, right), store))))))))
IncDecResult(n, old, new) == IF n.k = "pre" THEN new ELSE old
EvalIncDec(n, st) ==
  LET l == Resolve(n.xs[1], st) IN
  Then(l, LAMBDA s, v : Then(ChargeStringValue(s, v), LAMBDA s2, u :
    LET new == NumberValue(Number(v) + (IF n.v = "++" THEN 1 ELSE -1)) IN
    Then(SetResolvedAssignable(s2, l.target, new), LAMBDA s3, w : Ok(s3, IncDecResult(n, NumberValue(Number(v)), new)))))
(***************************************************************************)
(* Calls.                                                                  *)
(***************************************************************************)
EvalRetained(n, st) == Then(Eval(n, st), LAMBDA s, v : Then(RetainBytes(Args, s, TextBytes(v)), LAMBDA s2, u : Ok(s2, v)))
EvalText(n, st) == Then(EvalRetained(n, st), LAMBDA s, v : ConvfmtString(Args, s, v))
EvalRegexPatternArg(n, st) ==
  IF n.k = "re" THEN [Okay(st) EXCEPT !.v = n.v] ELSE Then(EvalText(n, st), LAMBDA s, t : [Okay(s) EXCEPT !.v = RegexOf(t.s)])
RECURSIVE EvalArguments(_, _, _)
EvalArguments(xs, st, vals) ==
  IF xs = <<>> THEN [Okay(st) EXCEPT !.v = vals] ELSE Then(EvalRetained(Head(xs), st), LAMBDA s, v : EvalArguments(Tail(xs), s, Append(vals, v)))

EvalSplit(n, st) ==
  WithBudget(Args, st, LAMBDA s : Then(EvalRetained(n.xs[1], s), LAMBDA s2, input :
    LET regex == Len(n.xs) = 3 /\ n.xs[3].k = "re"
        given == Len(n.xs) = 3 /\ ~regex
    IN Then(IF given THEN EvalText(n.xs[3], s2) ELSE Ok(s2, AwkStr(<<" ">>)), LAMBDA s3, sep : Then(ConvfmtString(Args, s3, input), LAMBDA s4, t :
         LET fs == IF regex THEN [k |-> "regex", re |-> n.xs[3].v] ELSE IF sep.s = <<" ">> THEN s4.fs ELSE [k |-> "char", re |-> RegexOf(sep.s)]
             parts == IF given /\ sep.s = <<>> THEN (IF Len(t.s) > MaxFields THEN TooManyFields ELSE SplitDone([i \in DOMAIN t.s |-> <<t.s[i]>>]))
                      ELSE SplitAwkRecordFields(t.s, fs, FALSE)
         IN IF parts.err # "" THEN Raise(s4, parts.err)
            ELSE Then(Lift(s4, ReplaceArray(s4, n.xs[2].v, [i \in DOMAIN parts.fields |-> [key |-> FormatAwkNumber(i), v |-> InputStringValue(parts.fields[i])]])),
                      LAMBDA s5, u : Ok(s5, NumberValue(Len(parts.fields))))))))
EvalSubstitution(n, st) ==
  WithBudget(Args, st, LAMBDA s : Then(EvalRegexPatternArg(n.xs[1], s), LAMBDA s2, re : Then(EvalRetained(n.xs[2], s2), LAMBDA s3, repl :
    Once(IF Len(n.xs) = 3 THEN Resolve(n.xs[3], s3) ELSE Resolved(Ok(s3, InputStringValue(s3.record)), Target("field", "", <<>>, 0)), LAMBDA place :
       Then(place, LAMBDA s4, current : Then(ChargeStringValue(s4, current), LAMBDA s5, u : Then(ConvfmtString(Args, s5, current), LAMBDA s6, t :
         Then(ConvfmtString(Args, s6, repl), LAMBDA s7, text :
           Once(SubstituteAwk(re, t.s, text.s, n.v = "gsub"), LAMBDA r :
           IF r.err # "" THEN Raise(s7, r.err)
           ELSE IF r.n = 0 THEN Ok(s7, NumberValue(0))
           ELSE Then(ChargeStringProcessing(s7, Len(r.s)), LAMBDA s8, u2 :
                  Then(SetResolvedAssignable(s8, place.target, AwkStr(r.s)), LAMBDA s9, u3 : Ok(s9, NumberValue(r.n)))))))))))))
MatchSpan(m) == IF m = NoMatch THEN -1 ELSE m.to - m.from
EvalMatch(n, st) ==
  WithBudget(Args, st, LAMBDA s : Then(EvalRetained(n.xs[1], s), LAMBDA s2, input : Then(EvalRegexPatternArg(n.xs[2], s2), LAMBDA s3, re :
    Then(ConvfmtString(Args, s3, input), LAMBDA s4, t :
      LET m == FindRegex(re, t.s)
          start == IF m = NoMatch THEN 0 ELSE m.from + 1
      IN Then(WriteName(s4, "RSTART", NumberValue(start)), LAMBDA s5, u :
           Then(WriteName(s5, "RLENGTH", NumberValue(MatchSpan(m))), LAMBDA s6, u2 : Ok(s6, NumberValue(start))))))))
EvalLengthCall(n, st) ==
  LET ready == IF n.xs[1].k = "var" THEN EnsureBuiltinArray(st, n.xs[1].v) ELSE st IN
  IF n.xs = <<>> THEN Then(ChargeStringProcessing(st, Len(st.record)), LAMBDA s, u : Ok(s, NumberValue(Len(s.record))))
  ELSE IF n.xs[1].k = "var" /\ ready.err # "" THEN Raise(st, ready.err)
  ELSE IF n.xs[1].k = "var" /\ IsArray(ready, n.xs[1].v) THEN
         Then(Lift(st, HasArrayElem(ready, n.xs[1].v)), LAMBDA s, u : Ok(s, NumberValue(Cardinality(DOMAIN Elems(s, EnsureLocalArray(s, n.xs[1].v).at)))))
  ELSE WithBudget(Args, ready, LAMBDA s : Then(EvalText(n.xs[1], s), LAMBDA s2, t : Ok(s2, NumberValue(Len(t.s)))))
IndexOf(s, t) == LET found == {k \in 1..(Len(s) - Len(t) + 1) : SubSeq(s, k, k + Len(t) - 1) = t} IN IF t = <<>> THEN 1 ELSE IF found = {} THEN 0 ELSE Min(found)
\* substr, index and int, of the functions on values.
EvalBuiltin(n, st) ==
  WithBudget(Args, st, LAMBDA s0 : Then(EvalArguments(n.xs, s0, <<>>), LAMBDA s, args :
    IF n.v = "int" THEN Ok(s, NumberValue(Number(args[1])))
    ELSE Then(ConvfmtString(Args, s, args[1]), LAMBDA s2, t :
           IF n.v = "substr" THEN Ok(s2, AwkStr(IF Len(args) = 3 THEN SubstrOf(t.s, Number(args[2]), Number(args[3])) ELSE SubstrFrom(t.s, Number(args[2]))))
           ELSE Then(ConvfmtString(Args, s2, args[2]), LAMBDA s3, needle : Ok(s3, NumberValue(IndexOf(t.s, needle.s)))))))

\* A call that is abandoned gives back what its arguments hold, and the frame if there is one already.
Abandon(r) == [r EXCEPT !.st.callArgBytes = @ - Released(Last(r.st.pending)), !.st.pending = Front(@)]
RECURSIVE EvalFunctionArgs(_, _)
EvalFunctionArgs(xs, st) ==
  IF xs = <<>> THEN Okay(st)
  ELSE LET x == Head(xs)
           arg == EvalVariableFunctionArg(st, x.v)
           given == IF x.k # "var" THEN Then(Eval(x, st), LAMBDA s, v : Lift(s, Retain(s, ValueArg(v))))
                    ELSE Then(ChargeStringProcessing(st, ArgBytes(arg)), LAMBDA s, u : Lift(s, Retain(s, arg)))
       IN Then(given, LAMBDA s, u : EvalFunctionArgs(Tail(xs), s))
\* Mutant: a jump that leaves a function by exit or next leaves its frame behind.
ReturnedOnly(body) == IF body.sig \in {"", "return"} THEN [st |-> PopFrame(body.st), v |-> IF body.sig = "return" THEN body.v ELSE Unassigned, sig |-> ""] ELSE body
Returned(body) ==
  [st |-> PopFrame(body.st), v |-> IF body.sig = "return" THEN body.v ELSE Unassigned, sig |-> IF body.sig = "return" THEN "" ELSE body.sig]
CallFunction(f, args, st) ==
  Then(Lift(st, StartCall(st)), LAMBDA s, u :
    LET given == EvalFunctionArgs(args, s) IN
    IF given.sig # "" THEN Abandon(given)
    ELSE LET entered == EvalUserFunction(given.st, [i \in DOMAIN f.xs |-> f.xs[i].v]) IN
         IF entered.err # "" THEN Abandon(Raise(given.st, entered.err)) ELSE Returned(ExecList(f.body, entered)))
EvalCall(n, st) ==
  LET f == SelectInSeq(call.functions, LAMBDA g : g.v = n.v) IN
  CASE f # 0 -> CallFunction(call.functions[f], n.xs, st)
    [] n.v = "split" -> EvalSplit(n, st)
    [] n.v \in {"sub", "gsub"} -> EvalSubstitution(n, st)
    [] n.v = "match" -> EvalMatch(n, st)
    [] n.v = "length" -> EvalLengthCall(n, st)
    [] OTHER -> EvalBuiltin(n, st)

EvalNode(n, st) ==
  CASE n.k = "num" -> Ok(st, AwkNum(n.v))
    [] n.k = "str" -> Ok(st, AwkStr(n.v))
    [] n.k = "re" -> Then(ChargeStringProcessing(st, Len(st.record)), LAMBDA s, u : Ok(s, BoolValue(RegexMatches(n.v, s.record))))
    [] n.k = "var" -> IF IsArray(st, n.v) \/ n.v \in BuiltinArrays THEN Raise(st, "fatal") ELSE LET g == ReadName(st, n.v) IN Ok(g.st, g.v)
    [] n.k = "idx" -> Then(EvalArrayKey(n.xs, st), LAMBDA s, t : ReadElem(s, n.v, t.s))
    [] n.k = "comp" -> EvalArrayKey(n.xs, st)
    [] n.k = "field" -> Resolve(n, st)
    [] n.k = "group" -> Eval(n.xs[1], st)
    [] n.k = "un" -> Then(Eval(n.xs[1], st), LAMBDA s, v :
                       Ok(s, CASE n.v = "+" -> NumberValue(Number(v)) [] n.v = "-" -> NumberValue(-Number(v)) [] OTHER -> BoolValue(~Truth(v))))
    [] n.k = "bin" -> EvalBinary(n, st)
    [] n.k = "tern" -> Then(Eval(n.xs[1], st), LAMBDA s, v : Eval(IF Truth(v) THEN n.xs[2] ELSE n.xs[3], s))
    [] n.k = "assign" -> EvalAssign(n, st)
    [] n.k \in {"pre", "post"} -> EvalIncDec(n, st)
    [] OTHER -> EvalCall(n, st)
(***************************************************************************)
(* Statements.                                                             *)
(***************************************************************************)
WriteStdout(st, text) == IF Len(text) > MaxStdoutBytes - st.outBytes THEN Raise(st, "stdout") ELSE Okay([st EXCEPT !.outBytes = @ + Len(text), !.out = Append(@, text)])
RECURSIVE DisplayTexts(_, _, _)
DisplayTexts(vals, st, texts) ==
  IF vals = <<>> THEN [Okay(st) EXCEPT !.v = texts] ELSE Then(ConversionString(st, Head(vals)), LAMBDA s, t : DisplayTexts(Tail(vals), s, Append(texts, t.s)))
FormatPrintValues(vals, st) ==
  Then(DisplayTexts(vals, st, <<>>), LAMBDA s, texts :
    LET line == Append(JoinedBy(texts, s.ofs), "\n") IN
    IF Len(line) > MaxVariableBytes THEN Raise(s, "print") ELSE Then(ChargeStringProcessing(s, Len(line)), LAMBDA s2, u : [Okay(s2) EXCEPT !.v = line]))
PrintRecord(st) == LET v == InputStringValue(st.record) IN Then(ChargeStringValue(st, v), LAMBDA s, u : FormatPrintValues(<<v>>, s))
EvalPrintArgs(xs, st) ==
  IF xs = <<>> THEN PrintRecord(st) ELSE WithBudget(Args, st, LAMBDA s : Then(EvalArguments(xs, s, <<>>), LAMBDA s2, vals : FormatPrintValues(vals, s2)))

AfterBody(r, next) == CASE r.sig = "break" -> Okay(r.st) [] r.sig \in {"", "continue"} -> next [] OTHER -> r
RECURSIVE ExecForIn(_, _, _)
ExecForIn(n, keys, st) ==
  IF keys = <<>> THEN Okay(st)
  ELSE Then(Counted(st, "loops", MaxLoopIterations), LAMBDA s, u : Then(WriteName(s, n.v, AwkStr(Head(keys))), LAMBDA s2, w :
         LET r == ExecList(n.body, s2) IN AfterBody(r, ExecForIn(n, Tail(keys), r.st))))
\* while and for: the condition, one iteration charged, the body, and what follows it.
LoopCondition(n) == IF n.k = "while" THEN n.xs[1] ELSE n.xs[2]
LoopPost(n) == IF n.k = "while" THEN NoExpr ELSE n.xs[3]
EvalOptional(n, st, v) == IF n = NoExpr THEN Ok(st, v) ELSE Eval(n, st)
RECURSIVE ExecLoop(_, _)
ExecLoop(n, st) ==
  Then(EvalOptional(LoopCondition(n), st, NumberValue(1)), LAMBDA s, v :
    IF ~Truth(v) THEN Okay(s)
    ELSE Then(Counted(s, "loops", MaxLoopIterations), LAMBDA s2, u :
           LET r == ExecList(n.body, s2) IN AfterBody(r, Then(EvalOptional(LoopPost(n), r.st, Unassigned), LAMBDA s3, w : ExecLoop(n, s3)))))
ExecStatement(n, st) ==
  CASE n.k = "print" -> Then(EvalPrintArgs(n.xs, st), WriteStdout)
    [] n.k = "if" -> Then(Eval(n.xs[1], st), LAMBDA s, v : ExecList(IF Truth(v) THEN n.body ELSE n.els, s))
    [] n.k = "forin" -> Then(ArrayKeys(st, n.w), LAMBDA s, keys : ExecForIn(n, keys, s))
    [] n.k = "for" -> Then(EvalOptional(n.xs[1], st, Unassigned), LAMBDA s, v : ExecLoop(n, s))
    [] n.k = "while" -> ExecLoop(n, st)
    [] n.k \in {"next", "break", "continue"} -> Unwind(st, n.k)
    [] n.k = "exit" -> Then(IF n.xs = <<>> THEN Ok(st, NumberValue(st.exitCode)) ELSE Eval(n.xs[1], st), LAMBDA s, v : Unwind([s EXCEPT !.exitCode = Number(v)], "exit"))
    [] n.k = "return" -> IF n.xs = <<>> THEN Unwind(st, "return") ELSE Then(Eval(n.xs[1], st), LAMBDA s, v : [st |-> s, v |-> v, sig |-> "return"])
    [] n.k = "delete" -> IF n.xs = <<>> THEN Lift(st, DeleteArray(st, n.v)) ELSE Then(EvalArrayKey(n.xs, st), LAMBDA s, t : Lift(s, DeleteArrayElem(s, n.v, t.s)))
    [] OTHER -> Eval(n.xs[1], st)
ExecStatements(stmts, st) ==
  IF stmts = <<>> THEN Okay(st)
  ELSE Then(Counted(st, "stmts", MaxStatementExecutions), LAMBDA s, u : Then(ExecStatement(Head(stmts), s), LAMBDA s2, v : ExecList(Tail(stmts), s2)))
EvalCharged(n, st) ==
  Then(Counted(st, "evals", MaxExpressionEvaluations), LAMBDA s, u :
    Then(EvalNode(n, s), LAMBDA s2, v : Then(ChargeStringValue(s2, v), LAMBDA s3, w : Ok(s3, v))))
(***************************************************************************)
(* Rules.                                                                  *)
(***************************************************************************)
MatchSimplePattern(n, st) == Then(Eval(n, st), LAMBDA s, v : Ok(s, BoolValue(Truth(v))))
Opens(s, i, end) == IF end THEN s ELSE [s EXCEPT !.on = @ \cup {i}]
MatchRangePattern(n, i, st) ==
  IF i \in st.on THEN Then(MatchSimplePattern(n.xs[2], st), LAMBDA s, end : Ok(IF Truth(end) THEN [s EXCEPT !.on = @ \ {i}] ELSE s, BoolValue(TRUE)))
  ELSE Then(MatchSimplePattern(n.xs[1], st), LAMBDA s, start :
         IF ~Truth(start) THEN Ok(s, BoolValue(FALSE))
         ELSE Then(MatchSimplePattern(n.xs[2], s), LAMBDA s2, end : Ok(Opens(s2, i, Truth(end)), BoolValue(TRUE))))
MatchPattern(rule, i, st) ==
  IF rule.xs = <<>> THEN Ok(st, BoolValue(TRUE)) ELSE IF rule.xs[1].k = "range" THEN MatchRangePattern(rule.xs[1], i, st) ELSE MatchSimplePattern(rule.xs[1], st)
RunAction(rule, st) ==
  Once(IF rule.ends THEN ExecList(rule.body, st) ELSE Then(PrintRecord(st), WriteStdout), LAMBDA r : CASE r.sig = "next" /\ rule.k # "rule" -> Raise(r.st, "fatal") [] r.sig \in {"break", "continue"} -> Raise(r.st, r.sig) [] OTHER -> r)
RECURSIVE RunRules(_, _, _), RunRecords(_, _)
RunRules(kind, i, st) ==
  IF i > Len(call.rules) THEN Okay(st)
  ELSE LET rule == call.rules[i]
       IN  Once(IF kind = "rule" THEN Then(Counted(st, "ruleEvals", MaxMainRules), LAMBDA s, u : MatchPattern(rule, i, s)) ELSE Ok(st, BoolValue(TRUE)), LAMBDA matched :
          IF rule.k # kind THEN RunRules(kind, i + 1, st)
          ELSE Then(matched, LAMBDA s, yes : Then(IF Truth(yes) THEN RunAction(rule, s) ELSE Okay(s), LAMBDA s2, u : RunRules(kind, i + 1, s2))))
RunRecords(records, st) ==
  IF records = <<>> THEN Okay(st)
  ELSE Then(Lift(st, SetRecord([SetComputedNF(st) EXCEPT !.nr = @ + 1], Head(records))), LAMBDA s, u :
         Once(RunRules("rule", 1, s), LAMBDA r : IF r.sig \in {"", "next"} THEN RunRecords(Tail(records), r.st) ELSE r))
NeedsInput == \E i \in DOMAIN call.rules : call.rules[i].k \in {"rule", "END"}
NormalizeAwkExitCode(n) == n % 256
\* The program: BEGIN, the records unless BEGIN left by exit, and END unless there was an error.
RunProgram ==
  Once(RunRules("BEGIN", 1, RunStart), LAMBDA begin :
      Once(IF begin.sig = "" /\ NeedsInput THEN RunRecords(call.records, begin.st) ELSE begin, LAMBDA main :
  Once(IF main.sig = "error" THEN main ELSE RunRules("END", 1, main.st), LAMBDA end : [r |-> end, code |-> IF end.sig = "error" THEN (IF end.st.err = "fatal" THEN 2 ELSE 1) ELSE NormalizeAwkExitCode(end.st.exitCode)])))
Perform(k, x, st) == CASE k = "expr" -> EvalCharged(x, st) [] k = "list" -> ExecStatements(x, st) [] k = "program" -> RunProgram
AwkRunInit == run = [pc |-> "start"]
AwkRunStep == call.tool = "awkrun" /\ run.pc = "start" /\ run' = Perform("program", <<>>, <<>>) @@ [pc |-> "done"]
(***************************************************************************)
(* What the programs mean.                                                 *)
(***************************************************************************)
\* Whatever way control left the expressions, functions and rules of a program that ended without an error, nothing is left behind: no
\* frame, no argument, no temporary that is still charged, and the storage charged is that of the variables.
Unwound == call.tool = "awkrun" /\ run.pc = "done" =>
  LET st == run.r.st IN
  run.r.sig # "error" =>
    /\ st.frames = <<>> /\ st.pending = <<>> /\ st.heap = <<>> /\ st.budgets = <<>> /\ st.exprTempBytes = 0 /\ st.callArgBytes = 0
    /\ st.varBytes = TotalOf(st.varSizes) + TotalOf([a \in DOMAIN st.arrays |-> ArrayBytes(st.arrays[a])])

\* A loop of at most three rounds in the rule of every record, with a jump in round call.at: call.shape = [loop, jump, at].  The rounds
\* before the jump print; those behind it only after continue; what follows the loop is reached but by next and exit; exit goes to END.
Rounds(shape) == {i \in 1..(IF shape.loop = "forever" THEN MaxLoopIterations ELSE 3) : i < shape.at \/ (i > shape.at /\ shape.jump = "continue")}
RoundTexts(shape) == LET printed == SetToSortSeq(Rounds(shape), <) IN [i \in DOMAIN printed |-> Append(FormatAwkNumber(printed[i]), "\n")]
Jumps(shape) == shape.at <= 3
Endless(shape) == shape.loop = "forever" /\ shape.jump = "continue"
RuleTexts(shape) == RoundTexts(shape) \o (IF Jumps(shape) /\ shape.jump \in {"next", "exit"} THEN <<>> ELSE <<<<"y", "\n">>>>)
WantedTexts(shape, n) ==
  IF Endless(shape) THEN RoundTexts(shape)
  ELSE FlattenSeq([r \in 1..(IF Jumps(shape) /\ shape.jump = "exit" THEN 1 ELSE n) |-> RuleTexts(shape)]) \o <<<<"b", "\n">>>>
\* A jump lands where it should, in loops of every kind, in a function as well as in the rule itself; a loop that never ends is stopped
\* by the limit, and then END does not run.
JumpsLand == call.tool = "awkrun" /\ run.pc = "done" /\ call.family = "jump" =>
  LET run0 == run IN
  /\ run0.r.st.out = WantedTexts(call.shape, Len(call.records))
  /\ run0.code = (IF Endless(call.shape) THEN 1 ELSE IF Jumps(call.shape) /\ call.shape.jump = "exit" THEN 253 ELSE 0)

\* Record i is in the range if the range was opened at or before it and not closed since, by the records the rule saw.
InRange(i, seen, start, end) == i \in seen /\ \E j \in seen : j <= i /\ start[j] /\ \A m \in seen : j <= m /\ m < i => ~end[m]
\* The records of a range pattern are those from each start to the next end, both included, however other rules skip records with next.
RangesAgree == call.tool = "awkrun" /\ run.pc = "done" /\ call.family = "range" =>
  LET seen == DOMAIN call.records \ {call.skip}
      start == [i \in DOMAIN call.records |-> call.records[i][1] \in {"a", "x"}]
      end == [i \in DOMAIN call.records |-> call.records[i][1] \in {"b", "x"}]
      inside == SetToSortSeq({i \in seen : InRange(i, seen, start, end)}, <)
  IN run.r.st.out = [k \in DOMAIN inside |-> Append(call.records[inside[k]], "\n")]

\* The value of an expression over the variable x and the value of x behind it, from left to right.
RECURSIVE Meaning(_, _)
Meaning(n, x) ==
  LET a == Meaning(n.xs[1], x)
      b == Meaning(n.xs[2], a.x)
      truth(c) == IF c THEN 1 ELSE 0
      is(y, v) == [x |-> y, v |-> v]
  IN CASE n.k = "num" -> is(x, Number(AwkNum(n.v)))
       [] n.k = "var" -> is(x, x)
       [] n.k = "pre" -> is(x + 1, x + 1)
       [] n.k = "post" -> is(x + 1, x)
       [] n.k = "assign" -> LET r == Meaning(n.xs[2], x) IN is(IF n.v = "=" THEN r.v ELSE r.x + r.v, IF n.v = "=" THEN r.v ELSE r.x + r.v)
       [] n.v = "&&" -> IF a.v = 0 THEN is(a.x, 0) ELSE is(b.x, truth(b.v # 0))
       [] n.v = "||" -> IF a.v # 0 THEN is(a.x, 1) ELSE is(b.x, truth(b.v # 0))
       [] n.v = "-" -> is(b.x, a.v - b.v)
       [] OTHER -> is(b.x, truth(a.v < b.v))
\* Operands are evaluated once each, from left to right, as far as the operators ask for them, and an assignment reads its place after
\* its right side: the value printed and the value left in x are those of that order.
EvaluationOrder == call.tool = "awkrun" /\ run.pc = "done" /\ call.family = "order" =>
  LET m == Meaning(call.expr, 0) IN run.r.st.out = <<FormatAwkNumber(m.v) \o <<"\n">>, FormatAwkNumber(m.x) \o <<"\n">>>>
\* A field is compared as a number exactly when it looks like one and so does what it is compared with.
ComparisonsAgree == call.tool = "awkrun" /\ run.pc = "done" /\ call.family = "compare" =>
  LET numeric == \A s \in {call.left, call.right} : s # <<>> /\ \A i \in DOMAIN s : s[i] \in DecimalDigits
      less == IF numeric THEN Number(AwkStr(call.left)) < Number(AwkStr(call.right)) ELSE TextBelow(call.left, call.right)
  IN run.r.st.out = <<<<IF less THEN "1" ELSE "0", "\n">>>>

\* The functions on texts agree with each other and with the text: a record split at a separator and joined again is the record; the part
\* that match found is the first longest run; gsub replaces as many characters as split found separators, and the record with them; and
\* an element deleted is no longer in the array.
BuiltinsCompose == call.tool = "awkrun" /\ run.pc = "done" /\ call.family = "text" =>
  LET rec == call.records[1]
      commas == {i \in DOMAIN rec : rec[i] = ","}
      first == SelectInSeq(rec, LAMBDA ch : ch = "a")
      past == CHOOSE k \in first..(Len(rec) + 1) : ~TextHas(rec, k, {"a"}) /\ \A j \in first..(k - 1) : rec[j] = "a"
      replaced == FlattenSeq([i \in DOMAIN rec |-> IF rec[i] = "," THEN <<"x", "b">> ELSE <<rec[i]>>])
      parts == IF rec = <<>> THEN 0 ELSE Cardinality(commas) + 1
      lines == <<rec, IF first = 0 THEN <<"y">> ELSE SubSeq(rec, first, past - 1), FormatAwkNumber(IF commas = {} THEN 0 ELSE Min(commas)),
                 FormatAwkNumber(Cardinality(commas)), replaced, <<"0">>, FormatAwkNumber(IF parts = 0 THEN 0 ELSE parts - 1)>>
  IN run.r.st.out = [k \in DOMAIN lines |-> Append(lines[k], "\n")]

\* Running an awk program evaluates in order, lands every jump where it should
\* and unwinds what it leaves, with the storage charged exactly that of the
\* variables, and no variable shared that was passed by value.
AwkRunTrue ==
  /\ StorageExact
  /\ OneKind
  /\ ByValue
  /\ ArgumentsReleased
  /\ Unwound
  /\ JumpsLand
  /\ RangesAgree
  /\ EvaluationOrder
  /\ ComparisonsAgree
  /\ BuiltinsCompose

=============================================================================
