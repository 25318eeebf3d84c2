------------------------------ MODULE JqFilter ------------------------------
(***************************************************************************)
(* Filters of jq: the evaluator, then the lexer and the parser.            *)
(***************************************************************************)
(***************************************************************************)
(* The evaluator of jq filters (eval.go and the values of value.go).  A    *)
(* filter maps one input to a sequence of results and an error that may    *)
(* end it.  Evaluating is bounded by steps, by the results of a filter,    *)
(* and by what is retained while a part of it is evaluated: every value    *)
(* kept across an evaluation is charged and given back.  Numbers are       *)
(* whole, texts are sequences of characters.                               *)
(***************************************************************************)
EXTENDS Call, SequencesExt, FiniteSetsExt

CONSTANTS MaxEvalSteps, MaxResults, MaxResultNodes, MaxResultBytes, MaxValueNodes, MaxValueBytes, MaxNestingDepth, JqIntMax
(***************************************************************************)
(* Values: [kind, n, s, items, keys, nodes, bytes, depth].  A value that   *)
(* cannot be built has a kind of "error", and the reason in s.             *)
(***************************************************************************)
JqScalar(kind, n, s, bytes) == [kind |-> kind, n |-> n, s |-> s, items |-> <<>>, keys |-> <<>>, nodes |-> 1, bytes |-> bytes, depth |-> 0]
JqNull == JqScalar("null", 0, <<>>, 4)
JqBool(b) == JqScalar("boolean", IF b THEN 1 ELSE 0, <<>>, IF b THEN 4 ELSE 5)
JqError(why) == JqScalar("error", 0, <<why>>, 0)
IsError(v) == v.kind = "error"
JqString(s) == IF Len(s) + 2 > MaxValueBytes THEN JqError("bytes") ELSE JqScalar("string", 0, s, Len(s) + 2)
RECURSIVE DecimalBytes(_)
DecimalBytes(n) == IF n < 0 THEN 1 + DecimalBytes(-n) ELSE IF n < 10 THEN 1 ELSE 1 + DecimalBytes(n \div 10)
JqNumber(n) == IF n > JqIntMax \/ -n > JqIntMax THEN JqError("range") ELSE JqScalar("number", n, <<>>, DecimalBytes(n))
\* A container as large as [nodes, bytes], or the reason that it cannot hold one more value.
Aggregate(nodes, bytes) == [nodes |-> nodes, bytes |-> bytes, err |-> ""]
AddAggregate(a, v, extra) ==
  IF a.err # "" THEN a
  ELSE IF v.nodes > MaxValueNodes - a.nodes THEN [a EXCEPT !.err = "nodes"]
  ELSE IF a.bytes > MaxValueBytes - extra - v.bytes THEN [a EXCEPT !.err = "bytes"]
  ELSE Aggregate(a.nodes + v.nodes, a.bytes + extra + v.bytes)
Separator(i) == IF i > 1 THEN 1 ELSE 0
Container(kind, keys, items) ==
  LET extra(i) == Separator(i) + (IF kind = "object" THEN Len(keys[i]) + 3 ELSE 0)
  IN  Once(FoldLeft(LAMBDA a, i : AddAggregate(a, items[i], extra(i)), Aggregate(1, 2), [i \in DOMAIN items |-> i]), LAMBDA total :
  Once(FoldLeft(LAMBDA d, v : IF v.depth + 1 > d THEN v.depth + 1 ELSE d, 1, items), LAMBDA depth :
     IF total.err # "" THEN JqError(total.err)
     ELSE IF depth > MaxNestingDepth THEN JqError("depth")
     ELSE [kind |-> kind, n |-> 0, s |-> <<>>, items |-> items, keys |-> keys, nodes |-> total.nodes, bytes |-> total.bytes, depth |-> depth]))
JqArray(items) == Container("array", <<>>, items)
KeyAt(keys, key) == SelectInSeq(keys, LAMBDA k : k = key)
\* A member given twice keeps its first place and its last value.
Placed(o, m) == LET at == KeyAt(o.keys, m.key) IN
  IF at # 0 THEN [o EXCEPT !.items[at] = m.v] ELSE [keys |-> Append(o.keys, m.key), items |-> Append(o.items, m.v)]
JqObject(members) == Once(FoldLeft(Placed, [keys |-> <<>>, items |-> <<>>], members), LAMBDA o : Container("object", o.keys, o.items))
Member(key, v) == [key |-> key, v |-> v]
Members(o) == [i \in DOMAIN o.keys |-> Member(o.keys[i], o.items[i])]
Get(o, key) == Once(KeyAt(o.keys, key), LAMBDA at : IF at = 0 THEN JqNull ELSE o.items[at])
Truthy(v) == v.kind # "null" /\ (v.kind # "boolean" \/ v.n = 1)
(***************************************************************************)
(* Operations on values.  An operation that compares gives its steps too.  *)
(***************************************************************************)
FieldValue(v, name) == CASE v.kind = "null" -> JqNull [] v.kind = "object" -> Get(v, name) [] OTHER -> JqError("runtime")
ArrayIndex(v, i) == IF i < 0 THEN i + Len(v.items) ELSE i
IndexValue(v, i) ==
  CASE v.kind = "null" -> IF i.kind \in {"string", "number", "object"} THEN JqNull ELSE JqError("runtime")
    [] v.kind = "object" -> IF i.kind = "string" THEN Get(v, i.s) ELSE JqError("runtime")
    [] v.kind = "array" -> IF i.kind # "number" THEN JqError("runtime")
                           ELSE IF ArrayIndex(v, i.n) \in 0..(Len(v.items) - 1) THEN v.items[ArrayIndex(v, i.n) + 1] ELSE JqNull
    [] OTHER -> JqError("runtime")
Absolute(n) == IF n < 0 THEN -n ELSE n
LengthValue(v) ==
  CASE v.kind = "null" -> JqNumber(0) [] v.kind = "number" -> JqNumber(Absolute(v.n)) [] v.kind = "string" -> JqNumber(Len(v.s))
    [] v.kind \in {"array", "object"} -> JqNumber(Len(v.items)) [] OTHER -> JqError("runtime")
TextOrder == <<"a", "b", "c">>
Place(ch) == CHOOSE i \in DOMAIN TextOrder : TextOrder[i] = ch
CompareInt(a, b) == IF a < b THEN -1 ELSE IF a > b THEN 1 ELSE 0
RECURSIVE CompareText(_, _)
CompareText(s, t) ==
  IF s = <<>> \/ t = <<>> THEN CompareInt(Len(s), Len(t)) ELSE IF s[1] # t[1] THEN CompareInt(Place(s[1]), Place(t[1])) ELSE CompareText(Tail(s), Tail(t))
SortedKeys(o) == SortSeq(o.keys, LAMBDA s, t : CompareText(s, t) < 0)
KeysValue(v) ==
  CASE v.kind = "array" -> JqArray([i \in DOMAIN v.items |-> JqNumber(i - 1)])
    [] v.kind = "object" -> JqArray([i \in DOMAIN v.keys |-> JqString(SortedKeys(v)[i])])
    [] OTHER -> JqError("runtime")
HasValue(v, k) ==
  CASE v.kind = "null" -> JqBool(FALSE)
    [] v.kind = "object" -> IF k.kind = "string" THEN JqBool(KeyAt(v.keys, k.s) # 0) ELSE JqError("runtime")
    [] v.kind = "array" -> IF k.kind = "number" THEN JqBool(k.n \in 0..(Len(v.items) - 1)) ELSE JqError("runtime")
    [] OTHER -> JqError("runtime")
NegateNumber(v) == IF v.kind = "number" THEN JqNumber(-v.n) ELSE JqError("runtime")

\* A comparison [c, ticks]; Chain compares part by part until one differs.
Verdict(c, ticks) == [c |-> c, ticks |-> ticks]
RECURSIVE Chain(_, _, _, _)
Chain(Op(_, _), s, t, i) ==
  IF i > Len(s) \/ i > Len(t) THEN Verdict(0, 0)
  ELSE LET first == Op(s[i], t[i])
           rest == Chain(Op, s, t, i + 1)
       IN IF first.c # 0 THEN first ELSE Verdict(rest.c, first.ticks + rest.ticks)
ValueRank(v) == CASE v.kind = "null" -> 0 [] v.kind = "boolean" -> 1 + v.n [] v.kind = "number" -> 3 [] v.kind = "string" -> 4 [] v.kind = "array" -> 5 [] OTHER -> 6
RECURSIVE CompareValuesJq(_, _)
CompareValuesJq(a, b) ==
  LET inOrder(o) == LET ks == SortedKeys(o) IN [i \in DOMAIN ks |-> Get(o, ks[i])]
      keys == Chain(LAMBDA s, t : Verdict(CompareText(s, t), 0), SortedKeys(a), SortedKeys(b), 1)
      parts == Chain(CompareValuesJq, a.items, b.items, 1)
  IN  Once(Chain(CompareValuesJq, inOrder(a), inOrder(b), 1), LAMBDA values :
     CASE a.kind # b.kind -> Verdict(CompareInt(ValueRank(a), ValueRank(b)), 1)
       [] a.kind \in {"null", "boolean", "number"} -> Verdict(CompareInt(a.n, b.n), 1)
       [] a.kind = "string" -> Verdict(CompareText(a.s, b.s), 1)
       [] a.kind = "array" -> Verdict(IF parts.c # 0 THEN parts.c ELSE CompareInt(Len(a.items), Len(b.items)), 1 + parts.ticks)
       [] OTHER -> LET sorted == 1 + Len(a.keys) + Len(b.keys) IN
                   IF keys.c # 0 THEN Verdict(keys.c, sorted)
                   ELSE IF Len(a.keys) # Len(b.keys) THEN Verdict(CompareInt(Len(a.keys), Len(b.keys)), sorted)
                   ELSE Verdict(values.c, sorted + values.ticks))
RECURSIVE ValuesEqual(_, _)
ValuesEqual(a, b) ==
  LET member(k, v) == IF KeyAt(b.keys, k) = 0 THEN Verdict(1, 0) ELSE ValuesEqual(v, Get(b, k))
  IN  Once(IF a.kind = "object" THEN Chain(member, a.keys, a.items, 1) ELSE Chain(ValuesEqual, a.items, b.items, 1), LAMBDA parts : IF a.kind # b.kind \/ a.n # b.n \/ a.s # b.s \/ Len(a.items) # Len(b.items) THEN Verdict(1, 1) ELSE Verdict(parts.c, 1 + parts.ticks))

\* A computed value [v, ticks].
Computed(v, ticks) == [v |-> v, ticks |-> ticks]
NumericBinary(op, a, b) ==
  LET sign == IF (a.n < 0) = (b.n < 0) THEN 1 ELSE -1 IN
  CASE a.kind # "number" \/ b.kind # "number" -> JqError("runtime")
    [] op = "+" -> JqNumber(a.n + b.n) [] op = "-" -> JqNumber(a.n - b.n) [] op = "*" -> JqNumber(a.n * b.n)
    [] b.n = 0 -> JqError("runtime")
    [] op = "/" -> JqNumber(sign * (Absolute(a.n) \div Absolute(b.n)))
    [] OTHER -> JqNumber((IF a.n < 0 THEN -1 ELSE 1) * (Absolute(a.n) % Absolute(b.n)))
RepeatString(s, n) ==
  IF n < 0 THEN JqNull ELSE IF Len(s) = 0 \/ n = 0 THEN JqString(<<>>)
  ELSE IF n > MaxValueBytes \/ Len(s) > MaxValueBytes \div n THEN JqError("bytes")
  ELSE JqString(FlattenSeq([i \in 1..n |-> s]))
RECURSIVE Pieces(_, _, _)
Pieces(s, sep, piece) ==
  IF s = <<>> THEN <<piece>>
  ELSE IF sep # <<>> /\ IsPrefix(sep, s) THEN <<piece>> \o Pieces(SubSeq(s, Len(sep) + 1, Len(s)), sep, <<>>)
  ELSE Pieces(Tail(s), sep, Append(piece, Head(s)))
SplitText(s, sep) == IF s = <<>> THEN <<>> ELSE IF sep = <<>> THEN [i \in DOMAIN s |-> <<s[i]>>] ELSE Pieces(s, sep, <<>>)
SubtractArrays(a, b) ==
  LET hits(v) == {i \in DOMAIN b.items : ValuesEqual(v, b.items[i]).c = 0}
      last(v) == IF hits(v) = {} THEN Len(b.items) ELSE Min(hits(v))
      cost(v) == FoldLeft(LAMBDA n, i : n + 1 + ValuesEqual(v, b.items[i]).ticks, 0, [i \in 1..last(v) |-> i])
  IN Computed(JqArray(SelectSeq(a.items, LAMBDA v : hits(v) = {})), FoldLeft(LAMBDA n, v : n + cost(v), 0, a.items))
RECURSIVE MergeObjectsRecursive(_, _)
MergeObjectsRecursive(a, b) ==
  Once(
                [i \in DOMAIN b.keys |-> IF Get(a, b.keys[i]).kind = "object" /\ b.items[i].kind = "object"
                                         THEN MergeObjectsRecursive(Get(a, b.keys[i]), b.items[i]) ELSE Computed(b.items[i], 0)], LAMBDA merged :
  LET bad == SelectInSeq(merged, LAMBDA m : IsError(m.v))
      ticks == FoldLeft(LAMBDA n, m : n + 1 + m.ticks, 0, SubSeq(merged, 1, IF bad = 0 THEN Len(merged) ELSE bad))
  IN  Computed(IF bad # 0 THEN merged[bad].v ELSE JqObject(Members(a) \o [i \in DOMAIN b.keys |-> Member(b.keys[i], merged[i].v)]), ticks))
AddValues(a, b) ==
  CASE a.kind = "null" -> b [] b.kind = "null" -> a
    [] a.kind # b.kind -> JqError("runtime")
    [] a.kind = "number" -> NumericBinary("+", a, b)
    [] a.kind = "string" -> JqString(a.s \o b.s)
    [] a.kind = "array" -> JqArray(a.items \o b.items)
    [] a.kind = "object" -> JqObject(Members(a) \o Members(b))
    [] OTHER -> JqError("runtime")
JqComparisons == {"==", "!=", "<", "<=", ">", ">="}
Holds3(op, c) == CASE op = "==" -> c = 0 [] op = "!=" -> c # 0 [] op = "<" -> c < 0 [] op = "<=" -> c <= 0 [] op = ">" -> c > 0 [] OTHER -> c >= 0
ApplyBinary(op, a, b) ==
  LET kinds == <<a.kind, b.kind>>
  IN  Once(CompareValuesJq(a, b), LAMBDA cmp :
  LET split == SplitText(a.s, b.s)
  IN
     CASE op \in JqComparisons -> Computed(JqBool(Holds3(op, cmp.c)), cmp.ticks)
       [] op = "+" -> Computed(AddValues(a, b), 0)
       [] op = "-" /\ kinds = <<"array", "array">> -> SubtractArrays(a, b)
       [] op = "*" /\ kinds = <<"string", "number">> -> Computed(RepeatString(a.s, b.n), 0)
       [] op = "*" /\ kinds = <<"number", "string">> -> Computed(RepeatString(b.s, a.n), 0)
       [] op = "*" /\ kinds = <<"object", "object">> -> MergeObjectsRecursive(a, b)
       [] op = "/" /\ kinds = <<"string", "string">> ->
            Computed(IF Len(split) > MaxValueNodes - 1 THEN JqError("nodes") ELSE JqArray([i \in DOMAIN split |-> JqString(split[i])]), 0)
       [] OTHER -> Computed(NumericBinary(op, a, b), 0))
(***************************************************************************)
(* Filters: [k, op, name, lit, xs].  What is in hand while one is          *)
(* evaluated: st = [steps, nodes, bytes], the last two being retained.     *)
(* An evaluation is [st, out, err, held]: its results so far, the error    *)
(* that ended it, and the values it retains and has yet to work through.   *)
(***************************************************************************)
JqNode(k, op, name, lit, xs) == [k |-> k, op |-> op, name |-> name, lit |-> lit, xs |-> xs]
JqOf(k, xs) == JqNode(k, "", <<>>, JqNull, xs)
Sum(f(_), s) == FoldLeft(LAMBDA n, v : n + f(v), 0, s)
JqNodesOf(s) == Sum(LAMBDA v : v.nodes, s)
JqBytesOf(s) == Sum(LAMBDA v : v.bytes, s)
Tick(st, n) == [st EXCEPT !.steps = @ + n]
Late(st) == st.steps > MaxEvalSteps
Fits(st, nodes, bytes) == nodes <= MaxResultNodes - st.nodes /\ bytes <= MaxResultBytes - st.bytes
RetainSize(st, nodes, bytes) == [st EXCEPT !.nodes = @ + nodes, !.bytes = @ + bytes]
RetainJq(st, s) == RetainSize(st, JqNodesOf(s), JqBytesOf(s))
ReleaseJq(st, s) == RetainSize(st, -JqNodesOf(s), -JqBytesOf(s))
Retainable(st, s) == Fits(st, JqNodesOf(s), JqBytesOf(s))
Yields(st, out, err) == [st |-> st, out |-> out, err |-> err, held |-> <<>>]
Single(st, v) == IF IsError(v) THEN Yields(st, <<>>, v.s[1]) ELSE Yields(st, <<v>>, "")
StopJq(r, err) == [r EXCEPT !.err = err]

\* An accumulator refuses a result beyond its limits, and with kept also retains it.
AddResult(r, v, kept) ==
  CASE r.err # "" -> r
    [] IsError(v) -> StopJq(r, v.s[1])
    [] Len(r.out) >= MaxResults \/ v.nodes > MaxResultNodes - JqNodesOf(r.out) \/ v.bytes > MaxResultBytes - JqBytesOf(r.out) -> StopJq(r, "results")
    [] kept /\ ~Retainable(r.st, <<v>>) -> StopJq(r, "retention")
    [] OTHER -> [r EXCEPT !.out = Append(@, v), !.st = IF kept THEN RetainJq(@, <<v>>) ELSE @]
AddAll(r, s, kept) == FoldLeft(LAMBDA a, v : AddResult(a, v, kept), r, s)
Ticked(r, n) == LET st == Tick(r.st, n) IN IF r.err # "" THEN r ELSE [r EXCEPT !.st = st, !.err = IF Late(st) THEN "steps" ELSE ""]
RECURSIVE Through(_, _, _)
Through(Step(_, _), r, s) == IF s = <<>> \/ r.err # "" THEN r ELSE Through(Step, Step(r, Head(s)), Tail(s))
\* Over the results of an evaluation, which are not retained; its own error comes last.
Over(e, Step(_, _)) == LET r == Through(Step, Yields(e.st, <<>>, ""), e.out) IN IF r.err # "" THEN r ELSE StopJq(r, e.err)

\* Mutant: the value worked through stays in the list that is given back at the end.
LetGoTwice(r) == [r EXCEPT !.st = ReleaseJq(@, <<Head(r.held)>>), !.held = Append(Tail(@), Head(@))]
LetGo(r) == [r EXCEPT !.st = ReleaseJq(@, <<Head(r.held)>>), !.held = Tail(@)]
\* Over results retained until each has been worked through, which Step does with LetGo; the outcome is retained meanwhile.
\* Whatever ends the loop, what is still held and the outcome are given back.
OverHeld(e, Step(_, _)) ==
  Once(Through(Step, [Yields(RetainJq(e.st, e.out), <<>>, "") EXCEPT !.held = e.out], e.out), LAMBDA r :
  IF ~Retainable(e.st, e.out) THEN Yields(e.st, <<>>, "retention")
  ELSE Yields(ReleaseJq(r.st, r.held \o r.out), r.out, IF r.err # "" THEN r.err ELSE e.err))

Bounded(e) == AddAll(Yields(e.st, <<>>, ""), e.out, FALSE)
\* Of a list of members, those whose key is fixed by the text.
RECURSIVE Ungrouped(_)
Ungrouped(n) == IF n.k = "group" THEN Ungrouped(n.xs[1]) ELSE n
StaticObjectKey(m) ==
  LET key == Ungrouped(m.xs[1]) IN
  IF m.k = "fixed" THEN <<m.name>> ELSE IF key.k = "literal" /\ key.lit.kind = "string" THEN <<key.lit.s>> ELSE <<>>
Overwritten(key, later) == \E i \in DOMAIN later : StaticObjectKey(later[i]) = <<key>>
MemberValue(m) == m.xs[Len(m.xs)]

\* A filter, its parts and the members of its objects.
RECURSIVE Evaluating(_, _, _, _, _, _)
EvalJq(n, in, st0) == Evaluating("node", n, in, st0, <<>>, <<>>)
EvalObjectMembers(ms, path, size, in, r) == Evaluating("members", ms, path, size, in, r)
EvaluateJq(n, in, steps, top) == Evaluating("program", n, in, steps, top, <<>>)

\* One value of a member goes on the path, and the members after it are worked through.
ProcessValue(ms, path, size, in, r, key, v) ==
  Once(SelectInSeq(path, LAMBDA m : m.key = key), LAMBDA at :
  LET extra == IF at = 0 THEN Len(key) + 3 + Separator(Len(path) + 1) ELSE 0
      next == AddAggregate(IF at = 0 THEN size ELSE Aggregate(size.nodes - path[at].v.nodes, size.bytes - path[at].v.bytes), v, extra)
      path1 == IF at = 0 THEN Append(path, Member(key, v)) ELSE [path EXCEPT ![at].v = v]
      done == EvalObjectMembers(Tail(ms), path1, next, in, [r EXCEPT !.st = RetainSize(@, v.nodes, v.bytes + extra)])
  IN
     CASE r.err # "" -> r
       [] next.err # "" -> StopJq(r, next.err)
       [] ~Fits(r.st, v.nodes, v.bytes + extra) -> StopJq(r, "retention")
       [] OTHER -> [done EXCEPT !.st = RetainSize(@, -v.nodes, -(v.bytes + extra))])
\* The key is looked at only when the member has a value; a value that is overwritten later is not kept.
ProcessKey(ms, path, size, in, r, key) ==
  LET e == EvalJq(MemberValue(Head(ms)), in, r.st)
      at == [r EXCEPT !.st = e.st]
      blank == Through(LAMBDA a, v : ProcessValue(ms, path, size, in, Ticked(a, 1), key.s, JqNull), at, e.out)
      step(a, v) == LET t == Ticked(a, 1) IN IF t.err # "" THEN t ELSE ProcessValue(ms, path, size, in, LetGo(t), key.s, v)
  IN  Once(Through(step, [at EXCEPT !.st = RetainJq(@, e.out), !.held = e.out], e.out), LAMBDA kept :
  LET ends(a) == IF a.err # "" THEN a ELSE StopJq(a, e.err)
  IN
     CASE e.out = <<>> -> StopJq(at, e.err)
       [] key.kind # "string" -> StopJq(at, "runtime")
       [] Overwritten(key.s, Tail(ms)) -> ends(blank)
       [] ~Retainable(at.st, e.out) -> StopJq(at, "retention")
       [] OTHER -> ends([kept EXCEPT !.st = ReleaseJq(@, kept.held), !.held = r.held]))
EvalMembersFrom(ms, path, size, in, r) ==
  LET m == Head(ms)
      keys == EvalJq(m.xs[1], in, r.st)
      step(a, k) == LetGo(ProcessKey(ms, path, size, in, a, k))
  IN  Once(Through(step, [r EXCEPT !.st = RetainJq(keys.st, keys.out), !.held = keys.out], keys.out), LAMBDA each :
     IF ms = <<>> THEN AddResult(r, JqObject(path), TRUE)
     ELSE IF m.k = "fixed" THEN ProcessKey(ms, path, size, in, r, JqScalar("string", 0, m.name, 0))
     ELSE IF ~Retainable(keys.st, keys.out) THEN StopJq([r EXCEPT !.st = keys.st], "retention")
     ELSE [each EXCEPT !.st = ReleaseJq(@, each.held), !.held = r.held, !.err = IF @ # "" THEN @ ELSE keys.err])
EvalObject(ms, in, st) ==
  LET r == EvalObjectMembers(ms, <<>>, Aggregate(1, 2), in, Yields(RetainSize(st, 1, 2), <<>>, "")) IN
  IF ~Fits(st, 1, 2) THEN Yields(st, <<>>, "retention") ELSE [r EXCEPT !.st = RetainSize(ReleaseJq(@, r.out), -1, -2)]

EvalField(n, in, st, optional) ==
  LET step(r, v) == LET t == Ticked(r, 1) f == FieldValue(v, n.name) IN IF t.err = "" /\ IsError(f) /\ optional THEN t ELSE AddResult(t, f, FALSE) IN
  Over(EvalJq(n.xs[1], in, st), step)
\* Each index is applied to every base before the next one: the base is evaluated again for each.
EvalIndex(n, in, st, optional) ==
  LET each(r, i, v) == LET t == Ticked(r, 1) f == IndexValue(v, i) IN IF t.err = "" /\ IsError(f) /\ optional THEN t ELSE AddResult(t, f, TRUE)
      step(r, i) == LET base == EvalJq(n.xs[1], in, r.st)
                    IN  Once(Through(LAMBDA a, v : each(a, i, v), [r EXCEPT !.st = base.st], base.out), LAMBDA d : IF d.err # "" THEN d ELSE StopJq(LetGo(d), base.err))
  IN OverHeld(EvalJq(n.xs[2], in, st), step)
EvalIterator(n, in, st, optional) ==
  LET step(r, v) == LET t == Ticked(r, 1) IN
        IF v.kind \in {"array", "object"} THEN AddAll(t, v.items, FALSE) ELSE IF t.err # "" \/ optional THEN t ELSE StopJq(t, "runtime") IN
  Over(EvalJq(n.xs[1], in, st), step)
EvalOptionalJq(n, in, st) ==
  LET e == EvalJq(n, in, st) IN
  CASE n.k = "field" -> EvalField(n, in, st, TRUE)
    [] n.k = "index" -> EvalIndex(n, in, st, TRUE)
    [] n.k = "iterator" -> EvalIterator(n, in, st, TRUE)
    [] OTHER -> IF e.err = "runtime" THEN Bounded(e) ELSE e
EvalPipe(n, in, st) ==
  LET step(r, v) == LET right == EvalJq(n.xs[2], v, r.st)
                        d == AddAll([r EXCEPT !.st = right.st], right.out, TRUE)
                    IN IF d.err # "" THEN d ELSE StopJq(LetGo(d), right.err)
  IN OverHeld(EvalJq(n.xs[1], in, st), step)
EvalComma(n, in, st) ==
  LET left == EvalJq(n.xs[1], in, st)
      right == EvalJq(n.xs[2], in, RetainJq(left.st, left.out))
      both == AddAll(Yields(ReleaseJq(right.st, left.out), <<>>, ""), left.out \o right.out, FALSE)
  IN IF left.err # "" THEN left
     ELSE IF ~Retainable(left.st, left.out) THEN StopJq(left, "retention")
     ELSE IF both.err # "" THEN both ELSE StopJq(both, right.err)
EvalAlternative(n, in, st) ==
  LET left == Over(EvalJq(n.xs[1], in, st), LAMBDA r, v : IF Truthy(v) THEN AddResult(r, v, FALSE) ELSE r) IN
  IF left.err # "" \/ left.out # <<>> THEN left ELSE EvalJq(n.xs[2], in, left.st)
EvalLogic(n, in, st) ==
  LET short(v) == Truthy(v) = (n.op = "or")
      each(r, v) == AddResult(Ticked(r, 1), JqBool(Truthy(v)), TRUE)
      step(r, v) == LET right == EvalJq(n.xs[2], in, r.st)
                    IN  Once(IF short(v) THEN AddResult(r, JqBool(n.op = "or"), TRUE) ELSE Through(each, [r EXCEPT !.st = right.st], right.out), LAMBDA d : IF d.err # "" THEN d ELSE StopJq(LetGo(d), IF short(v) THEN "" ELSE right.err))
  IN OverHeld(EvalJq(n.xs[1], in, st), step)
\* The left operand is evaluated again for every value of the right one, and retained while it is combined with it.
ApplyBinaryBatch(op, left, right, r) ==
  LET each(a, v) == Once(ApplyBinary(op, v, right), LAMBDA c : AddResult(Ticked(Ticked(a, 1), c.ticks), c.v, TRUE))
  IN  Once(Through(each, [r EXCEPT !.st = RetainJq(@, left)], left), LAMBDA d : IF Retainable(r.st, left) THEN [d EXCEPT !.st = ReleaseJq(@, left)] ELSE StopJq(r, "retention"))
EvalOrdinaryBinary(n, in, st) ==
  LET step(r, v) == LET left == EvalJq(n.xs[1], in, r.st)
                    IN  Once(ApplyBinaryBatch(n.op, left.out, v, [r EXCEPT !.st = left.st]), LAMBDA d : IF d.err # "" THEN d ELSE StopJq(LetGo(d), left.err))
  IN OverHeld(EvalJq(n.xs[2], in, st), step)
\* What map has retained is given back however it ends, and then it has no result.
MapSize(items) == Aggregate(1 + JqNodesOf(items), 2 + JqBytesOf(items) + (IF items = <<>> THEN 0 ELSE Len(items) - 1))
EvalMap(n, in, st) ==
  LET add(r, v) == LET sep == Separator(Len(r.out) + 1)
                       sum == AddAggregate(MapSize(r.out), v, sep)
                   IN IF sum.err # "" THEN StopJq(r, sum.err)
                      ELSE IF ~Fits(r.st, v.nodes, v.bytes + sep) THEN StopJq(r, "retention")
                      ELSE [r EXCEPT !.st = RetainSize(@, v.nodes, v.bytes + sep), !.out = Append(@, v)]
      step(r, v) == LET t == Ticked(r, 1)
                        e == EvalJq(n.xs[1], v, t.st)
                    IN IF t.err # "" THEN t ELSE IF e.err # "" THEN [t EXCEPT !.st = e.st, !.err = e.err] ELSE Through(add, [t EXCEPT !.st = e.st], e.out)
  IN  Once(Through(step, Yields(RetainSize(st, 1, 2), <<>>, ""), in.items), LAMBDA d :
  LET after == RetainSize(d.st, -MapSize(d.out).nodes, -MapSize(d.out).bytes)
  IN
     CASE in.kind \notin {"array", "object"} -> Yields(st, <<>>, "runtime")
       [] ~Fits(st, 1, 2) -> Yields(st, <<>>, "retention")
       [] d.err # "" -> Yields(after, <<>>, d.err)
       [] OTHER -> Single(after, JqArray(d.out)))
TypeNames == [null |-> <<"b", "a">>, boolean |-> <<"b", "b">>, number |-> <<"b", "c">>, string |-> <<"c", "a">>, array |-> <<"c", "b">>, object |-> <<"c", "c">>]
EvalCallJq(n, in, st) ==
  CASE n.op = "empty" -> Yields(st, <<>>, "")
    [] n.op = "not" -> Single(st, JqBool(~Truthy(in)))
    [] n.op = "type" -> Single(st, JqString(TypeNames[in.kind]))
    [] n.op = "length" -> Single(st, LengthValue(in))
    [] n.op = "keys" -> Single(st, KeysValue(in))
    [] n.op = "has" -> Over(EvalJq(n.xs[1], in, st), LAMBDA r, k : AddResult(r, HasValue(in, k), FALSE))
    [] n.op = "select" -> Over(EvalJq(n.xs[1], in, st), LAMBDA r, v : IF Truthy(v) THEN AddResult(r, in, FALSE) ELSE r)
    [] OTHER -> EvalMap(n, in, st)
EvalArray(n, in, st) ==
  LET e == EvalJq(n.xs[1], in, st) IN
  IF n.xs = <<>> THEN Single(st, JqArray(<<>>)) ELSE IF e.err # "" THEN Yields(e.st, <<>>, e.err) ELSE Single(e.st, JqArray(e.out))
EvalNodeJq(n, in, st0) ==
  LET st == Tick(st0, 1) IN
  CASE Late(st) -> Yields(st, <<>>, "steps")
    [] n.k = "identity" -> Yields(st, <<in>>, "")
    [] n.k = "literal" -> Yields(st, <<n.lit>>, "")
    [] n.k = "field" -> EvalField(n, in, st, FALSE)
    [] n.k = "index" -> EvalIndex(n, in, st, FALSE)
    [] n.k = "iterator" -> EvalIterator(n, in, st, FALSE)
    [] n.k = "group" -> EvalJq(n.xs[1], in, st)
    [] n.k = "optional" -> EvalOptionalJq(n.xs[1], in, st)
    [] n.k = "pipe" -> EvalPipe(n, in, st)
    [] n.k = "comma" -> EvalComma(n, in, st)
    [] n.k = "alternative" -> EvalAlternative(n, in, st)
    [] n.k = "binary" -> IF n.op \in {"and", "or"} THEN EvalLogic(n, in, st) ELSE EvalOrdinaryBinary(n, in, st)
    [] n.k = "negate" -> Over(EvalJq(n.xs[1], in, st), LAMBDA r, v : AddResult(r, NegateNumber(v), FALSE))
    [] n.k = "array" -> EvalArray(n, in, st)
    [] n.k = "object" -> EvalObject(n.xs, in, st)
    [] OTHER -> EvalCallJq(n, in, st)
\* One input, after earlier ones that made top results in all.
EvaluateProgram(n, in, steps, top) ==
  LET e == EvalJq(n, in, [steps |-> steps, nodes |-> 0, bytes |-> 0])
      b == Bounded(e)
      left == MaxResults - top
      ends(out, err) == [out |-> out, err |-> err, steps |-> e.st.steps, top |-> top + Len(out)]
  IN CASE e.st.nodes # 0 \/ e.st.bytes # 0 -> ends(<<>>, "internal")
       [] b.err # "" -> [ends(b.out, b.err) EXCEPT !.top = top]
       [] Len(b.out) > left -> ends(SubSeq(b.out, 1, left), "results")
       [] OTHER -> ends(b.out, e.err)
Evaluating(k, x, y, z, u, v) ==
  CASE k = "node" -> EvalNodeJq(x, y, z)
    [] k = "members" -> EvalMembersFrom(x, y, z, u, v)
    [] k = "program" -> EvaluateProgram(x, y, z, u)

-----------------------------------------------------------------------------
\* What a filter means: the stream of its results, which an error ends.
UpToError(s) == LET at == SelectInSeq(s, IsError) IN IF at = 0 THEN s ELSE SubSeq(s, 1, at)
Bind(s, f(_)) == UpToError(FlattenSeq([i \in DOMAIN s |-> IF IsError(s[i]) THEN <<s[i]>> ELSE f(s[i])]))
UnlessForgiven(forgiven, v) == IF forgiven /\ IsError(v) THEN <<>> ELSE <<v>>
Contents(v, forgiven) == IF v.kind \in {"array", "object"} THEN v.items ELSE UnlessForgiven(forgiven, JqError("runtime"))
Collected(s) == IF s # <<>> /\ IsError(Last(s)) THEN <<Last(s)>> ELSE <<JqArray(s)>>
RECURSIVE JqMeaning(_, _)
RECURSIVE Objects(_, _, _)
Objects(ms, path, in) ==
  LET m == Head(ms)
      key == IF m.k = "fixed" THEN <<JqScalar("string", 0, m.name, 0)>> ELSE JqMeaning(m.xs[1], in)
      vals == JqMeaning(MemberValue(m), in)
  IN IF ms = <<>> THEN <<JqObject(path)>>
     ELSE Bind(key, LAMBDA k : IF k.kind # "string" /\ vals # <<>> /\ ~IsError(vals[1]) THEN <<JqError("runtime")>>
                               ELSE Bind(vals, LAMBDA v : Objects(Tail(ms), Append(path, Member(k.s, v)), in)))
Access(n, in, forgiven) ==
  CASE n.k = "field" -> Bind(JqMeaning(n.xs[1], in), LAMBDA v : UnlessForgiven(forgiven, FieldValue(v, n.name)))
    [] n.k = "index" -> Bind(JqMeaning(n.xs[2], in), LAMBDA i : Bind(JqMeaning(n.xs[1], in), LAMBDA v : UnlessForgiven(forgiven, IndexValue(v, i))))
    [] OTHER -> Bind(JqMeaning(n.xs[1], in), LAMBDA v : Contents(v, forgiven))
Tried(s) == IF s # <<>> /\ Last(s).kind = "error" /\ Last(s).s = <<"runtime">> THEN Front(s) ELSE s
CallMeaning(n, in) ==
  CASE n.op = "empty" -> <<>>
    [] n.op = "not" -> <<JqBool(~Truthy(in))>>
    [] n.op = "type" -> <<JqString(TypeNames[in.kind])>>
    [] n.op = "length" -> <<LengthValue(in)>>
    [] n.op = "keys" -> <<KeysValue(in)>>
    [] n.op = "has" -> Bind(JqMeaning(n.xs[1], in), LAMBDA k : <<HasValue(in, k)>>)
    [] n.op = "select" -> Bind(JqMeaning(n.xs[1], in), LAMBDA v : IF Truthy(v) THEN <<in>> ELSE <<>>)
    [] OTHER -> Collected(Bind(Contents(in, FALSE), LAMBDA v : JqMeaning(n.xs[1], v)))
JqMeaning(n, in) ==
  LET x == n.xs[1]
      y == n.xs[2]
      truths == SelectSeq(JqMeaning(x, in), LAMBDA v : IsError(v) \/ Truthy(v))
  IN CASE n.k = "identity" -> <<in>>
       [] n.k = "literal" -> <<n.lit>>
       [] n.k \in {"field", "index", "iterator"} -> Access(n, in, FALSE)
       [] n.k = "group" -> JqMeaning(x, in)
       [] n.k = "optional" -> IF x.k \in {"field", "index", "iterator"} THEN Access(x, in, TRUE) ELSE Tried(JqMeaning(x, in))
       [] n.k = "pipe" -> Bind(JqMeaning(x, in), LAMBDA v : JqMeaning(y, v))
       [] n.k = "comma" -> UpToError(JqMeaning(x, in) \o JqMeaning(y, in))
       [] n.k = "alternative" -> IF truths # <<>> THEN truths ELSE JqMeaning(y, in)
       [] n.k = "binary" /\ n.op \in {"and", "or"} ->
            Bind(JqMeaning(x, in), LAMBDA v : IF Truthy(v) = (n.op = "or") THEN <<JqBool(Truthy(v))>> ELSE Bind(JqMeaning(y, in), LAMBDA w : <<JqBool(Truthy(w))>>))
       [] n.k = "binary" -> Bind(JqMeaning(y, in), LAMBDA w : Bind(JqMeaning(x, in), LAMBDA v : <<ApplyBinary(n.op, v, w).v>>))
       [] n.k = "negate" -> Bind(JqMeaning(x, in), LAMBDA v : <<NegateNumber(v)>>)
       [] n.k = "array" -> Collected(IF n.xs = <<>> THEN <<>> ELSE JqMeaning(x, in))
       [] n.k = "object" -> Objects(n.xs, <<>>, in)
       [] OTHER -> CallMeaning(n, in)
Results(s) == SelectSeq(s, LAMBDA v : ~IsError(v))
EndOf(s) == IF s # <<>> /\ IsError(Last(s)) THEN Last(s).s[1] ELSE ""

RECURSIVE Measure(_)
Measure(v) ==
  LET parts == [i \in DOMAIN v.items |-> Measure(v.items[i])]
      text == CASE v.kind \in {"null"} -> 4 [] v.kind = "boolean" -> 5 - v.n [] v.kind = "number" -> DecimalBytes(v.n) [] v.kind = "string" -> Len(v.s) + 2
                [] OTHER -> 2 + Sum(LAMBDA p : p.bytes, parts) + Sum(LAMBDA k : Len(k) + 3, v.keys) + (IF parts = <<>> THEN 0 ELSE Len(parts) - 1)
  IN [nodes |-> 1 + Sum(LAMBDA p : p.nodes, parts), bytes |-> text, depth |-> IF v.kind \in {"array", "object"} THEN 1 + Max({0} \cup {parts[i].depth : i \in DOMAIN parts}) ELSE 0]
Measured(v) == LET m == Measure(v) IN v.nodes = m.nodes /\ v.bytes = m.bytes /\ v.depth = m.depth

JqStart == call.tool = "jq" /\ run.pc = "start"
JqStep == JqStart /\ run' = [pc |-> "done", e |-> EvalJq(call.filter, call.in, [steps |-> 0, nodes |-> 0, bytes |-> 0])]
JqEnded == call.tool = "jq" /\ run.pc = "done"
\* Every value retained while a filter is evaluated is given back exactly once, whichever result, error or limit ends it: evaluate never reports its accounting imbalance.
RetentionBalanced == JqEnded => run.e.st.nodes = 0 /\ run.e.st.bytes = 0
\* The evaluator, which evaluates operands again, works through retained batches and leaves out object values that a later key replaces, gives the results the filter means, in order and with its error; a limit can only cut them short.
JqMeansIt ==
  JqEnded =>
    Once(JqMeaning(call.filter, call.in), LAMBDA s :
    LET cut == run.e.err \in {"steps", "results", "retention", "nodes", "bytes"}
    IN  IF cut THEN IsPrefix(run.e.out, Results(s)) ELSE run.e.out = Results(s) /\ run.e.err = EndOf(s))
\* The nodes, bytes and depth carried by every result, on which all limits are decided, are those of the value it is.
JqSizesTrue == JqEnded => \A i \in DOMAIN run.e.out : Measured(run.e.out[i])
\* Comparing values is a total order whose equality is that of subtracting arrays: opposite when swapped, transitive, and blind to the order of an object's members.
JqOrder ==
  call.tool = "jqorder" =>
    LET c(a, b) == CompareValuesJq(a, b).c IN
    \A b \in call.others : /\ c(call.a, b) = -c(b, call.a)
                            /\ (c(call.a, b) = 0) = (ValuesEqual(call.a, b).c = 0)
                            /\ \A d \in call.others : c(call.a, b) <= 0 /\ c(b, d) <= 0 => c(call.a, d) <= 0

-----------------------------------------------------------------------------
(***************************************************************************)
(* The lexer and the parser of jq filters (lexer.go, parser.go).  A text   *)
(* is a sequence of symbols; the words the language knows are one symbol   *)
(* each, letters that an identifier may begin with like any other.         *)
(***************************************************************************)
CONSTANTS MaxFilterNodes, MaxFilterBytes

JqDigits == <<"0", "1", "2">>
IsDigit(ch) == ch \in ToSet(JqDigits)
JqWords == {"and", "or", "null", "true", "false", "length", "keys", "type", "empty", "not", "select", "map", "has"}
IsIdentifierStart(ch) == ch \in {"a", "b", "e"} \cup JqWords
IsIdentifierContinue(ch) == IsIdentifierStart(ch) \/ IsDigit(ch)
\* The symbol at i, or nothing past the end; the first place from i on whose symbol is not one of those.
SymbolAt(s, i) == IF i <= Len(s) THEN s[i] ELSE "end"
Past(s, i, Is(_)) == Min({j \in i..Len(s) : ~Is(s[j])} \cup {Len(s) + 1})
JqTok(k, t, pos, next) == [k |-> k, t |-> t, pos |-> pos, next |-> next]
LexRefusal(i) == JqTok("error", <<>>, i, i)
(***************************************************************************)
(* One token from the place i, where there is no space.                    *)
(***************************************************************************)
LexNumber(s, i) ==
  LET dotted == s[i] = "."
      whole == Past(s, IF dotted THEN i + 1 ELSE i, IsDigit)
      fraction == IF ~dotted /\ SymbolAt(s, whole) = "." THEN Past(s, whole + 1, IsDigit) ELSE whole
      sign == IF SymbolAt(s, fraction + 1) \in {"+", "-"} THEN fraction + 2 ELSE fraction + 1
      number(end) == JqTok("num", SubSeq(s, i, end - 1), i, end)
  IN IF SymbolAt(s, fraction) # "e" THEN number(fraction)
     ELSE IF IsDigit(SymbolAt(s, sign)) THEN number(Past(s, sign, IsDigit)) ELSE LexRefusal(i)
\* A string has no escapes here; its token is what stands between its quotes.
LexString(s, i) == LET end == Past(s, i + 1, LAMBDA ch : ch # "quote") IN IF end > Len(s) THEN LexRefusal(i) ELSE JqTok("str", SubSeq(s, i + 1, end - 1), i, end + 1)
LexOptional(s, i) == IF SymbolAt(s, i + 1) = "/" /\ SymbolAt(s, i + 2) = "/" THEN LexRefusal(i) ELSE JqTok("?", <<>>, i, i + 1)
LexNextJq(s, i) ==
  LET c == s[i]
      d == SymbolAt(s, i + 1)
      one == JqTok(c, <<>>, i, i + 1)
      two(k) == JqTok(k, <<>>, i, i + 2)
      name(from, k) == LET end == Past(s, from, IsIdentifierContinue) IN JqTok(k, SubSeq(s, from, end - 1), i, end)
  IN CASE d = "=" /\ c \in {"|", "+", "-", "*", "%"} -> LexRefusal(i)
       [] c = "." -> IF IsDigit(d) THEN LexNumber(s, i) ELSE IF d = "." THEN LexRefusal(i) ELSE one
       [] c = "?" -> LexOptional(s, i)
       [] c = "/" /\ d = "/" -> two("//")
       [] c \in {"(", ")", "[", "]", "{", "}", ":", ",", "|", "/", "+", "-", "*", "%"} -> one
       [] c = "=" -> IF d = "=" THEN two("==") ELSE LexRefusal(i)
       [] c = "!" -> IF d = "=" THEN two("!=") ELSE LexRefusal(i)
       [] c = "<" -> IF d = "=" THEN two("<=") ELSE one
       [] c = ">" -> IF d = "=" THEN two(">=") ELSE one
       [] c = "$" -> IF IsIdentifierStart(d) THEN name(i + 1, "var") ELSE LexRefusal(i)
       [] c = "quote" -> LexString(s, i)
       [] IsDigit(c) -> LexNumber(s, i)
       [] IsIdentifierStart(c) -> name(i, "id")
       [] OTHER -> LexRefusal(i)
RECURSIVE LexFromJq(_, _)
LexFromJq(s, i) ==
  LET at == Past(s, i, LAMBDA ch : ch = " ")
  IN  Once(LexNextJq(s, at), LAMBDA tok : IF at > Len(s) THEN <<JqTok("eof", <<>>, at, at)>> ELSE IF tok.k = "error" THEN <<tok>> ELSE <<tok>> \o LexFromJq(s, tok.next))
\* The tokens of a text, the last of them the end or an error.
LexFilter(s) == IF Len(s) > MaxFilterBytes THEN <<LexRefusal(1)>> ELSE LexFromJq(s, 1)
(***************************************************************************)
(* The parser: a state [n, at, nodes, depth, err] carries the node made    *)
(* last, over the tokens tk.                                               *)
(***************************************************************************)
PeekJq(tk, p) == tk[p.at]
Peeks(tk, p, k) == p.err = "" /\ tk[p.at].k = k
AdvanceJq(p) == [p EXCEPT !.at = @ + 1]
ParseError(p, why) == IF p.err # "" THEN p ELSE [p EXCEPT !.err = why]
Expect(tk, p, k) == IF Peeks(tk, p, k) THEN AdvanceJq(p) ELSE ParseError(p, "syntax")
MakeNode(p, n) == IF p.err # "" THEN p ELSE IF p.nodes >= MaxFilterNodes THEN ParseError(p, "nodes") ELSE [p EXCEPT !.n = n, !.nodes = @ + 1]
EnterJq(p) == IF p.err # "" THEN p ELSE IF p.depth >= MaxNestingDepth THEN ParseError(p, "depth") ELSE [p EXCEPT !.depth = @ + 1]
LeaveJq(p) == [p EXCEPT !.depth = @ - 1]

\* The binary operators by rising precedence: pipe, comma, alternative, or, and, comparison, sum, product.
JqLevels == <<{"|"}, {","}, {"//"}, {"or"}, {"and"}, JqComparisons, {"+", "-"}, {"*", "/", "%"}>>
UnaryLevel == 9
RightLevels == {1, 3}
OperatorOf(tok) == IF tok.k # "id" THEN tok.k ELSE IF tok.t \in {<<"and">>, <<"or">>} THEN tok.t[1] ELSE "id"
BinaryNode(op, x, y) ==
  CASE op = "|" -> JqOf("pipe", <<x, y>>) [] op = "," -> JqOf("comma", <<x, y>>) [] op = "//" -> JqOf("alternative", <<x, y>>) [] OTHER -> JqNode("binary", op, <<>>, JqNull, <<x, y>>)
IsFieldAfterDot(dot, field) == field.k = "str" \/ (field.k = "id" /\ field.pos = dot.pos + 1)
FieldNode(x, name) == JqNode("field", "", name, JqNull, <<x>>)
\* A number with a fraction or an exponent is known by its text.
NumberLiteral(t) ==
  IF \A i \in DOMAIN t : IsDigit(t[i]) THEN JqNumber(FoldLeft(LAMBDA n, ch : 10 * n + SelectInSeq(JqDigits, LAMBDA d : d = ch) - 1, 0, t))
  ELSE JqScalar("number", 0, t, Len(t))
LiteralNode(v) == JqNode("literal", "", <<>>, v, <<>>)
MakeLiteral(p, v) == IF IsError(v) THEN ParseError(p, "literal") ELSE MakeNode(p, LiteralNode(v))
CallNode(op, xs) == JqNode("call", op, <<>>, JqNull, xs)
JqConstants == [null |-> JqNull, true |-> JqBool(TRUE), false |-> JqBool(FALSE)]

\* The parts of a filter that contain each other.
RECURSIVE ParsingJq(_, _, _, _)
ParseAt(tk, p, level) == ParsingJq("level", tk, p, level)
ParsePostfix(tk, p) == ParsingJq("postfix", tk, p, <<>>)
ParseMembers(tk, p, ms) == ParsingJq("members", tk, p, ms)

RECURSIVE ParseOperands(_, _, _)
RECURSIVE ParseUnaryJq(_, _)
RECURSIVE ParseObjectValue(_, _)
\* What stands in brackets: one level deeper, and closed by k.
Bracketed(tk, p, k) == Expect(tk, LeaveJq(ParseAt(tk, EnterJq(p), 1)), k)
\* The operand, then the operators that follow it, from the level that binds tightest down to this one.
RECURSIVE ParseFollowing(_, _, _, _)
ParseFollowing(tk, p, l, level) == IF p.err # "" \/ l < level THEN p ELSE ParseFollowing(tk, ParseOperands(tk, p, l), l - 1, level)
ParseLevel(tk, p, level) == IF p.err # "" THEN p ELSE ParseFollowing(tk, ParseUnaryJq(tk, p), UnaryLevel - 1, level)
ParseOperands(tk, p, level) ==
  LET op == OperatorOf(PeekJq(tk, p))
      right == ParseAt(tk, AdvanceJq(p), IF level \in RightLevels THEN level ELSE level + 1)
      both == MakeNode(right, BinaryNode(op, p.n, right.n))
  IN IF p.err # "" \/ op \notin JqLevels[level] THEN p
     ELSE IF level \in RightLevels THEN both
     ELSE IF op \notin JqComparisons THEN ParseOperands(tk, both, level)
     ELSE IF right.err = "" /\ PeekJq(tk, right).k \in JqComparisons THEN ParseError(right, "chained") ELSE both
ParseUnaryJq(tk, p) ==
  LET inner == ParseUnaryJq(tk, EnterJq(AdvanceJq(p))) IN
  IF p.err # "" THEN p ELSE IF Peeks(tk, p, "-") THEN LeaveJq(MakeNode(inner, JqOf("negate", <<inner.n>>))) ELSE ParsePostfix(tk, p)
ParseIdentifier(tk, p, t) ==
  LET word == IF Len(t) = 1 THEN t[1] ELSE "other"
      arg == Bracketed(tk, Expect(tk, p, "("), ")")
  IN CASE word \in DOMAIN JqConstants -> MakeNode(p, LiteralNode(JqConstants[word]))
       [] word \in {"length", "keys", "type", "empty", "not"} -> MakeNode(p, CallNode(word, <<>>))
       [] word \in {"select", "map", "has"} -> MakeNode(arg, CallNode(word, <<arg.n>>))
       [] OTHER -> ParseError(p, "unsupported")
FixedMember(name, x) == JqNode("fixed", "", name, JqNull, <<x>>)
DynamicMember(x, y) == JqOf("dynamic", <<x, y>>)
VariableNode(name) == JqNode("variable", "", name, JqNull, <<>>)
\* The member read last is the state's node; it is no node of its own.
ParseObjectMember(tk, p) ==
  LET tok == PeekJq(tk, p)
      q == AdvanceJq(p)
      value(r) == ParseObjectValue(tk, Expect(tk, r, ":"))
      given(r, m) == IF r.err # "" THEN r ELSE [r EXCEPT !.n = m]
      identity == MakeNode(q, JqOf("identity", <<>>))
      short == MakeNode(identity, FieldNode(identity.n, tok.t))
      var == MakeNode(q, VariableNode(tok.t))
      key == Expect(tk, ParseAt(tk, q, 1), ")")
  IN CASE tok.k \in {"str", "id"} -> IF Peeks(tk, q, ":") THEN given(value(q), FixedMember(tok.t, value(q).n)) ELSE given(short, FixedMember(tok.t, short.n))
       [] tok.k = "var" -> IF Peeks(tk, var, ":") THEN given(value(var), DynamicMember(var.n, value(var).n)) ELSE given(var, FixedMember(tok.t, var.n))
       [] tok.k = "(" -> given(value(key), DynamicMember(key.n, value(key).n))
       [] OTHER -> ParseError(p, "syntax")
ParseMembersFrom(tk, p, ms) ==
  Once(ParseObjectMember(tk, p), LAMBDA m :
  LET all == Append(ms, m.n)
      comma == Expect(tk, m, ",")
      made(r) == MakeNode(r, JqOf("object", all))
  IN
     CASE p.err # "" \/ m.err # "" -> m
       [] Peeks(tk, m, "}") -> made(AdvanceJq(m))
       [] Peeks(tk, comma, "}") -> made(AdvanceJq(comma))
       [] OTHER -> IF comma.err # "" THEN comma ELSE ParseMembers(tk, comma, all))
ParseObjectValue(tk, p) ==
  LET left == ParseAt(tk, p, 3)
      right == ParseObjectValue(tk, AdvanceJq(left))
  IN IF p.err # "" THEN p ELSE IF Peeks(tk, left, "|") THEN MakeNode(right, JqOf("pipe", <<left.n, right.n>>)) ELSE left
ParsePrimaryJq(tk, p) ==
  LET tok == PeekJq(tk, p)
      q == AdvanceJq(p)
      identity == MakeNode(q, JqOf("identity", <<>>))
      group == Bracketed(tk, q, ")")
      array == Bracketed(tk, q, "]")
  IN CASE tok.k = "." -> IF identity.err = "" /\ IsFieldAfterDot(tok, PeekJq(tk, identity)) THEN MakeNode(AdvanceJq(identity), FieldNode(identity.n, PeekJq(tk, identity).t)) ELSE identity
       [] tok.k = "var" -> MakeNode(q, VariableNode(tok.t))
       [] tok.k = "num" -> MakeLiteral(q, NumberLiteral(tok.t))
       [] tok.k = "str" -> MakeLiteral(q, JqString(tok.t))
       [] tok.k = "id" -> ParseIdentifier(tk, q, tok.t)
       [] tok.k = "(" -> MakeNode(group, JqOf("group", <<group.n>>))
       [] tok.k = "[" -> IF Peeks(tk, q, "]") THEN MakeNode(AdvanceJq(q), JqOf("array", <<>>)) ELSE MakeNode(array, JqOf("array", <<array.n>>))
       [] tok.k = "{" -> IF Peeks(tk, q, "}") THEN MakeNode(AdvanceJq(q), JqOf("object", <<>>)) ELSE LeaveJq(ParseMembers(tk, EnterJq(q), <<>>))
       [] OTHER -> ParseError(p, "syntax")
\* A dot may stand before an index.
IndexDot(tk, p) == PeekJq(tk, p).k = "["
RECURSIVE ParseSuffixes(_, _)
ParseSuffixes(tk, p) ==
  LET q == AdvanceJq(p)
      index == Bracketed(tk, q, "]")
  IN CASE p.err # "" -> p
       [] Peeks(tk, p, ".") -> IF IndexDot(tk, q) THEN ParseSuffixes(tk, q)
                               ELSE IF ~IsFieldAfterDot(PeekJq(tk, p), PeekJq(tk, q)) THEN ParseError(q, "syntax")
                               ELSE ParseSuffixes(tk, MakeNode(AdvanceJq(q), FieldNode(p.n, PeekJq(tk, q).t)))
       [] Peeks(tk, p, "[") -> IF Peeks(tk, q, "]") THEN ParseSuffixes(tk, MakeNode(AdvanceJq(q), JqOf("iterator", <<p.n>>)))
                               ELSE ParseSuffixes(tk, MakeNode(index, JqOf("index", <<p.n, index.n>>)))
       [] Peeks(tk, p, "?") -> ParseSuffixes(tk, MakeNode(q, JqOf("optional", <<p.n>>)))
       [] OTHER -> p
ParsePostfixed(tk, p) == ParseSuffixes(tk, ParsePrimaryJq(tk, p))
ParsingJq(k, x, y, z) ==
  CASE k = "level" -> ParseLevel(x, y, z)
    [] k = "postfix" -> ParsePostfixed(x, y)
    [] k = "members" -> ParseMembersFrom(x, y, z)

\* The tree of a text, or the reason that it is refused.
ParseFilter(s) ==
  Once(LexFilter(s), LAMBDA tk :
  LET p == [n |-> JqOf("identity", <<>>), at |-> 1, nodes |-> 0, depth |-> 0, err |-> IF Last(tk).k = "error" THEN "token" ELSE ""]
  IN  Once(ParseAt(tk, p, 1), LAMBDA r : IF r.err = "" /\ ~Peeks(tk, r, "eof") THEN ParseError(r, "syntax") ELSE r))
-----------------------------------------------------------------------------
\* The level at which the grammar makes a node, and whether its operands stand at levels that need no brackets.
OpOf(n) == CASE n.k = "pipe" -> "|" [] n.k = "comma" -> "," [] n.k = "alternative" -> "//" [] OTHER -> n.op
Infix == {"pipe", "comma", "alternative", "binary"}
LevelOf(n) == IF n.k \in Infix THEN CHOOSE l \in DOMAIN JqLevels : OpOf(n) \in JqLevels[l] ELSE IF n.k = "negate" THEN UnaryLevel ELSE UnaryLevel + 1
RECURSIVE IsObjectValue(_)
IsObjectValue(n) == LevelOf(n) >= 3 \/ (n.k = "pipe" /\ LevelOf(n.xs[1]) >= 3 /\ IsObjectValue(n.xs[2]))
RECURSIVE Grammatical(_)
Grammatical(n) ==
  LET l == LevelOf(n) IN
  /\ \A i \in DOMAIN n.xs : Grammatical(n.xs[i])
  /\ n.k \in Infix => (LevelOf(n.xs[1]) > l \/ (LevelOf(n.xs[1]) = l /\ l \notin {1, 3, 6})) /\ (LevelOf(n.xs[2]) > l \/ (LevelOf(n.xs[2]) = l /\ l \in {1, 3}))
  /\ n.k = "negate" => LevelOf(n.xs[1]) >= UnaryLevel
  /\ n.k \in {"field", "index", "iterator", "optional"} => LevelOf(n.xs[1]) > UnaryLevel
  /\ n.k \in {"fixed", "dynamic"} => IsObjectValue(MemberValue(n))
\* A text of a tree: operators stand between spaces, and a number ends in one.
LiteralText(v) ==
  CASE v.kind = "null" -> <<"null">> [] v.kind = "boolean" -> <<IF v.n = 1 THEN "true" ELSE "false">>
    [] v.kind = "string" -> <<"quote">> \o v.s \o <<"quote">>
    [] v.kind = "number" -> (IF v.s # <<>> THEN v.s ELSE <<JqDigits[v.n + 1]>>) \o <<" ">>
OpText == [op \in UNION ToSet(JqLevels) |->
             CASE op = "//" -> <<"/", "/">> [] op = "==" -> <<"=", "=">> [] op = "!=" -> <<"!", "=">> [] op = "<=" -> <<"<", "=">> [] op = ">=" -> <<">", "=">> [] OTHER -> <<op>>]
RECURSIVE SpellJq(_)
SpellJq(n) ==
  LET x == SpellJq(n.xs[1])
      y == SpellJq(n.xs[2])
      members == FlattenSeq([i \in DOMAIN n.xs |-> (IF i > 1 THEN <<",">> ELSE <<>>) \o SpellJq(n.xs[i])])
  IN CASE n.k \in Infix -> x \o <<" ">> \o OpText[OpOf(n)] \o <<" ">> \o y
       [] n.k = "identity" -> <<".">>
       [] n.k = "literal" -> LiteralText(n.lit)
       [] n.k = "variable" -> <<"$">> \o n.name
       [] n.k = "field" -> (IF n.xs[1].k = "identity" THEN <<>> ELSE x) \o <<".">> \o n.name
       [] n.k = "index" -> x \o <<"[">> \o y \o <<"]">>
       [] n.k = "iterator" -> x \o <<"[", "]">>
       [] n.k = "optional" -> x \o <<"?">>
       [] n.k = "negate" -> <<"-">> \o x
       [] n.k = "group" -> <<"(">> \o x \o <<")">>
       [] n.k = "array" -> <<"[">> \o (IF n.xs = <<>> THEN <<>> ELSE x) \o <<"]">>
       [] n.k = "object" -> <<"{">> \o members \o <<"}">>
       [] n.k = "fixed" -> n.name \o <<":", " ">> \o x
       [] n.k = "dynamic" -> <<"(">> \o x \o <<")", ":">> \o y
       [] OTHER -> <<n.op>> \o (IF n.xs = <<>> THEN <<>> ELSE <<"(">> \o x \o <<")">>)
RECURSIVE NodesIn(_)
NodesIn(n) == (IF n.k \in {"fixed", "dynamic"} THEN 0 ELSE 1) + Sum(NodesIn, n.xs)
RECURSIVE NestingOf(_)
NestingOf(n) ==
  LET most == Max({0} \cup {NestingOf(n.xs[i]) : i \in DOMAIN n.xs}) IN
  CASE n.k = "index" -> Max({NestingOf(n.xs[1]), 1 + NestingOf(n.xs[2])})
    [] n.k \in {"negate", "group", "array", "object", "call"} -> IF n.xs = <<>> THEN 0 ELSE 1 + most
    [] OTHER -> most
\* A filter written down is read back as the filter it was, and refused only when it is longer, has more nodes or is nested deeper than the limits say.
JqReadsBack ==
  call.tool = "jqspell" =>
    LET text == SpellJq(call.filter)
    IN  Once(ParseFilter(text), LAMBDA r :
    LET allowed == Len(text) <= MaxFilterBytes /\ NodesIn(call.filter) <= MaxFilterNodes /\ NestingOf(call.filter) <= MaxNestingDepth
    IN  (r.err = "") = allowed /\ (allowed => r.n = call.filter))
\* The kinds and texts of tokens, without the dot that may stand before an index.
TokenKinds(tk) == [i \in DOMAIN tk |-> <<tk[i].k, tk[i].t>>]
EndsOperand == {"id", "num", "str", "]", "?", ".", ")", "}"}
WithoutIndexDots(tk) == FlattenSeq([i \in DOMAIN tk |-> IF tk[i].k = "." /\ i > 1 /\ tk[i + 1].k = "[" /\ tk[i - 1].k \in EndsOperand THEN <<>> ELSE <<tk[i]>>])
\* The tree a text is read as accounts for every token of the text, in order: writing it down gives the same tokens.
JqTokensKept ==
  call.tool = "jqtext" =>
    Once(ParseFilter(call.text), LAMBDA r : r.err = "" => Grammatical(r.n) /\ TokenKinds(WithoutIndexDots(LexFilter(call.text))) = TokenKinds(LexFilter(SpellJq(r.n))))

=============================================================================
