------------------------------ MODULE AwkStore ------------------------------
(***************************************************************************)
(* The variables, arrays and call frames of a running awk program, and the *)
(* account of the bytes they hold.  A program may perform the operations   *)
(* in any order; an error ends it.  A local variable is a cell of the      *)
(* heap: an argument that has neither value nor elements yet is passed as  *)
(* an alias of the caller's cell, or of a global name.                     *)
(***************************************************************************)
EXTENDS Call, SequencesExt

CONSTANTS MaxVariableBytes, MaxFunctionDepth, MaxFunctionCalls
\* call = [tool |-> "awkstore", globals, params, key, values]: the global names, the parameters of the functions, the key and the values of the program

EmptyMap == [x \in {} |-> ""]
AwkStr(s) == [kind |-> "string", s |-> s]
AwkNum(s) == [kind |-> "number", s |-> s]
Unassigned == [kind |-> "strnum", s |-> <<>>]
BuiltinArrays == {"ENVIRON"}

NewLocal == [val |-> AwkStr(<<>>), size |-> 0, set |-> FALSE, isArray |-> FALSE, elems |-> EmptyMap, alias |-> 0, global |-> ""]
StoreStart == [pc |-> "store", err |-> "", vars |-> ("FS" :> AwkStr(<<" ">>)), varSizes |-> EmptyMap, arrays |-> EmptyMap, environSet |-> FALSE,
               varBytes |-> 0, callArgBytes |-> 0, heap |-> <<>>, frames |-> <<>>, pending |-> <<>>, calls |-> 0]
StoreInit == run = StoreStart

Failed(st, e) == [StoreStart EXCEPT !.err = e, !.pc = "done"]     \* every error ends the program
Put(f, x, v) == x :> v @@ f
Without(f, x) == [y \in DOMAIN f \ {x} |-> f[y]]
SizeAt(f, x) == IF x \in DOMAIN f THEN f[x] ELSE 0
ElemBytes(elems, key) == IF key \in DOMAIN elems THEN Len(key) + Len(elems[key].s) ELSE 0
TotalOf(f) == FoldFunction(+, 0, f)
ArrayBytes(elems) == TotalOf([k \in DOMAIN elems |-> ElemBytes(elems, k)])
(***************************************************************************)
(* Locals and scalars.                                                     *)
(***************************************************************************)
LookupLocal(st, name) == IF st.frames = <<>> \/ name \notin DOMAIN Last(st.frames).locals THEN 0 ELSE Last(st.frames).locals[name]
RECURSIVE RootLocalVar(_, _)
RootLocalVar(st, i) == IF st.heap[i].alias = 0 THEN i ELSE RootLocalVar(st, st.heap[i].alias)
LocalIsArray(st, i) ==
  LET root == st.heap[RootLocalVar(st, i)] IN
  IF root.global # "" THEN root.global \in DOMAIN st.arrays \cup BuiltinArrays ELSE root.isArray
IsArray(st, name) == IF LookupLocal(st, name) # 0 THEN LocalIsArray(st, LookupLocal(st, name)) ELSE name \in DOMAIN st.arrays

MarkGlobalScalarName(st, name) ==
  IF name = "" \/ name \in DOMAIN st.vars THEN st ELSE [st EXCEPT !.vars = Put(@, name, Unassigned), !.varSizes = Put(@, name, 0)]
MarkLocalScalarRead(st, i) ==
  LET r == RootLocalVar(st, i) IN
  IF LocalIsArray(st, i) THEN st
  ELSE MarkGlobalScalarName([st EXCEPT !.heap[r].val = Unassigned, !.heap[r].set = TRUE], st.heap[r].global)
\* The value and the state after reading it: a name that is read is a scalar from then on.
GetVar(st, name) ==
  LET i == LookupLocal(st, name) IN
  IF i # 0 THEN IF LocalIsArray(st, i) THEN [st |-> st, v |-> Unassigned]
                ELSE IF st.heap[i].set THEN [st |-> st, v |-> st.heap[i].val]
                ELSE [st |-> MarkLocalScalarRead(st, i), v |-> Unassigned]
  ELSE IF name \in DOMAIN st.vars THEN [st |-> st, v |-> st.vars[name]]
  ELSE IF name \in BuiltinArrays THEN [st |-> st, v |-> Unassigned]
  ELSE [st |-> [st EXCEPT !.vars = Put(@, name, Unassigned)], v |-> Unassigned]

HoldBytes(st, old, size) == [st EXCEPT !.varBytes = @ - old + size]
Holds(st, old, size) == size <= MaxVariableBytes /\ st.varBytes - old + size <= MaxVariableBytes
SetLocalScalar(st, i, v) ==
  LET r == RootLocalVar(st, i)
      size == Len(v.s)
  IN  Once(r # i /\ ~LocalIsArray(st, r), LAMBDA marks :
  LET held == [HoldBytes(st, st.heap[i].size, size) EXCEPT !.heap[r].set = @ \/ marks]
      marked == IF marks THEN MarkGlobalScalarName(held, st.heap[r].global) ELSE held
  IN
     IF ~Holds(st, st.heap[i].size, size) THEN Failed(st, "storage limit")
     ELSE [marked EXCEPT !.heap[i] = [NewLocal EXCEPT !.val = v, !.size = size, !.set = TRUE]])
SetVar(st, name, v) ==
  LET i == LookupLocal(st, name)
      old == SizeAt(st.varSizes, name)
  IN IF IsArray(st, name) \/ (i = 0 /\ name \in BuiltinArrays) THEN Failed(st, "array as scalar")
     ELSE IF i # 0 THEN SetLocalScalar(st, i, v)
     ELSE IF name = "FS" /\ v.s = <<>> THEN Failed(st, "empty FS")
     ELSE IF ~Holds(st, old, Len(v.s)) THEN Failed(st, "storage limit")
     ELSE [HoldBytes(st, old, Len(v.s)) EXCEPT !.vars = Put(@, name, IF name = "FS" THEN AwkStr(v.s) ELSE v), !.varSizes = Put(@, name, Len(v.s))]
(***************************************************************************)
(* Arrays: an element lives in a cell of the heap or under a global name.  *)
(***************************************************************************)
Elems(st, at) == IF at.global # "" THEN st.arrays[at.global] ELSE st.heap[at.local].elems
WithElems(st, at, f) == IF at.global # "" THEN [st EXCEPT !.arrays[at.global] = f] ELSE [st EXCEPT !.heap[at.local].elems = f]
SetElem(st, at, key, v) ==
  LET old == ElemBytes(Elems(st, at), key)
      size == Len(key) + Len(v.s)
  IN IF st.err # "" THEN st
     ELSE IF ~Holds(st, old, size) THEN Failed(st, "storage limit")
     ELSE WithElems(HoldBytes(st, old, size), at, Put(Elems(st, at), key, v))

Environment == <<call.key>>      \* the names of the environment, each with the value "1"
EnsureBuiltinArray(st, name) ==
  IF name \notin BuiltinArrays \/ st.environSet THEN st
  ELSE FoldLeft(LAMBDA s, k : SetElem(s, [local |-> 0, global |-> name], k, [Unassigned EXCEPT !.s = <<"1">>]),
                [st EXCEPT !.environSet = TRUE, !.arrays = Put(@, name, EmptyMap)], Environment)
GlobalArray(st, name) ==
  Once(EnsureBuiltinArray(st, name), LAMBDA s :
  [st |-> IF s.err # "" THEN s ELSE IF name \in DOMAIN s.vars THEN Failed(s, "scalar as array")
          ELSE IF name \in DOMAIN s.arrays THEN s ELSE [s EXCEPT !.arrays = Put(@, name, EmptyMap)],
   at |-> [local |-> 0, global |-> name]])
EnsureLocalArray(st, name) ==
  LET i == LookupLocal(st, name)
      r == RootLocalVar(st, i)
  IN IF i = 0 THEN GlobalArray(st, name)
     ELSE IF st.heap[r].set /\ ~st.heap[r].isArray THEN [st |-> Failed(st, "scalar as array"), at |-> [local |-> r, global |-> ""]]
     ELSE IF st.heap[r].global # "" THEN GlobalArray(st, st.heap[r].global)
     ELSE [st |-> [st EXCEPT !.heap[r].isArray = TRUE], at |-> [local |-> r, global |-> ""]]

OnArray(st, name, Op(_, _)) == Once(EnsureLocalArray(st, name), LAMBDA a : IF a.st.err # "" THEN a.st ELSE Op(a.st, a.at))
GetArrayElem(st, name, key) == OnArray(st, name, LAMBDA s, at : IF key \in DOMAIN Elems(s, at) THEN s ELSE SetElem(s, at, key, Unassigned))
HasArrayElem(st, name) == OnArray(st, name, LAMBDA s, at : s)
SetArrayElem(st, name, key, v) == OnArray(st, name, LAMBDA s, at : SetElem(s, at, key, v))
DeleteArrayElem(st, name, key) ==
  OnArray(st, name, LAMBDA s, at : WithElems([s EXCEPT !.varBytes = @ - ElemBytes(Elems(s, at), key)], at, Without(Elems(s, at), key)))
EraseArray(st, at) ==
  LET s == WithElems([st EXCEPT !.varBytes = @ - ArrayBytes(Elems(st, at))], at, EmptyMap) IN
  IF at.global # "" THEN s ELSE [s EXCEPT !.heap[at.local].set = FALSE, !.heap[at.local].size = 0]
DeleteArray(st, name) == OnArray(st, name, EraseArray)
ReplaceArray(st, name, parts) ==
  FoldLeft(LAMBDA s, i : IF s.err # "" THEN s ELSE SetArrayElem(s, name, parts[i].key, parts[i].v), DeleteArray(st, name), [i \in DOMAIN parts |-> i])
(***************************************************************************)
(* Calls of a function: the arguments are evaluated one after the other,   *)
(* with whatever effects they have, before the frame is made.              *)
(***************************************************************************)
FunctionDepth(st) == Len(st.frames) + Len(st.pending)
StartCall(st) ==
  IF FunctionDepth(st) >= MaxFunctionDepth THEN Failed(st, "call depth")
  ELSE IF st.calls >= MaxFunctionCalls THEN Failed(st, "call limit")
  ELSE [st EXCEPT !.calls = @ + 1, !.pending = Append(@, <<>>)]

NoArg == [val |-> AwkStr(<<>>), set |-> FALSE, alias |-> 0, global |-> ""]
ValueArg(v) == [NoArg EXCEPT !.val = v, !.set = TRUE]
EvalVariableFunctionArg(st, name) ==
  LET i == LookupLocal(st, name) IN
  IF i # 0 THEN [val |-> st.heap[i].val, set |-> st.heap[i].set, global |-> "",
                 alias |-> IF LocalIsArray(st, i) \/ ~st.heap[i].set THEN RootLocalVar(st, i) ELSE 0]
  ELSE IF name \notin DOMAIN st.arrays /\ name \in DOMAIN st.vars THEN ValueArg(st.vars[name])
  ELSE [NoArg EXCEPT !.global = name]
ArgBytes(arg) == IF arg.set /\ arg.val.kind # "number" THEN Len(arg.val.s) ELSE 0
Retain(st, arg) ==
  IF ArgBytes(arg) > MaxVariableBytes - st.callArgBytes THEN Failed(st, "argument storage")
  ELSE [st EXCEPT !.callArgBytes = @ + ArgBytes(arg), !.pending[Len(st.pending)] = Append(@, arg)]
Released(args) == FoldLeft(LAMBDA n, arg : n + ArgBytes(arg), 0, args)

\* One cell for each parameter, then one for each global name passed without a value.
Frame(st, params, args) ==
  LET names == SetToSeq({args[i].global : i \in 1..Min({Len(args), Len(params)})} \ {""})
      base == Len(st.heap)
      AliasOf(arg) == IF arg.global # "" THEN base + Len(params) + SelectInSeq(names, LAMBDA n : n = arg.global) ELSE arg.alias
      cells == [i \in DOMAIN params |-> [NewLocal EXCEPT !.alias = IF i <= Len(args) THEN AliasOf(args[i]) ELSE 0]]
  IN [st EXCEPT !.heap = @ \o cells \o [i \in DOMAIN names |-> [NewLocal EXCEPT !.global = names[i]]],
                !.frames = Append(@, [base |-> base, height |-> Len(st.pending), locals |-> [p \in ToSet(params) |-> base + SelectInSeq(params, LAMBDA q : q = p)]])]
EvalUserFunction(st, params) ==
  LET args == Last(st.pending)
      bound == FoldLeft(LAMBDA s, i : IF s.err # "" \/ ~args[i].set THEN s ELSE SetLocalScalar(s, Len(st.heap) + i, args[i].val),
                        Frame([st EXCEPT !.pending = Front(@)], params, args), [i \in 1..Min({Len(args), Len(params)}) |-> i])
  IN [bound EXCEPT !.callArgBytes = @ - Released(args)]
Owned(local) == local.size + (IF local.alias = 0 THEN ArrayBytes(local.elems) ELSE 0)
PopFrame(st) ==
  LET frame == Last(st.frames) IN
  [st EXCEPT !.varBytes = @ - TotalOf([p \in DOMAIN frame.locals |-> Owned(st.heap[frame.locals[p]])]),
             !.heap = SubSeq(@, 1, frame.base), !.frames = Front(@)]
(***************************************************************************)
(* The program.                                                            *)
(***************************************************************************)
VarNames(st) == call.globals \cup (IF st.frames = <<>> THEN {} ELSE ToSet(call.params))
AtStatement(st) == Len(st.pending) = (IF st.frames = <<>> THEN 0 ELSE Last(st.frames).height)

ReadVar(st, name) == IF IsArray(st, name) \/ name \in BuiltinArrays THEN Failed(st, "array as scalar") ELSE GetVar(st, name).st
AssignVar(st, name, v) == IF IsArray(st, name) THEN Failed(st, "array as scalar") ELSE SetVar(GetVar(st, name).st, name, v)
AssignElem(st, name, key, v) == LET s == GetArrayElem(st, name, key) IN IF s.err # "" THEN s ELSE SetArrayElem(s, name, key, v)
EvalLength(st, name) == LET s == EnsureBuiltinArray(st, name) IN IF s.err # "" \/ IsArray(s, name) THEN s ELSE ReadVar(s, name)

\* The scalars of the running function that it has not passed while they had no value.
Settled(st) ==
  LET locals == Last(st.frames).locals
      Lent(i) == \E k \in DOMAIN st.pending : \E j \in DOMAIN st.pending[k] : st.pending[k][j].alias = i /\ st.pending[k][j].early
  IN IF st.frames = <<>> THEN EmptyMap
     ELSE [p \in {q \in DOMAIN locals : st.heap[locals[q]].set /\ ~Lent(locals[q])} |-> st.heap[locals[p]].val]
Enter(st) ==
  LET s == EvalUserFunction(st, call.params) IN IF s.err # "" THEN s ELSE [s EXCEPT !.frames[Len(s.frames)] = @ @@ [saved |-> Settled(st)]]

ExpressionOp(st) ==
  {ReadVar(st, x) : x \in VarNames(st)} \cup {EvalLength(st, x) : x \in VarNames(st)} \cup {AssignVar(st, x, v) : x \in VarNames(st), v \in call.values}
    \cup {GetArrayElem(st, x, call.key) : x \in VarNames(st)} \cup {HasArrayElem(st, x) : x \in VarNames(st)}
    \cup {AssignElem(st, x, call.key, v) : x \in VarNames(st), v \in call.values}
    \cup {ReplaceArray(st, x, <<[key |-> call.key, v |-> AwkStr(call.key)], [key |-> call.key \o call.key, v |-> AwkStr(<<>>)]>>) : x \in VarNames(st)}
StatementOp(st) == {SetVar(st, x, AwkStr(call.key)) : x \in VarNames(st)} \cup {DeleteArrayElem(st, x, call.key) : x \in VarNames(st)} \cup {DeleteArray(st, x) : x \in VarNames(st)}
Early(st, name) == LookupLocal(st, name) # 0 /\ ~st.heap[LookupLocal(st, name)].set
ArgumentOp(st) ==
  {Retain(st, EvalVariableFunctionArg(st, x) @@ [early |-> Early(st, x)]) : x \in VarNames(st)} \cup {Retain(st, ValueArg(v) @@ [early |-> FALSE]) : v \in call.values}

AwkStoreStep ==
  /\ call.tool = "awkstore" /\ run.pc = "store"
  /\ \/ run' \in ExpressionOp(run)
     \/ AtStatement(run) /\ run' \in StatementOp(run)
     \/ run' = StartCall(run)
     \/ ~AtStatement(run) /\ Len(Last(run.pending)) < Len(call.params) /\ run' \in ArgumentOp(run)
     \/ ~AtStatement(run) /\ run' = Enter(run)
     \/ AtStatement(run) /\ run.frames # <<>> /\ run' = PopFrame(run)

Stored(tool) == call.tool = tool /\ run.pc = "store"
\* The bytes charged against the storage limit are those of the variables, elements and locals that exist, through every
\* assignment, deletion, call and return, and never more than the limit.
StorageExact == Stored("awkstore") =>
  /\ run.varBytes <= MaxVariableBytes
  /\ run.varBytes = TotalOf(run.varSizes) + TotalOf([a \in DOMAIN run.arrays |-> ArrayBytes(run.arrays[a])])
                      + FoldLeft(LAMBDA n, local : n + local.size + ArrayBytes(local.elems), 0, run.heap)
\* No name is a scalar and an array, whichever of its aliases was used first.
OneKind == Stored("awkstore") =>
  /\ DOMAIN run.vars \cap DOMAIN run.arrays = {}
  /\ \A i \in DOMAIN run.heap : ~(run.heap[i].set /\ LocalIsArray(run, i))
\* A scalar that has a value when it is passed is passed by value: no callee changes it.
ByValue == Stored("awkstore") =>
  \A f \in 2..Len(run.frames) : \A p \in DOMAIN run.frames[f].saved : run.heap[run.frames[f - 1].locals[p]].val = run.frames[f].saved[p]
\* While a function body runs, only the arguments still waiting in the calls around it are charged as temporary.
ArgumentsReleased == Stored("awkstore") => run.callArgBytes = FoldLeft(LAMBDA n, args : n + Released(args), 0, run.pending)
=============================================================================
