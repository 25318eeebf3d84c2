-------------------------- MODULE InPlaceEdit_inv ---------------------------
(***************************************************************************)
(* The invariant of sed -i, for any number of commands, operands, slots    *)
(* and chunks, and the steps of a command up to the commit.                *)
(*                                                                         *)
(* The tasks of a command are bound to it by TaskInv: those of an operand  *)
(* it has not reached do not exist, those of its operand are where its own *)
(* label says, and those of an operand it has left are over or abandoned.  *)
(***************************************************************************)
EXTENDS InPlaceEdit, FiniteSetTheorems, TLAPS

EdType ==
  [pc : {"next", "opening", "read", "reading", "commit", "acquiring", "write", "writing", "waiting", "end"},
   op : 1..MaxOps + 1, orig : Seq(Chunk), new : Seq(Chunk), before : Seq(Chunk),
   restoring : BOOLEAN, ctx : BOOLEAN, writeTimer : BOOLEAN, outcomeTimer : BOOLEAN]
TaskType == [st : TaskStates, ok : BOOLEAN, mutated : BOOLEAN, n : Nat, gone : BOOLEAN]

Early == {"next", "end", "opening", "read", "reading"}
Active == {"running", "closed", "released", "sent"}
Writers == {"write", "rewrite"}
Openers == {"open", "acquire", "reacquire"}

\* Where a task of the current operand is, by the label of its command.
Stage(k, pc, restoring) ==
  IF k = "open" THEN IF pc \in {"next", "end"} THEN {"none"}
                     ELSE IF pc = "opening" THEN {"running", "sent"} ELSE {"over"}
  ELSE IF k = "read" THEN IF pc = "reading" THEN Active ELSE IF pc \in Early THEN {"none"} ELSE {"over"}
  ELSE IF pc \in Early \/ (~restoring /\ k \in {"reacquire", "rewrite"}) THEN {"none"}
  ELSE IF restoring /\ k \in {"acquire", "write"} THEN {"over"}
  ELSE IF k \in Writers THEN IF pc \in {"writing", "waiting"} THEN Active ELSE {"none"}
  ELSE IF pc = "commit" THEN {"none"} ELSE IF pc = "acquiring" THEN {"running", "sent"} ELSE {"over"}

\* A task that exists is of an operand of the command; nothing has come of it
\* while it runs; a write that runs has written the beginning of the file.
Sound(e, i, k) ==
  LET t == <<e, i, k>> IN
  /\ k \in Openers => task[t].st \notin {"closed", "released"}
  /\ task[t].st # "none" => i <= Len(Files[e])
  /\ task[t].st \in {"none", "running"} => ~task[t].ok
  /\ task[t].st = "none" => ~task[t].gone
  /\ k \in Writers /\ task[t].st = "running" => task[t].n <= Len(file[Files[e][i]])

\* A task of the current operand is abandoned only while its command waits for
\* the outcome of a write.
Current(e, k, t) ==
  /\ task[t].st \in Stage(k, ed[e].pc, ed[e].restoring)
  /\ ed[e].pc = "waiting" /\ k = Write(e) => task[t].gone
  /\ task[t].gone => (ed[e].pc = "waiting" /\ k = Write(e)) \/ task[t].st = "over"

\* The write of an operand that the command has left is the one that made it end.
Left(e, i, k) ==
  LET t == <<e, i, k>> IN
  \/ task[t].st \in {"none", "over"}
  \/ /\ task[t].gone
     /\ k \in Writers => ed[e].pc = "end" /\ ed[e].op = i + 1 /\ Write(e) = k /\ report[<<e, i>>] = "unknown"

TaskInv(e, i, k) ==
  /\ Sound(e, i, k)
  /\ i > ed[e].op => task[<<e, i, k>>].st = "none"
  /\ i = ed[e].op => Current(e, k, <<e, i, k>>)
  /\ i < ed[e].op => Left(e, i, k)

\* The task that is going to close a descriptor, and the command that is.
ByTask(e, i, k) ==
  \/ k \in Openers /\ task[<<e, i, k>>].st = "sent" /\ task[<<e, i, k>>].ok
  \/ /\ k = "open"
     /\ LET u == task[<<e, i, "read">>] IN
        u.st = "running" \/ (u.st \in {"closed", "released", "sent"} /\ u.ok)
  \/ k = "acquire" /\ task[<<e, i, "write">>].st = "running"
  \/ k = "reacquire" /\ task[<<e, i, "rewrite">>].st = "running"
ByCommand(e, i, k) ==
  /\ i = ed[e].op
  /\ \/ k = "open" /\ ed[e].pc \in {"read", "commit", "acquiring", "write", "writing", "waiting"}
     \/ k \in {"acquire", "reacquire"} /\ ed[e].pc = "write" /\ k = Acquire(e)
OpenInv(e, i, k) == <<e, i, k>> \in open <=> ByTask(e, i, k) \/ ByCommand(e, i, k)

\* The file of the current operand.
ContentInv(e) ==
  /\ ed[e].pc \notin {"next", "end"} => ed[e].op <= Len(Files[e])
  /\ ed[e].pc \in {"opening", "read", "reading"} => ~ed[e].restoring /\ file[File(e)] = ed[e].before
  /\ ed[e].pc \in {"commit", "acquiring", "write"} /\ ~ed[e].restoring => file[File(e)] = ed[e].before
  /\ ed[e].pc \in {"writing", "waiting"} =>
       /\ ~ed[e].restoring /\ ~task[Id(e, "write")].mutated => file[File(e)] = ed[e].before
       /\ task[Id(e, Write(e))].ok => file[File(e)] = Data(e)
  /\ ed[e].pc = "reading" /\ task[Id(e, "read")].ok => ed[e].orig = ed[e].before
  /\ ed[e].pc \notin Early => ed[e].orig = ed[e].before

\* An operand has one task at a time.
Alone(e, i) ==
  \A k, l \in Kinds :
    task[<<e, i, k>>].st \notin {"none", "over"} /\ task[<<e, i, l>>].st \notin {"none", "over"} => k = l

LocalInv(e) ==
  /\ ContentInv(e)
  /\ \A i \in 1..MaxOps : Alone(e, i)
  /\ \A i \in 1..MaxOps, k \in Kinds : TaskInv(e, i, k) /\ OpenInv(e, i, k)

IInv == TypeOK /\ SlotsExact /\ \A e \in Editors : LocalInv(e)

-----------------------------------------------------------------------------
\* Tasks are triples.
LEMMA TaskIs ==
  /\ \A e \in Editors, i \in 1..MaxOps, k \in Kinds : <<e, i, k>> \in Tasks
  /\ \A t \in Tasks : /\ t[1] \in Editors /\ t[2] \in 1..MaxOps /\ t[3] \in Kinds
                      /\ t = <<t[1], t[2], t[3]>>
BY DEF Tasks

\* Operands are files, and no two commands have one in common.
LEMMA OperandIs ==
  /\ \A e \in Editors : Len(Files[e]) \in Nat /\ Len(Files[e]) <= MaxOps
  /\ \A e \in Editors : \A i \in 1..Len(Files[e]) : i \in 1..MaxOps /\ Files[e][i] \in FileNames
  /\ \A d, e \in Editors : \A i \in 1..Len(Files[d]), j \in 1..Len(Files[e]) :
       d # e => Files[d][i] # Files[e][j]
BY EditAssumption DEF FileNames

\* All of a command's state but its context and its timers.
SameCommand(d) ==
  /\ ed'[d].pc = ed[d].pc /\ ed'[d].op = ed[d].op /\ ed'[d].restoring = ed[d].restoring
  /\ ed'[d].orig = ed[d].orig /\ ed'[d].new = ed[d].new /\ ed'[d].before = ed[d].before

\* Finitely many chunks are the content of a file.
LEMMA ChunksAreContent ==
  ASSUME NEW n \in Nat, NEW c \in [1..n -> Chunk]
  PROVE  c \in Seq(Chunk)
OBVIOUS

\* A command that a step does not concern keeps its part of the invariant.
LEMMA OthersKept ==
  ASSUME NEW d \in Editors, LocalInv(d), ed[d].op \in Nat \ {0}, SameCommand(d),
         \A i \in 1..MaxOps, k \in Kinds : /\ task'[<<d, i, k>>] = task[<<d, i, k>>]
                                           /\ <<d, i, k>> \in open' <=> <<d, i, k>> \in open,
         \A i \in 1..MaxOps : report'[<<d, i>>] = report[<<d, i>>],
         \A i \in 1..Len(Files[d]) : file'[Files[d][i]] = file[Files[d][i]]
  PROVE  LocalInv(d)'
<1>1. ContentInv(d)'
  <2>1. CASE ed[d].pc \in {"next", "end"}
    BY <2>1 DEF ContentInv, LocalInv, Early, SameCommand
  <2>2. CASE ed[d].pc \notin {"next", "end"}
    <3>1. PICK i \in 1..MaxOps : i = ed[d].op /\ i \in 1..Len(Files[d])
      BY <2>2, OperandIs DEF LocalInv, ContentInv
    <3>2. \A k \in Kinds : task'[<<d, i, k>>] = task[<<d, i, k>>]
      OBVIOUS
    <3>3. file'[Files[d][i]] = file[Files[d][i]]
      BY <3>1
    <3>4. Write(d)' = Write(d) /\ Data(d)' = Data(d) /\ Write(d) \in Kinds
      BY DEF Write, Data, Kinds, SameCommand
    <3>5. /\ File(d)' = Files[d][i] /\ File(d) = Files[d][i]
          /\ Id(d, "write")' = <<d, i, "write">> /\ Id(d, "write") = <<d, i, "write">>
          /\ Id(d, "read")' = <<d, i, "read">> /\ Id(d, "read") = <<d, i, "read">>
          /\ Id(d, Write(d))' = <<d, i, Write(d)>> /\ Id(d, Write(d)) = <<d, i, Write(d)>>
      BY <3>1, <3>4 DEF File, Id, SameCommand
    <3>6. ContentInv(d) /\ "read" \in Kinds /\ "write" \in Kinds
      BY DEF LocalInv, Kinds
    <3>7. /\ task'[Id(d, "write")'] = task[Id(d, "write")] /\ task'[Id(d, "read")'] = task[Id(d, "read")]
          /\ task'[Id(d, Write(d))'] = task[Id(d, Write(d))] /\ file'[File(d)'] = file[File(d)]
      BY <3>2, <3>3, <3>4, <3>5, <3>6
    <3> QED
      BY <2>2, <3>4, <3>6, <3>7, OperandIs DEF ContentInv, SameCommand
  <2> QED
    BY <2>1, <2>2
<1>2. ASSUME NEW i \in 1..MaxOps, NEW k \in Kinds
      PROVE  TaskInv(d, i, k)' /\ OpenInv(d, i, k)'
  <2>1. TaskInv(d, i, k) /\ OpenInv(d, i, k)
    BY DEF LocalInv
  <2>2. \A j \in Kinds : task'[<<d, i, j>>] = task[<<d, i, j>>]
    OBVIOUS
  <2>3. Sound(d, i, k)'
    BY <2>1, <2>2, OperandIs DEF TaskInv, Sound
  <2>4. Current(d, k, <<d, i, k>>) => Current(d, k, <<d, i, k>>)'
    BY <2>2 DEF Current, Write, SameCommand
  <2>5. Left(d, i, k) => Left(d, i, k)'
    BY <2>2 DEF Left, Write, SameCommand
  <2>6. TaskInv(d, i, k)'
    BY <2>1, <2>2, <2>3, <2>4, <2>5 DEF TaskInv, SameCommand
  <2>7. OpenInv(d, i, k)'
    BY <2>1, <2>2, Zenon DEF OpenInv, ByTask, ByCommand, Acquire, Kinds, SameCommand
  <2> QED
    BY <2>6, <2>7
<1>3. \A i \in 1..MaxOps : Alone(d, i)'
  BY DEF LocalInv, Alone
<1> QED
  BY <1>1, <1>2, <1>3 DEF LocalInv

-----------------------------------------------------------------------------
\* The tasks that hold a slot.
HoldsPin(t) ==
  \/ t[3] = "open" /\ task[t].st \in {"running", "sent"}
  \/ t[3] = "read" /\ task[t].st \in {"running", "closed"}
HoldsWrite(t) ==
  \/ t[3] \in {"acquire", "reacquire"} /\ task[t].st \in {"running", "sent"}
  \/ t[3] \in Writers /\ task[t].st \in {"running", "closed"}

\* There are only so many tasks.
LEMMA TasksFinite == IsFiniteSet(Tasks)
<1>1. IsFiniteSet(Kinds)
  <2>1. IsFiniteSet({}) /\ \A S, x : IsFiniteSet(S) => IsFiniteSet(S \cup {x})
    BY FS_EmptySet, FS_AddElement
  <2>2. IsFiniteSet((((((({} \cup {"open"}) \cup {"read"}) \cup {"acquire"}) \cup {"write"})
                     \cup {"reacquire"}) \cup {"rewrite"}))
    BY <2>1, Zenon
  <2>3. Kinds = (((((({} \cup {"open"}) \cup {"read"}) \cup {"acquire"}) \cup {"write"})
                     \cup {"reacquire"}) \cup {"rewrite"})
    BY DEF Kinds
  <2> QED
    BY <2>2, <2>3
<1>2. IsFiniteSet(1..MaxOps)
  BY FS_Interval, EditAssumption
<1> DEFINE Pairs == (1..MaxOps) \X Kinds
           Nested == Editors \X Pairs
           f == [t \in Tasks |-> <<t[1], <<t[2], t[3]>>>>]
<1>3. IsFiniteSet(Pairs)
  <2> HIDE DEF Kinds
  <2> QED
    BY <1>1, <1>2, FS_Product, Zenon
<1>4. IsFiniteSet(Nested)
  <2> HIDE DEF Pairs
  <2> QED
  BY <1>3, FS_Product, EditAssumption
<1>5. f \in Injection(Tasks, Nested)
  <2>1. \A t \in Tasks : f[t] = <<t[1], <<t[2], t[3]>>>> /\ f[t] \in Nested
    BY TaskIs
  <2>2. f \in [Tasks -> Nested]
    BY <2>1
  <2>3. \A t, u \in Tasks : f[t] = f[u] => t = u
    BY <2>1, TaskIs
  <2> HIDE DEF f, Nested
  <2> QED
    BY <2>2, <2>3 DEF Injection, IsInjective
<1> QED
  BY <1>4, <1>5, FS_Injection

\* One task more or less among those that hold a slot.
LEMMA CountTasks ==
  ASSUME NEW S \in SUBSET Tasks, NEW R \in SUBSET Tasks, NEW u \in Tasks,
         \A t \in Tasks : t # u => (t \in R <=> t \in S)
  PROVE  /\ Cardinality(R) = Cardinality(S) + (IF u \in R THEN 1 ELSE 0) - (IF u \in S THEN 1 ELSE 0)
         /\ Cardinality(S) \in Nat /\ Cardinality(R) \in Nat
<1>1. IsFiniteSet(S) /\ IsFiniteSet(R)
  BY TasksFinite, FS_Subset
<1>2. Cardinality(S) \in Nat /\ Cardinality(R) \in Nat
  BY <1>1, FS_CardinalityType
<1>3. CASE u \in R /\ u \notin S
  <2>1. R = S \cup {u}
    BY <1>3
  <2> QED
    BY <1>1, <1>2, <1>3, <2>1, FS_AddElement
<1>4. CASE u \notin R /\ u \in S
  <2>1. R = S \ {u}
    BY <1>4
  <2> QED
    BY <1>1, <1>2, <1>4, <2>1, FS_RemoveElement
<1>5. CASE (u \in R) <=> (u \in S)
  <2>1. R = S
    BY <1>5
  <2> QED
    BY <1>2, <2>1
<1> QED
  BY <1>3, <1>4, <1>5

\* A step that changes one task, and the number of slots by what this task
\* takes and gives back.
LEMMA SlotsKept ==
  ASSUME SlotsExact, NEW u \in Tasks, \A t \in Tasks : t # u => task'[t] = task[t],
         pins' = pins + (IF HoldsPin(u)' THEN 1 ELSE 0) - (IF HoldsPin(u) THEN 1 ELSE 0),
         writes' = writes + (IF HoldsWrite(u)' THEN 1 ELSE 0) - (IF HoldsWrite(u) THEN 1 ELSE 0)
  PROVE  SlotsExact' /\ pins' \in Nat /\ writes' \in Nat
<1> DEFINE P == {t \in Tasks : HoldsPin(t)}
           W == {t \in Tasks : HoldsWrite(t)}
<1>1. /\ P = In({"open"}, {"running", "sent"}) \cup In({"read"}, {"running", "closed"})
      /\ W = In({"acquire", "reacquire"}, {"running", "sent"}) \cup In(Writers, {"running", "closed"})
  BY DEF In, HoldsPin, HoldsWrite, Writers
<1>2. /\ P' = In({"open"}, {"running", "sent"})' \cup In({"read"}, {"running", "closed"})'
      /\ W' = In({"acquire", "reacquire"}, {"running", "sent"})' \cup In(Writers, {"running", "closed"})'
  BY DEF In, HoldsPin, HoldsWrite, Writers
<1>3. pins = Cardinality(P) /\ writes = Cardinality(W)
  BY <1>1, Zenon DEF SlotsExact, Writers
<1>4. /\ P \in SUBSET Tasks /\ P' \in SUBSET Tasks /\ W \in SUBSET Tasks /\ W' \in SUBSET Tasks
      /\ u \in P <=> HoldsPin(u)
      /\ u \in P' <=> HoldsPin(u)'
      /\ u \in W <=> HoldsWrite(u)
      /\ u \in W' <=> HoldsWrite(u)'
  OBVIOUS
<1>5. \A t \in Tasks : t # u => (t \in P' <=> t \in P) /\ (t \in W' <=> t \in W)
  BY DEF HoldsPin, HoldsWrite
<1> HIDE DEF P, W
<1>6. /\ Cardinality(P') = Cardinality(P) + (IF u \in P' THEN 1 ELSE 0) - (IF u \in P THEN 1 ELSE 0)
      /\ Cardinality(P') \in Nat
  BY <1>4, <1>5, CountTasks
<1>7. /\ Cardinality(W') = Cardinality(W) + (IF u \in W' THEN 1 ELSE 0) - (IF u \in W THEN 1 ELSE 0)
      /\ Cardinality(W') \in Nat
  BY <1>4, <1>5, CountTasks
<1>8. pins' = Cardinality(P') /\ writes' = Cardinality(W')
  BY <1>3, <1>4, <1>6, <1>7
<1> QED
  BY <1>2, <1>6, <1>7, <1>8 DEF SlotsExact, Writers

-----------------------------------------------------------------------------
\* A step of one command or of one of its tasks.
LEMMA Assembled ==
  ASSUME IInv, TypeOK', SlotsExact', NEW e \in Editors,
         \A d \in Editors : d # e => ed'[d] = ed[d],
         \A t \in Tasks : t[1] # e => task'[t] = task[t] /\ (t \in open' <=> t \in open),
         \A d \in Editors, i \in 1..MaxOps : d # e => report'[<<d, i>>] = report[<<d, i>>],
         \A d \in Editors : d # e => \A i \in 1..Len(Files[d]) : file'[Files[d][i]] = file[Files[d][i]],
         LocalInv(e)'
  PROVE  IInv'
<1>1. ASSUME NEW d \in Editors, d # e PROVE LocalInv(d)'
  <2>1. LocalInv(d) /\ ed[d].op \in Nat \ {0} /\ SameCommand(d)
    BY <1>1 DEF IInv, TypeOK, SameCommand
  <2>2. \A i \in 1..MaxOps, k \in Kinds : /\ task'[<<d, i, k>>] = task[<<d, i, k>>]
                                          /\ <<d, i, k>> \in open' <=> <<d, i, k>> \in open
    BY <1>1, TaskIs
  <2> QED
    BY <1>1, <2>1, <2>2, OthersKept
<1> QED
  BY <1>1 DEF IInv

\* A command that goes on with its operand.
LEMMA Moved ==
  ASSUME NEW e \in Editors, LocalInv(e), ed[e].pc # "end", NEW i \in 1..MaxOps, ed[e].op = i, ed'[e].op = i,
         \A j \in 1..MaxOps, k \in Kinds : j # i =>
           /\ task'[<<e, j, k>>] = task[<<e, j, k>>]
           /\ <<e, j, k>> \in open' <=> <<e, j, k>> \in open,
         file' = file,
         \A k \in Kinds : Sound(e, i, k)' /\ Current(e, k, <<e, i, k>>)' /\ OpenInv(e, i, k)',
         ContentInv(e)'
  PROVE  LocalInv(e)'
<1>1. ASSUME NEW j \in 1..MaxOps, NEW k \in Kinds, j # i PROVE TaskInv(e, j, k)' /\ OpenInv(e, j, k)'
  <2>1. /\ TaskInv(e, j, k) /\ OpenInv(e, j, k)
        /\ \A l \in Kinds : task'[<<e, j, l>>] = task[<<e, j, l>>]
    BY <1>1 DEF LocalInv
  <2>2. Sound(e, j, k)'
    BY <2>1 DEF Sound, TaskInv
  <2>3. Left(e, j, k) => Left(e, j, k)'
    BY <2>1, Zenon DEF Left, TaskInv, Sound, Openers, Writers, Kinds
  <2>4. TaskInv(e, j, k)'
    BY <1>1, <2>1, <2>2, <2>3 DEF TaskInv
  <2>5. OpenInv(e, j, k)'
    BY <1>1, <2>1, Zenon DEF OpenInv, ByTask, ByCommand, Kinds
  <2> QED
    BY <2>4, <2>5
<1>2. ASSUME NEW k \in Kinds PROVE TaskInv(e, i, k)' /\ OpenInv(e, i, k)'
  BY DEF TaskInv
<1>3. ASSUME NEW j \in 1..MaxOps PROVE Alone(e, j)'
  <2>1. CASE j = i
    BY <2>1, ZenonT(40) DEF Alone, Current, Stage, Kinds, Early, Writers
  <2>2. CASE j # i
    BY <2>2 DEF LocalInv, Alone
  <2> QED
    BY <2>1, <2>2
<1> QED
  BY <1>1, <1>2, <1>3 DEF LocalInv

\* What remains of a task and its descriptor when the command leaves its
\* operand, says what of it and closes h.
Remains(e, i, k, what, h) ==
  /\ \/ task'[<<e, i, k>>].st \in {"none", "over"}
     \/ /\ task'[<<e, i, k>>].gone /\ task'[<<e, i, k>>].st = task[<<e, i, k>>].st
        /\ k \in Writers => what = "unknown" /\ Write(e) = k
  /\ <<e, i, k>> \in open \ h <=> ByTask(e, i, k)'

\* A command that leaves its operand.
LEMMA LeftOperand ==
  ASSUME NEW e \in Editors, LocalInv(e), ed \in [Editors -> EdType], ed[e].pc # "end",
         NEW i \in 1..Len(Files[e]), ed[e].op = i, NEW what \in Results, NEW h, Report(e, what, h), file' = file,
         report \in [Editors \X (1..MaxOps) -> Results \cup {"none"}],
         \A j \in 1..MaxOps, k \in Kinds : j # i =>
           /\ task'[<<e, j, k>>] = task[<<e, j, k>>]
           /\ <<e, j, k>> \notin h,
         \A k \in Kinds : Sound(e, i, k)' /\ Remains(e, i, k, what, h)
  PROVE  LocalInv(e)'
<1>1. i \in 1..MaxOps /\ i \in Nat
  BY OperandIs
<1>2. /\ ed'[e].op = i + 1 /\ ed'[e].pc = (IF what = "unknown" THEN "end" ELSE "next")
      /\ ed'[e].restoring = ed[e].restoring
  BY DEF Report, EdType
<1>3. report'[<<e, i>>] = what /\ open' = open \ h
  BY <1>1, Zenon DEF Report
<1>4. ContentInv(e)'
  BY <1>2 DEF ContentInv, Early
<1>5. ASSUME NEW j \in 1..MaxOps, NEW k \in Kinds, j # i PROVE TaskInv(e, j, k)' /\ OpenInv(e, j, k)'
  <2>1. /\ TaskInv(e, j, k) /\ OpenInv(e, j, k)
        /\ \A l \in Kinds : task'[<<e, j, l>>] = task[<<e, j, l>>]
        /\ <<e, j, k>> \in open' <=> <<e, j, k>> \in open
    BY <1>3, <1>5 DEF LocalInv
  <2>2. Sound(e, j, k)'
    BY <2>1, Zenon DEF Sound, TaskInv
  <2>3. j < i => Left(e, j, k)'
    BY <2>1, Zenon DEF Left, TaskInv, Sound, Openers, Writers, Kinds
  <2>4. j > i => task'[<<e, j, k>>].st = "none" /\ ~task'[<<e, j, k>>].gone
    BY <2>1 DEF TaskInv, Sound
  <2>5. j = i + 1 => Current(e, k, <<e, j, k>>)'
    <3>1. j = i + 1 => j > i
      BY <1>1
    <3>2. ed'[e].pc \in {"next", "end"}
      BY <1>2
    <3> QED
      BY <2>4, <3>1, <3>2, Zenon DEF Current, Stage, Early, Kinds
  <2>6. TaskInv(e, j, k)'
    BY <1>1, <1>2, <1>5, <2>2, <2>3, <2>4, <2>5 DEF TaskInv
  <2>7. OpenInv(e, j, k)'
    BY <1>2, <1>5, <2>1, ZenonT(40) DEF OpenInv, ByTask, ByCommand, Kinds
  <2> QED
    BY <2>6, <2>7
<1>6. ASSUME NEW k \in Kinds PROVE TaskInv(e, i, k)' /\ OpenInv(e, i, k)'
  <2>1. Left(e, i, k)'
    BY <1>2, <1>3, Zenon DEF Left, Write, Remains
  <2>2. OpenInv(e, i, k)'
    BY <1>1, <1>2, <1>3, Zenon DEF OpenInv, ByCommand, Remains
  <2> QED
    BY <1>1, <1>2, <2>1, <2>2 DEF TaskInv
<1>7. ASSUME NEW j \in 1..MaxOps PROVE Alone(e, j)'
  BY Zenon DEF LocalInv, Alone, Remains
<1> QED
  BY <1>4, <1>5, <1>6, <1>7 DEF LocalInv

-----------------------------------------------------------------------------
\* The type invariant, with the types of a command and of a task named.
LEMMA Typed ==
  TypeOK <=> /\ ed \in [Editors -> EdType]
             /\ task \in [Tasks -> TaskType]
             /\ file \in [FileNames -> Seq(Chunk)]
             /\ open \subseteq Tasks
             /\ pins \in 0..PinCap /\ writes \in 0..WriteCap
             /\ report \in [Editors \X (1..MaxOps) -> Results \cup {"none"}]
BY DEF TypeOK, EdType, TaskType

\* The same after a step.
LEMMA TypedNext ==
  TypeOK' <=> /\ ed' \in [Editors -> EdType]
              /\ task' \in [Tasks -> TaskType]
              /\ file' \in [FileNames -> Seq(Chunk)]
              /\ open' \subseteq Tasks
              /\ pins' \in 0..PinCap /\ writes' \in 0..WriteCap
              /\ report' \in [Editors \X (1..MaxOps) -> Results \cup {"none"}]
BY DEF TypeOK, EdType, TaskType

\* A command is at an operand, or behind its last one.
LEMMA Positioned ==
  ASSUME TypeOK, NEW e \in Editors
  PROVE  ed \in [Editors -> EdType] /\ ed[e] \in EdType /\ ed[e].op \in Nat \ {0}
<1>1. ed[e] \in EdType
  BY Typed
<1>2. ed[e].op \in 1..MaxOps + 1
  BY <1>1 DEF EdType
<1> QED
  BY <1>1, <1>2, Typed, EditAssumption

\* What a step does to the task it concerns.
LEMMA TaskSteps ==
  ASSUME task \in [Tasks -> TaskType], NEW u \in Tasks
  PROVE  /\ task' = task => task' \in [Tasks -> TaskType] /\ \A t \in Tasks : t # u => task'[t] = task[t]
         /\ Spawn(u) => /\ task' \in [Tasks -> TaskType]
                        /\ \A t \in Tasks : t # u => task'[t] = task[t]
                        /\ task'[u].st = "running" /\ ~task'[u].ok /\ ~task'[u].gone
                        /\ ~task'[u].mutated /\ task'[u].n = 0
         /\ task' = [task EXCEPT ![u].gone = TRUE] =>
              /\ task' \in [Tasks -> TaskType]
              /\ \A t \in Tasks : t # u => task'[t] = task[t]
              /\ task'[u].gone
              /\ task'[u].st = task[u].st /\ task'[u].ok = task[u].ok
              /\ task'[u].mutated = task[u].mutated /\ task'[u].n = task[u].n
         /\ \A s \in TaskStates : task' = [task EXCEPT ![u].st = s] =>
              /\ task' \in [Tasks -> TaskType]
              /\ \A t \in Tasks : t # u => task'[t] = task[t]
              /\ task'[u].st = s
              /\ task'[u].gone = task[u].gone /\ task'[u].ok = task[u].ok
              /\ task'[u].mutated = task[u].mutated /\ task'[u].n = task[u].n
         /\ \A s \in TaskStates, ok \in BOOLEAN : task' = [task EXCEPT ![u].st = s, ![u].ok = ok] =>
              /\ task' \in [Tasks -> TaskType]
              /\ \A t \in Tasks : t # u => task'[t] = task[t]
              /\ task'[u].st = s /\ task'[u].ok = ok
              /\ task'[u].gone = task[u].gone /\ task'[u].mutated = task[u].mutated /\ task'[u].n = task[u].n
<1>1. Spawn(u) => /\ task' \in [Tasks -> TaskType]
                  /\ \A t \in Tasks : t # u => task'[t] = task[t]
                  /\ task'[u].st = "running" /\ ~task'[u].ok /\ ~task'[u].gone
                  /\ ~task'[u].mutated /\ task'[u].n = 0
  <2>1. NoTask \in TaskType /\ ~NoTask.ok /\ ~NoTask.gone /\ ~NoTask.mutated /\ NoTask.n = 0
    BY DEF NoTask, TaskType, TaskStates
  <2> HIDE DEF NoTask
  <2> QED
    BY <2>1 DEF Spawn, TaskType, TaskStates
<1>2. task' = [task EXCEPT ![u].gone = TRUE] =>
              /\ task' \in [Tasks -> TaskType]
              /\ \A t \in Tasks : t # u => task'[t] = task[t]
              /\ task'[u].gone
              /\ task'[u].st = task[u].st /\ task'[u].ok = task[u].ok
              /\ task'[u].mutated = task[u].mutated /\ task'[u].n = task[u].n
  BY Zenon DEF TaskType
<1>3. ASSUME NEW s \in TaskStates, task' = [task EXCEPT ![u].st = s]
      PROVE   /\ task' \in [Tasks -> TaskType]
              /\ \A t \in Tasks : t # u => task'[t] = task[t]
              /\ task'[u].st = s
              /\ task'[u].gone = task[u].gone /\ task'[u].ok = task[u].ok
              /\ task'[u].mutated = task[u].mutated /\ task'[u].n = task[u].n
  BY <1>3 DEF TaskType
<1>4. ASSUME NEW s \in TaskStates, NEW ok \in BOOLEAN, task' = [task EXCEPT ![u].st = s, ![u].ok = ok]
      PROVE   /\ task' \in [Tasks -> TaskType]
              /\ \A t \in Tasks : t # u => task'[t] = task[t]
              /\ task'[u].st = s /\ task'[u].ok = ok
              /\ task'[u].gone = task[u].gone /\ task'[u].mutated = task[u].mutated /\ task'[u].n = task[u].n
  BY <1>4, Zenon DEF TaskType
<1> QED
  BY <1>1, <1>2, <1>3, <1>4

\* A task that a step leaves alone, or whose state or owner it changes.
LEMMA SoundKept ==
  ASSUME NEW e \in Editors, NEW i \in 1..Len(Files[e]), NEW k \in Kinds, file' = file, Sound(e, i, k),
         LET t == <<e, i, k>> IN
         \/ task'[t] = task[t]
         \/ /\ task'[t].st \in {"closed", "released", "sent", "over"}
            /\ task'[t].st \in {"closed", "released"} => k \notin Openers
         \/ task'[t].st = task[t].st /\ task'[t].ok = task[t].ok /\ task'[t].n = task[t].n /\ task[t].st # "none"
         \/ task'[t].st = "running" /\ ~task'[t].ok /\ task'[t].n = 0 /\ Files[e][i] \in FileNames /\ file \in [FileNames -> Seq(Chunk)]
  PROVE  Sound(e, i, k)'
BY OperandIs DEF Sound

\* The operand a command is at.
At(e, i) ==
  /\ i = ed[e].op /\ i \in 1..MaxOps /\ Files[e][i] \in FileNames /\ File(e) = Files[e][i]
  /\ \A k \in Kinds : /\ Id(e, k) = <<e, i, k>> /\ <<e, i, k>> \in Tasks
                      /\ Sound(e, i, k) /\ Current(e, k, <<e, i, k>>) /\ OpenInv(e, i, k)
  /\ ContentInv(e)
  /\ ed \in [Editors -> EdType] /\ ed[e] \in EdType
  /\ task \in [Tasks -> TaskType] /\ file \in [FileNames -> Seq(Chunk)]
  /\ pins \in 0..PinCap /\ writes \in 0..WriteCap /\ PinCap \in Nat /\ WriteCap \in Nat

\* A command with work to do is at one of its operands.
LEMMA AtOperand ==
  ASSUME IInv, NEW e \in Editors, ed[e].pc \notin {"next", "end"} \/ ed[e].op <= Len(Files[e])
  PROVE  \E i \in 1..Len(Files[e]) : At(e, i)
<1>1. LocalInv(e) /\ ed[e].op \in Nat \ {0}
  BY DEF IInv, TypeOK
<1>2. ed[e].op <= Len(Files[e])
  BY <1>1 DEF LocalInv, ContentInv
<1>3. PICK i \in 1..Len(Files[e]) : i = ed[e].op
  BY <1>1, <1>2, OperandIs
<1> WITNESS i \in 1..Len(Files[e])
<1>4. i \in 1..MaxOps /\ Files[e][i] \in FileNames
  BY OperandIs
<1>5. ASSUME NEW k \in Kinds
      PROVE  /\ Id(e, k) = <<e, i, k>> /\ <<e, i, k>> \in Tasks
             /\ Sound(e, i, k) /\ Current(e, k, <<e, i, k>>) /\ OpenInv(e, i, k)
  BY <1>1, <1>3, <1>4, TaskIs DEF Id, LocalInv, TaskInv
<1>6. /\ ed \in [Editors -> EdType] /\ ed[e] \in EdType
      /\ task \in [Tasks -> TaskType] /\ file \in [FileNames -> Seq(Chunk)]
      /\ pins \in 0..PinCap /\ writes \in 0..WriteCap /\ PinCap \in Nat /\ WriteCap \in Nat
  BY Typed, EditAssumption DEF IInv
<1> QED
  BY <1>1, <1>3, <1>4, <1>5, <1>6 DEF At, File, LocalInv

\* The slots a step of the task u takes and gives back.
Balanced(u) ==
  /\ pins' = pins + (IF HoldsPin(u)' THEN 1 ELSE 0) - (IF HoldsPin(u) THEN 1 ELSE 0)
  /\ writes' = writes + (IF HoldsWrite(u)' THEN 1 ELSE 0) - (IF HoldsWrite(u) THEN 1 ELSE 0)
  /\ pins' <= PinCap /\ writes' <= WriteCap

\* The slots taken after such a step are within the pools.
LEMMA Within ==
  ASSUME NEW u, Balanced(u), pins' \in Nat, writes' \in Nat
  PROVE  pins' \in 0..PinCap /\ writes' \in 0..WriteCap
BY EditAssumption DEF Balanced

\* The slots taken are within the pools.
LEMMA Counted ==
  IInv => pins \in 0..PinCap /\ writes \in 0..WriteCap /\ PinCap \in Nat /\ WriteCap \in Nat
BY EditAssumption, Typed DEF IInv

\* A command that goes on with its operand, as a step of the system.
LEMMA Went ==
  ASSUME IInv, NEW e \in Editors, NEW i \in 1..MaxOps, ed[e].op = i, ed[e].pc # "end", NEW l \in Kinds,
         ed' \in [Editors -> EdType], \A d \in Editors : d # e => ed'[d] = ed[d], ed'[e].op = i,
         task' \in [Tasks -> TaskType], \A t \in Tasks : t # <<e, i, l>> => task'[t] = task[t],
         Balanced(<<e, i, l>>), open' = open, file' = file, report' = report,
         \A k \in Kinds : Sound(e, i, k)' /\ Current(e, k, <<e, i, k>>)' /\ OpenInv(e, i, k)',
         ContentInv(e)'
  PROVE  IInv'
<1>1. TypeOK /\ SlotsExact /\ LocalInv(e) /\ <<e, i, l>> \in Tasks
  BY TaskIs DEF IInv
<1>2. SlotsExact' /\ pins' \in Nat /\ writes' \in Nat
  BY <1>1, SlotsKept DEF Balanced
<1>3. TypeOK'
  <2>1. pins' \in 0..PinCap /\ writes' \in 0..WriteCap
    BY <1>2, Within, Zenon
  <2>2. /\ open' \subseteq Tasks /\ file' \in [FileNames -> Seq(Chunk)]
        /\ report' \in [Editors \X (1..MaxOps) -> Results \cup {"none"}]
    BY <1>1, Typed
  <2> QED
    BY <2>1, <2>2, TypedNext, Zenon
<1>4. LocalInv(e)'
  BY <1>1, TaskIs, Moved
<1>5. \A t \in Tasks : t[1] # e => task'[t] = task[t]
  OBVIOUS
<1> QED
  BY <1>2, <1>3, <1>4, <1>5, Assembled

\* The state of a command that turns to its next operand, or ends.
LEMMA Advanced ==
  ASSUME NEW r \in EdType, NEW i, i + 1 \in 1..MaxOps + 1, NEW what
  PROVE  [r EXCEPT !.pc = IF what = "unknown" THEN "end" ELSE "next", !.op = i + 1] \in EdType
BY Zenon DEF EdType

\* A command that leaves its operand, as a step of the system.
LEMMA Reported ==
  ASSUME IInv, NEW e \in Editors, NEW i \in 1..Len(Files[e]), ed[e].op = i, ed[e].pc # "end", NEW l \in Kinds,
         NEW what \in Results, NEW h, h \subseteq {<<e, i, k>> : k \in Kinds}, Report(e, what, h),
         task' \in [Tasks -> TaskType], \A t \in Tasks : t # <<e, i, l>> => task'[t] = task[t],
         Balanced(<<e, i, l>>), file' = file,
         \A k \in Kinds : Sound(e, i, k)' /\ Remains(e, i, k, what, h)
  PROVE  IInv'
<1>1. TypeOK /\ SlotsExact /\ LocalInv(e) /\ i \in 1..MaxOps /\ i + 1 \in 1..MaxOps + 1
  BY OperandIs, EditAssumption DEF IInv
<1>2. <<e, i, l>> \in Tasks
  BY <1>1, TaskIs
<1>3. SlotsExact' /\ pins' \in Nat /\ writes' \in Nat
  BY <1>1, <1>2, SlotsKept, Zenon DEF Balanced
<1>4. /\ ed' \in [Editors -> EdType]
      /\ \A d \in Editors : d # e => ed'[d] = ed[d]
  <2>1. ed \in [Editors -> EdType]
    BY <1>1, Typed, Zenon
  <2>2. [ed[e] EXCEPT !.pc = IF what = "unknown" THEN "end" ELSE "next", !.op = i + 1] \in EdType
    BY <1>1, <2>1, Advanced, Zenon
  <2>3. ed' = [ed EXCEPT ![e] = [ed[e] EXCEPT !.pc = IF what = "unknown" THEN "end" ELSE "next", !.op = i + 1]]
    BY <2>1, Zenon DEF Report
  <2> QED
    BY <2>1, <2>2, <2>3
<1>5. /\ report' \in [Editors \X (1..MaxOps) -> Results \cup {"none"}]
      /\ \A d \in Editors, j \in 1..MaxOps : d # e => report'[<<d, j>>] = report[<<d, j>>]
  BY <1>1, Typed DEF Report
<1>6. open' = open \ h
  BY DEF Report
<1>7. TypeOK'
  <2>1. pins' \in 0..PinCap /\ writes' \in 0..WriteCap
    BY <1>3, Within, Zenon
  <2>2. open' \subseteq Tasks /\ file' \in [FileNames -> Seq(Chunk)]
    BY <1>1, <1>6, Typed, Zenon
  <2> QED
    BY <1>4, <1>5, <2>1, <2>2, TypedNext, Zenon
<1>8. LocalInv(e)'
  <2>1. \A j \in 1..MaxOps, k \in Kinds : j # i =>
           /\ task'[<<e, j, k>>] = task[<<e, j, k>>]
           /\ <<e, j, k>> \notin h
    BY TaskIs
  <2>2. /\ ed \in [Editors -> EdType]
        /\ report \in [Editors \X (1..MaxOps) -> Results \cup {"none"}]
    BY <1>1, Typed, Zenon
  <2> QED
    BY <1>1, <2>1, <2>2, LeftOperand
<1>9. \A t \in Tasks : t[1] # e => task'[t] = task[t] /\ (t \in open' <=> t \in open)
  BY <1>6
<1> QED
  BY <1>3, <1>4, <1>5, <1>7, <1>8, <1>9, Assembled

-----------------------------------------------------------------------------
\* The steps of a command, from its first to its last.

\* Its context or one of its timers ends.
LEMMA TimersKeep ==
  ASSUME IInv, NEW e \in Editors, Cancel(e) \/ Expire(e)
  PROVE  IInv'
<1>1. TypeOK /\ LocalInv(e) /\ SlotsExact /\ ed \in [Editors -> EdType] /\ ed[e].op \in Nat \ {0}
  BY Positioned, Zenon DEF IInv
<1>2. PICK r \in EdType : /\ ed' = [ed EXCEPT ![e] = r]
                          /\ r.pc = ed[e].pc /\ r.op = ed[e].op /\ r.restoring = ed[e].restoring
                          /\ r.orig = ed[e].orig /\ r.new = ed[e].new /\ r.before = ed[e].before
  <2>1. CASE Cancel(e)
    <3>1. ed' = [ed EXCEPT ![e] = [ed[e] EXCEPT !.ctx = TRUE]]
      BY <1>1, <2>1 DEF Cancel
    <3>2. LET q == [ed[e] EXCEPT !.ctx = TRUE] IN
          /\ q \in EdType /\ q.pc = ed[e].pc /\ q.op = ed[e].op /\ q.restoring = ed[e].restoring
          /\ q.orig = ed[e].orig /\ q.new = ed[e].new /\ q.before = ed[e].before
      <4>1. ed[e] \in EdType
        BY <1>1
      <4> QED
        BY <4>1, Zenon DEF EdType
    <3> QED
      BY <3>1, <3>2, Zenon
  <2>2. CASE Expire(e)
    <3>1. ed' = [ed EXCEPT ![e] = [ed[e] EXCEPT !.writeTimer = TRUE, !.outcomeTimer = ed[e].writeTimer]]
      BY <1>1, <2>2, Zenon DEF Expire
    <3>2. ed[e] \in EdType /\ ed[e].writeTimer \in BOOLEAN
      BY <1>1, Zenon DEF EdType
    <3>3. LET q == [ed[e] EXCEPT !.writeTimer = TRUE, !.outcomeTimer = ed[e].writeTimer] IN
          /\ q \in EdType /\ q.pc = ed[e].pc /\ q.op = ed[e].op /\ q.restoring = ed[e].restoring
          /\ q.orig = ed[e].orig /\ q.new = ed[e].new /\ q.before = ed[e].before
      BY <3>2, Zenon DEF EdType
    <3> QED
      BY <3>1, <3>3, Zenon
  <2> QED
    BY <2>1, <2>2
<1>3. UNCHANGED <<task, file, open, pins, writes, report>>
  BY DEF Cancel, Expire
<1>4. ed' \in [Editors -> EdType] /\ SameCommand(e) /\ \A d \in Editors : d # e => ed'[d] = ed[d]
  BY <1>1, <1>2 DEF SameCommand
<1>5. LocalInv(e)'
  BY <1>1, <1>3, <1>4, OthersKept
<1>6. TypeOK'
  BY <1>1, <1>3, <1>4, Typed, TypedNext
<1>7. SlotsExact'
  BY <1>1, <1>3 DEF SlotsExact, In
<1> QED
  BY <1>3, <1>4, <1>5, <1>6, <1>7, Assembled

\* The loop over the operands ends.
LEMMA EndLoopKeeps ==
  ASSUME IInv, NEW e \in Editors, EndLoop(e)
  PROVE  IInv'
<1>1. TypeOK /\ LocalInv(e) /\ SlotsExact /\ ed \in [Editors -> EdType] /\ ed[e].op \in Nat \ {0} /\ ed[e].pc = "next"
  BY Positioned, Zenon DEF IInv, EndLoop
<1>2. ed' = [ed EXCEPT ![e] = [ed[e] EXCEPT !.pc = "end"]] /\ UNCHANGED <<task, file, open, pins, writes, report>>
  BY <1>1 DEF EndLoop
<1>3. /\ ed' \in [Editors -> EdType] /\ \A d \in Editors : d # e => ed'[d] = ed[d]
      /\ ed'[e].pc = "end" /\ ed'[e].op = ed[e].op
  BY <1>1, <1>2, ZenonT(40) DEF EdType
<1>4. ASSUME NEW i \in 1..MaxOps, NEW k \in Kinds
      PROVE  TaskInv(e, i, k)' /\ OpenInv(e, i, k)'
  <2>1. TaskInv(e, i, k) /\ OpenInv(e, i, k)
    BY <1>1 DEF LocalInv
  <2>2. Sound(e, i, k)'
    BY <1>2, <2>1 DEF TaskInv, Sound
  <2>3. Current(e, k, <<e, i, k>>) => Current(e, k, <<e, i, k>>)'
    BY <1>1, <1>2, <1>3 DEF Current, Stage, Early, Kinds
  <2>4. Left(e, i, k) => Left(e, i, k)'
    BY <1>1, <1>2 DEF Left
  <2>5. OpenInv(e, i, k)'
    BY <1>1, <1>2, <1>3, <2>1 DEF OpenInv, ByTask, ByCommand
  <2> QED
    BY <1>2, <1>3, <2>1, <2>2, <2>3, <2>4, <2>5 DEF TaskInv
<1>5. ContentInv(e)'
  BY <1>3 DEF ContentInv, Early
<1>6. LocalInv(e)'
  BY <1>1, <1>2, <1>4, <1>5 DEF LocalInv, Alone
<1>7. TypeOK'
  BY <1>1, <1>2, <1>3, Typed, TypedNext
<1>8. SlotsExact'
  BY <1>1, <1>2 DEF SlotsExact, In
<1> QED
  BY <1>2, <1>3, <1>6, <1>7, <1>8, Assembled

\* openPinBounded takes a slot and starts the open, or is refused one.
LEMMA OpenPinKeeps ==
  ASSUME IInv, NEW e \in Editors, OpenPin(e)
  PROVE  IInv'
<1>1. PICK i \in 1..Len(Files[e]) : At(e, i)
  BY AtOperand DEF OpenPin
<1>2. /\ ed[e].pc = "next" /\ file' = file /\ writes' = writes /\ "open" \in Kinds
      /\ ed[e].op = i /\ i \in 1..MaxOps
  BY <1>1, Zenon DEF At, OpenPin, Kinds
<1>3. \A k \in Kinds : /\ task[<<e, i, k>>].st = "none" /\ ~task[<<e, i, k>>].gone
                       /\ <<e, i, k>> \notin open
  BY <1>1, <1>2, Zenon DEF At, Current, Stage, Early, Kinds, Sound, OpenInv, ByTask, ByCommand
<1>4. CASE pins < PinCap
  <2>1. /\ pins' = pins + 1 /\ Spawn(<<e, i, "open">>) /\ open' = open /\ report' = report
        /\ ed' = [ed EXCEPT ![e] = [ed[e] EXCEPT !.pc = "opening", !.before = file[Files[e][i]], !.restoring = FALSE,
                                                 !.writeTimer = FALSE, !.outcomeTimer = FALSE]]
    BY <1>1, <1>2, <1>4, Zenon DEF At, OpenPin
  <2>2. /\ task' \in [Tasks -> TaskType] /\ \A t \in Tasks : t # <<e, i, "open">> => task'[t] = task[t]
        /\ task'[<<e, i, "open">>].st = "running" /\ ~task'[<<e, i, "open">>].ok /\ ~task'[<<e, i, "open">>].gone
        /\ task'[<<e, i, "open">>].n = 0
    BY <1>1, <1>2, <2>1, TaskSteps, Zenon DEF At
  <2>3. /\ ed' \in [Editors -> EdType] /\ \A d \in Editors : d # e => ed'[d] = ed[d]
        /\ ed'[e].pc = "opening" /\ ed'[e].op = i /\ ~ed'[e].restoring /\ ed'[e].before = file[Files[e][i]]
    <3>1. ed[e] \in EdType /\ file[Files[e][i]] \in Seq(Chunk)
      BY <1>1, <1>2 DEF At
    <3>2. LET q == [ed[e] EXCEPT !.pc = "opening", !.before = file[Files[e][i]], !.restoring = FALSE,
                                 !.writeTimer = FALSE, !.outcomeTimer = FALSE] IN
          q \in EdType /\ q.pc = "opening" /\ q.op = ed[e].op /\ ~q.restoring /\ q.before = file[Files[e][i]]
      BY <3>1, Zenon DEF EdType
    <3> QED
      BY <1>1, <1>2, <2>1, <3>2 DEF At
  <2>4. Balanced(<<e, i, "open">>)
    BY Counted, <1>2, <1>3, <1>4, <2>1, <2>2 DEF Balanced, HoldsPin, HoldsWrite, Writers
  <2>5. \A k \in Kinds : k # "open" => task'[<<e, i, k>>] = task[<<e, i, k>>]
    BY <1>2, <2>2, TaskIs
  <2>6. ASSUME NEW k \in Kinds
        PROVE  Sound(e, i, k)' /\ Current(e, k, <<e, i, k>>)' /\ OpenInv(e, i, k)'
    <3>1. Sound(e, i, k)'
      BY <1>1, <1>2, <2>2, <2>5, SoundKept, Zenon DEF At
    <3>2. Current(e, k, <<e, i, k>>)'
      <4>1. CASE k = "open"
        BY <2>2, <2>3, <4>1 DEF Current, Stage
      <4>2. CASE k # "open"
        BY <1>3, <2>3, <2>5, <4>2, Zenon DEF Current, Stage, Early, Kinds
      <4> QED
        BY <4>1, <4>2
    <3>3. OpenInv(e, i, k)'
      BY <1>3, <2>1, <2>2, <2>3, <2>5, Zenon DEF OpenInv, ByTask, ByCommand, Kinds, Openers
    <3> QED
      BY <3>1, <3>2, <3>3
  <2>7. ContentInv(e)'
    <3>1. File(e)' = Files[e][i] /\ i <= Len(Files[e])
      BY <2>3, OperandIs DEF File
    <3> QED
      BY <1>2, <2>3, <3>1 DEF ContentInv, Early
  <2> QED
    BY <1>2, <2>1, <2>2, <2>3, <2>4, <2>6, <2>7, Went
<1>5. CASE ~(pins < PinCap)
  <2>1. PICK h : h = {} /\ Report(e, "refused", h) /\ task' = task /\ pins' = pins
    BY <1>2, <1>5 DEF OpenPin
  <2>2. Balanced(<<e, i, "open">>)
    BY Counted, <1>2, <2>1 DEF Balanced, HoldsPin, HoldsWrite
  <2>3. ASSUME NEW k \in Kinds
        PROVE  /\ Sound(e, i, k)'
               /\ Remains(e, i, k, "refused", h)
    <3>1. Sound(e, i, k)'
      BY <1>1, <1>2, <2>1, SoundKept, Zenon DEF At
    <3>2. ~ByTask(e, i, k)'
      BY <1>3, <2>1, Zenon DEF ByTask, Kinds
    <3> QED
      BY <1>3, <2>1, <3>1, <3>2, Zenon DEF Remains
  <2>4. h \subseteq {<<e, i, k>> : k \in Kinds} /\ "refused" \in Results /\ Report(e, "refused", h)
    BY <2>1 DEF Results
  <2>5. task' \in [Tasks -> TaskType] /\ \A t \in Tasks : t # <<e, i, "open">> => task'[t] = task[t]
    BY <2>1, Typed DEF IInv
  <2> QED
    BY <1>2, <2>2, <2>3, <2>4, <2>5, Reported
<1> QED
  BY <1>4, <1>5

\* The result of the open arrives, and its slot is free.
LEMMA OpenedKeeps ==
  ASSUME IInv, NEW e \in Editors, Opened(e)
  PROVE  IInv'
<1>1. PICK i \in 1..Len(Files[e]) : At(e, i)
  BY AtOperand DEF Opened
<1> DEFINE u == <<e, i, "open">>
<1>2. /\ ed[e].pc = "opening" /\ file' = file /\ writes' = writes /\ pins' = pins - 1 /\ "open" \in Kinds
      /\ ed[e].op = i /\ i \in 1..MaxOps /\ task[u].st = "sent" /\ task' = [task EXCEPT ![u].st = "over"]
      /\ u \in Tasks
  BY <1>1, Zenon DEF At, Opened, Kinds
<1>3. /\ \A k \in Kinds : k # "open" => task[<<e, i, k>>].st = "none" /\ <<e, i, k>> \notin open
      /\ u \in open <=> task[u].ok
      /\ ~task[u].gone
  BY <1>1, <1>2, Zenon DEF At, Current, Stage, Early, Kinds, OpenInv, ByTask, ByCommand, Openers
<1>4. /\ task' \in [Tasks -> TaskType] /\ \A t \in Tasks : t # u => task'[t] = task[t]
      /\ task'[u].st = "over" /\ ~task'[u].gone
  BY <1>1, <1>2, <1>3, Zenon DEF At, TaskType, TaskStates
<1>5. \A k \in Kinds : k # "open" => task'[<<e, i, k>>] = task[<<e, i, k>>]
  BY <1>2, <1>4, TaskIs
<1>6. Balanced(u)
  BY Counted, <1>2, <1>4 DEF Balanced, HoldsPin, HoldsWrite, Writers
<1>7. \A k \in Kinds : Sound(e, i, k)'
  BY <1>1, <1>2, <1>4, <1>5, SoundKept, Zenon DEF At
<1>8. CASE task[u].ok
  <2>1. ed' = [ed EXCEPT ![e] = [ed[e] EXCEPT !.pc = "read"]] /\ open' = open /\ report' = report
    BY <1>1, <1>2, <1>8, Zenon DEF At, Opened
  <2>2. LET q == [ed[e] EXCEPT !.pc = "read"] IN
        q \in EdType /\ q.pc = "read" /\ q.op = ed[e].op /\ q.restoring = ed[e].restoring /\ q.before = ed[e].before
    BY <1>1, Zenon DEF At, EdType
  <2>3. /\ ed' \in [Editors -> EdType] /\ \A d \in Editors : d # e => ed'[d] = ed[d]
        /\ ed'[e].pc = "read" /\ ed'[e].op = i /\ ed'[e].restoring = ed[e].restoring /\ ed'[e].before = ed[e].before
    BY <1>1, <2>1, <2>2 DEF At
  <2>4. ASSUME NEW k \in Kinds PROVE Current(e, k, <<e, i, k>>)' /\ OpenInv(e, i, k)'
    <3>1. Current(e, k, <<e, i, k>>)'
      BY <1>1, <1>3, <1>4, <1>5, <2>3, ZenonT(40) DEF At, Current, Stage, Early, Kinds, Sound
    <3>2. OpenInv(e, i, k)'
      BY <1>3, <1>4, <1>5, <1>8, <2>1, <2>3 DEF OpenInv, ByTask, ByCommand, Kinds, Openers
    <3> QED
      BY <3>1, <3>2
  <2>5. ContentInv(e)'
    BY <1>1, <1>2, <2>3 DEF At, ContentInv, Early, File
  <2> QED
    BY <1>2, <1>4, <1>6, <1>7, <2>1, <2>3, <2>4, <2>5, Went, Zenon
<1>9. CASE ~task[u].ok
  <2>1. PICK h : h = {} /\ Report(e, "untouched", h)
    BY <1>1, <1>2, <1>9, Zenon DEF At, Opened
  <2>2. ASSUME NEW k \in Kinds
        PROVE  Remains(e, i, k, "untouched", h)
    BY <1>3, <1>4, <1>5, <1>9, <2>1, Zenon DEF Remains, ByTask, Kinds
  <2>3. h \subseteq {<<e, i, k>> : k \in Kinds} /\ "untouched" \in Results
    BY <2>1 DEF Results
  <2> QED
    BY <1>2, <1>4, <1>6, <1>7, <2>1, <2>2, <2>3, Reported
<1> QED
  BY <1>8, <1>9

\* The wait for the open ends first: the open is left to its cleanup.
LEMMA AbandonOpenKeeps ==
  ASSUME IInv, NEW e \in Editors, AbandonOpen(e)
  PROVE  IInv'
<1>1. PICK i \in 1..Len(Files[e]) : At(e, i)
  BY AtOperand, Zenon DEF AbandonOpen
<1> DEFINE u == <<e, i, "open">>
<1>a. Id(e, "open") = u /\ "open" \in Kinds
  BY <1>1, Zenon DEF At, Id, Kinds
<1>b. task' = [task EXCEPT ![u].gone = TRUE]
  BY <1>a, Zenon DEF AbandonOpen
<1>2. /\ ed[e].pc = "opening" /\ file' = file /\ writes' = writes /\ pins' = pins
      /\ ed[e].op = i /\ i \in 1..MaxOps /\ task[u].st # "sent" /\ u \in Tasks
  <2>1. ed[e].op = i /\ i \in 1..MaxOps /\ u \in Tasks
    BY <1>1, <1>a, Zenon DEF At
  <2>2. ed[e].pc = "opening" /\ file' = file /\ writes' = writes /\ pins' = pins
    BY DEF AbandonOpen
  <2>3. task[u].st # "sent"
    BY <1>a DEF AbandonOpen
  <2> QED
    BY <2>1, <2>2, <2>3
<1>3. /\ \A k \in Kinds : k # "open" => task[<<e, i, k>>].st = "none" /\ <<e, i, k>> \notin open
      /\ task[u].st = "running" /\ u \notin open
  BY <1>1, <1>2, Zenon DEF At, Current, Stage, Early, Kinds, OpenInv, ByTask, ByCommand, Openers
<1>4. /\ task' \in [Tasks -> TaskType] /\ \A t \in Tasks : t # u => task'[t] = task[t]
      /\ task'[u].st = task[u].st /\ task'[u].ok = task[u].ok /\ task'[u].n = task[u].n /\ task'[u].gone
  BY <1>1, <1>2, <1>b, Zenon DEF At, TaskType, TaskStates
<1>5. \A k \in Kinds : k # "open" => task'[<<e, i, k>>] = task[<<e, i, k>>]
  BY <1>2, <1>4, TaskIs
<1>6. Balanced(u)
  BY Counted, <1>2, <1>4 DEF Balanced, HoldsPin, HoldsWrite, Writers
<1>7. \A k \in Kinds : Sound(e, i, k)'
  BY <1>1, <1>2, <1>3, <1>4, <1>5, SoundKept, Zenon DEF At
<1>8. PICK h, what : h = {} /\ what = "untouched" /\ Report(e, what, h)
  BY DEF AbandonOpen
<1>9. ASSUME NEW k \in Kinds
      PROVE  Remains(e, i, k, what, h)
  BY <1>3, <1>4, <1>5, <1>8 DEF Remains, ByTask, Kinds, Writers
<1>10. h \subseteq {<<e, i, k>> : k \in Kinds} /\ what \in Results /\ Report(e, what, h)
  BY <1>8 DEF Results
<1> QED
  BY <1>a, <1>2, <1>4, <1>6, <1>7, <1>9, <1>10, Reported

\* statAndReadBounded takes a slot and starts the read, or is refused one.
LEMMA StartReadKeeps ==
  ASSUME IInv, NEW e \in Editors, StartRead(e)
  PROVE  IInv'
<1>1. PICK i \in 1..Len(Files[e]) : At(e, i)
  BY AtOperand DEF StartRead
<1> DEFINE u == <<e, i, "read">>
<1>2. /\ ed[e].pc = "read" /\ file' = file /\ writes' = writes /\ "read" \in Kinds
      /\ ed[e].op = i /\ i \in 1..MaxOps /\ u \in Tasks /\ <<e, i, "open">> \in Tasks
  BY <1>1 DEF At, StartRead, Kinds
<1>3. /\ \A k \in Kinds : /\ k # "open" => task[<<e, i, k>>].st = "none" /\ <<e, i, k>> \notin open
                          /\ k = "open" => task[<<e, i, k>>].st = "over"
                          /\ k = "open" => <<e, i, k>> \in open
  BY <1>1, <1>2, Zenon DEF At, Current, Stage, Early, Kinds, OpenInv, ByTask, ByCommand, Openers
<1>4. CASE pins < PinCap
  <2>1. /\ pins' = pins + 1 /\ Spawn(u) /\ open' = open /\ report' = report
        /\ ed' = [ed EXCEPT ![e] = [ed[e] EXCEPT !.pc = "reading"]]
    BY <1>1, <1>2, <1>4, Zenon DEF At, StartRead
  <2>2. /\ task' \in [Tasks -> TaskType] /\ \A t \in Tasks : t # u => task'[t] = task[t]
        /\ task'[u].st = "running" /\ ~task'[u].ok /\ ~task'[u].gone /\ task'[u].n = 0
    BY <1>1, <1>2, <2>1, TaskSteps, Zenon DEF At
  <2>3. LET q == [ed[e] EXCEPT !.pc = "reading"] IN
        q \in EdType /\ q.pc = "reading" /\ q.op = ed[e].op /\ q.restoring = ed[e].restoring /\ q.before = ed[e].before
    BY <1>1, Zenon DEF At, EdType
  <2>4. /\ ed' \in [Editors -> EdType] /\ \A d \in Editors : d # e => ed'[d] = ed[d]
        /\ ed'[e].pc = "reading" /\ ed'[e].op = i /\ ed'[e].restoring = ed[e].restoring /\ ed'[e].before = ed[e].before
    BY <1>1, <2>1, <2>3 DEF At
  <2>5. \A k \in Kinds : k # "read" => task'[<<e, i, k>>] = task[<<e, i, k>>]
    BY <1>2, <2>2, TaskIs
  <2>6. Balanced(u)
    BY Counted, <1>2, <1>3, <1>4, <2>1, <2>2 DEF Balanced, HoldsPin, HoldsWrite, Writers
  <2>7. ASSUME NEW k \in Kinds PROVE Sound(e, i, k)' /\ Current(e, k, <<e, i, k>>)' /\ OpenInv(e, i, k)'
    <3>1. Sound(e, i, k)'
      BY <1>1, <1>2, <2>2, <2>5, SoundKept, Zenon DEF At
    <3>2. Current(e, k, <<e, i, k>>)'
      BY <1>1, <1>3, <2>2, <2>4, <2>5, Zenon DEF At, Current, Stage, Early, Kinds, Sound, Active
    <3>3. OpenInv(e, i, k)'
      BY <1>3, <2>1, <2>2, <2>4, <2>5 DEF OpenInv, ByTask, ByCommand, Kinds, Openers
    <3> QED
      BY <3>1, <3>2, <3>3
  <2>8. ContentInv(e)'
    BY <1>1, <1>2, <2>2, <2>4, Zenon DEF At, ContentInv, Early, File, Id
  <2> QED
    BY <1>2, <2>1, <2>2, <2>4, <2>6, <2>7, <2>8, Went, Zenon
<1>5. CASE ~(pins < PinCap)
  <2>1. PICK h : h = {<<e, i, "open">>} /\ Report(e, "refused", h) /\ task' = task /\ pins' = pins
    BY <1>1, <1>2, <1>5, Zenon DEF At, StartRead, Kinds
  <2>2. Balanced(u)
    BY Counted, <1>2, <2>1 DEF Balanced, HoldsPin, HoldsWrite
  <2>3. ASSUME NEW k \in Kinds
        PROVE  /\ Sound(e, i, k)'
               /\ Remains(e, i, k, "refused", h)
    <3>1. Sound(e, i, k)'
      BY <1>1, <1>2, <2>1, SoundKept, Zenon DEF At
    <3>2. ~ByTask(e, i, k)'
      BY <1>3, <2>1 DEF ByTask, Kinds
    <3> QED
      BY <1>3, <2>1, <3>1, <3>2 DEF Remains
  <2>4. h \subseteq {<<e, i, k>> : k \in Kinds} /\ "refused" \in Results /\ Report(e, "refused", h)
    BY <2>1 DEF Results, Kinds
  <2>5. task' \in [Tasks -> TaskType] /\ \A t \in Tasks : t # u => task'[t] = task[t]
    BY <2>1, Typed DEF IInv
  <2> QED
    BY <1>2, <2>2, <2>3, <2>4, <2>5, Reported
<1> QED
  BY <1>4, <1>5

\* The content arrives and is edited in memory, or the operand is given up.
LEMMA ReadDoneKeeps ==
  ASSUME IInv, NEW e \in Editors, ReadDone(e)
  PROVE  IInv'
<1>1. PICK i \in 1..Len(Files[e]) : At(e, i)
  BY AtOperand DEF ReadDone
<1> DEFINE u == <<e, i, "read">>
<1>2. Id(e, "read") = u /\ Id(e, "open") = <<e, i, "open">> /\ "read" \in Kinds /\ "open" \in Kinds
  BY <1>1 DEF At, Id, Kinds
<1>3. ed[e].op = i /\ i \in 1..MaxOps /\ u \in Tasks
  BY <1>1, <1>2 DEF At
<1>4. /\ ed[e].pc = "reading" /\ file' = file /\ writes' = writes /\ pins' = pins /\ task[u].st = "sent"
      /\ task' = [task EXCEPT ![u].st = "over"]
  BY <1>2, Zenon DEF ReadDone
<1>5. \A k \in Kinds : /\ k \notin {"open", "read"} => task[<<e, i, k>>].st = "none"
                       /\ k = "open" => task[<<e, i, k>>].st = "over"
                       /\ k # "open" => <<e, i, k>> \notin open
                       /\ k = "open" /\ task[u].ok => <<e, i, k>> \in open
  BY <1>1, <1>4, Zenon DEF At, Current, Stage, Early, Kinds, OpenInv, ByTask, ByCommand, Openers
<1>6. /\ task' \in [Tasks -> TaskType] /\ \A t \in Tasks : t # u => task'[t] = task[t]
      /\ task'[u].st = "over"
  BY <1>1, <1>3, <1>4, Zenon DEF At, TaskType, TaskStates
<1>7. \A k \in Kinds : k # "read" => task'[<<e, i, k>>] = task[<<e, i, k>>]
  BY <1>3, <1>6, TaskIs
<1>8. Balanced(u)
  BY Counted, <1>4, <1>6 DEF Balanced, HoldsPin, HoldsWrite, Writers
<1>9. \A k \in Kinds : Sound(e, i, k)'
  BY <1>1, <1>4, <1>6, <1>7, SoundKept, Zenon DEF At
<1>10. ASSUME Report(e, "untouched", {Id(e, "open")}) PROVE IInv'
  <2>1. PICK h : h = {<<e, i, "open">>} /\ Report(e, "untouched", h)
    BY <1>2, <1>10, Zenon
  <2>2. ASSUME NEW k \in Kinds
        PROVE  Remains(e, i, k, "untouched", h)
    BY <1>5, <1>6, <1>7, <2>1 DEF Remains, ByTask, Kinds
  <2>3. h \subseteq {<<e, i, k>> : k \in Kinds} /\ "untouched" \in Results /\ Report(e, "untouched", h)
    BY <1>2, <2>1 DEF Results
  <2>4. ed[e].pc # "end"
    BY <1>4
  <2> QED
    BY <1>2, <1>3, <1>4, <1>6, <1>8, <1>9, <2>2, <2>3, <2>4, Reported
<1>11. ASSUME task[u].ok, NEW n \in NewLens,
              ed' = [ed EXCEPT ![e].pc = "commit", ![e].new = [j \in 1..n |-> ed[e].op]],
              open' = open, report' = report
       PROVE  IInv'
  <2>1. PICK new \in Seq(Chunk) : new = [j \in 1..n |-> ed[e].op]
    <3>1. n \in Nat /\ ed[e].op \in Chunk
      BY <1>3, EditAssumption DEF Chunk, Torn
    <3>2. [j \in 1..n |-> ed[e].op] \in [1..n -> Chunk]
      BY <3>1
    <3> QED
      BY <3>1, <3>2, ChunksAreContent, Zenon
  <2>2. ed' = [ed EXCEPT ![e] = [ed[e] EXCEPT !.pc = "commit", !.new = new]]
    BY <1>1, <1>11, <2>1, Zenon DEF At
  <2>3. LET q == [ed[e] EXCEPT !.pc = "commit", !.new = new] IN
        /\ q \in EdType /\ q.pc = "commit" /\ q.op = ed[e].op /\ q.restoring = ed[e].restoring
        /\ q.orig = ed[e].orig /\ q.before = ed[e].before
    BY <1>1, Zenon DEF At, EdType
  <2>4. /\ ed' \in [Editors -> EdType] /\ \A d \in Editors : d # e => ed'[d] = ed[d]
        /\ ed'[e].pc = "commit" /\ ed'[e].op = i /\ ed'[e].restoring = ed[e].restoring
        /\ ed'[e].orig = ed[e].orig /\ ed'[e].before = ed[e].before
    BY <1>1, <2>2, <2>3 DEF At
  <2>5. ~ed[e].restoring /\ file[Files[e][i]] = ed[e].before /\ ed[e].orig = ed[e].before
    BY <1>1, <1>2, <1>4, <1>11, Zenon DEF At, ContentInv
  <2>6. ASSUME NEW k \in Kinds PROVE Current(e, k, <<e, i, k>>)' /\ OpenInv(e, i, k)'
    <3>1. Current(e, k, <<e, i, k>>)'
      BY <1>1, <1>5, <1>6, <1>7, <2>4, <2>5, Zenon DEF At, Current, Stage, Early, Kinds, Sound, Writers
    <3>2. OpenInv(e, i, k)'
      BY <1>5, <1>6, <1>7, <1>11, <2>4 DEF OpenInv, ByTask, ByCommand, Kinds, Openers
    <3> QED
      BY <3>1, <3>2
  <2>7. ContentInv(e)'
    BY <1>3, <1>4, <2>4, <2>5 DEF ContentInv, Early, File
  <2>8. ed[e].pc # "end"
    BY <1>4
  <2> QED
    BY <1>2, <1>3, <1>4, <1>6, <1>8, <1>9, <1>11, <2>4, <2>6, <2>7, <2>8, Went, ZenonT(40)
<1> QED
  BY <1>2, <1>10, <1>11 DEF ReadDone

\* The wait for the read ends first: the pin is left to its cleanup.
LEMMA AbandonReadKeeps ==
  ASSUME IInv, NEW e \in Editors, AbandonRead(e)
  PROVE  IInv'
<1>1. PICK i \in 1..Len(Files[e]) : At(e, i)
  BY AtOperand DEF AbandonRead
<1> DEFINE u == <<e, i, "read">>
<1>2. Id(e, "read") = u /\ "read" \in Kinds /\ "open" \in Kinds
  BY <1>1, Zenon DEF At, Id, Kinds
<1>3. ed[e].op = i /\ i \in 1..MaxOps /\ u \in Tasks
  BY <1>1, <1>2 DEF At
<1>4. /\ ed[e].pc = "reading" /\ file' = file /\ writes' = writes /\ pins' = pins /\ ed[e].pc # "end"
  BY DEF AbandonRead
<1>5. task' = [task EXCEPT ![u].gone = TRUE]
  BY <1>2, Zenon DEF AbandonRead
<1>6. \A k \in Kinds : /\ k \notin {"open", "read"} => task[<<e, i, k>>].st = "none"
                       /\ k = "open" => task[<<e, i, k>>].st = "over"
                       /\ k = "read" => task[<<e, i, k>>].st # "none"
                       /\ <<e, i, k>> \in open <=> ByTask(e, i, k)
  BY <1>1, <1>4, Zenon DEF At, Current, Stage, Early, Kinds, OpenInv, ByCommand, Active
<1>7. /\ task' \in [Tasks -> TaskType] /\ \A t \in Tasks : t # u => task'[t] = task[t]
      /\ task'[u].st = task[u].st /\ task'[u].ok = task[u].ok /\ task'[u].n = task[u].n /\ task'[u].gone
  BY <1>1, <1>3, <1>5, Zenon DEF At, TaskType, TaskStates
<1>8. \A k \in Kinds : k # "read" => task'[<<e, i, k>>] = task[<<e, i, k>>]
  BY <1>3, <1>7, TaskIs
<1>9. Balanced(u)
  BY Counted, <1>4, <1>7 DEF Balanced, HoldsPin, HoldsWrite, Writers
<1>10. \A k \in Kinds : Sound(e, i, k)'
  BY <1>1, <1>4, <1>6, <1>7, <1>8, SoundKept, ZenonT(40) DEF At
<1>11. PICK h, what : h = {} /\ what = "untouched" /\ Report(e, what, h)
  BY DEF AbandonRead
<1>12. ASSUME NEW k \in Kinds
       PROVE  Remains(e, i, k, what, h)
  <2>1. ByTask(e, i, k)' <=> ByTask(e, i, k)
    BY <1>6, <1>7, <1>8, Zenon DEF ByTask, Kinds
  <2> QED
    BY <1>6, <1>7, <1>8, <1>11, <2>1 DEF Remains, Kinds, Writers
<1>13. h \subseteq {<<e, i, k>> : k \in Kinds} /\ what \in Results /\ Report(e, what, h)
  BY <1>11 DEF Results
<1> QED
  BY <1>2, <1>3, <1>4, <1>7, <1>9, <1>10, <1>12, <1>13, Reported

=============================================================================
