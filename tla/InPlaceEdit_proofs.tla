------------------------- MODULE InPlaceEdit_proofs -------------------------
(***************************************************************************)
(* The steps of the tasks that read and write keep the invariant, and what *)
(* follows from it: every slot and descriptor belongs to somebody who gives *)
(* it back, no write races another, and what a command says of a file is   *)
(* true.                                                                   *)
(***************************************************************************)
EXTENDS InPlaceEdit_steps

\* A write task is past its last call: the file is closed.
LEMMA TargetClosed ==
  ASSUME IInv, NEW e \in Editors, NEW i \in 1..MaxOps, NEW l \in Writers,
         task[<<e, i, l>>].st = "running", task'[<<e, i, l>>].st = "closed",
         \A t \in Tasks : t # <<e, i, l>> => task'[t] = task[t],
         ed' = ed, open' = open \ {TargetOf(<<e, i, l>>)}
  PROVE  \A k \in Kinds : OpenInv(e, i, k)'
<1>1. l \in Kinds /\ task[<<e, i, l>>].st \notin {"none", "over"}
  BY DEF Writers, Kinds
<1>2. /\ \A k \in Kinds : /\ k # l => task[<<e, i, k>>].st \in {"none", "over"}
                          /\ OpenInv(e, i, k)
      /\ i = ed[e].op => Current(e, l, <<e, i, l>>)
  BY <1>1, Busy
<1>3. i = ed[e].op => ed[e].pc # "write"
  BY <1>2 DEF Current, Stage, Early, Writers
<1>4. \A k \in Kinds : k # l => task'[<<e, i, k>>] = task[<<e, i, k>>]
  BY TaskIs
<1>5. PICK x : x = TargetOf(<<e, i, l>>) /\ x = <<e, i, IF l = "write" THEN "acquire" ELSE "reacquire">>
  BY Zenon DEF TargetOf
<1> TAKE k \in Kinds
<1>6. ByCommand(e, i, k)' <=> ByCommand(e, i, k)
  BY DEF ByCommand, Acquire
<1>7. CASE <<e, i, k>> = x
  <2>1. ~ByCommand(e, i, k)
    BY <1>3, <1>5, <1>7 DEF ByCommand
  <2>2. ~ByTask(e, i, k)'
    BY <1>2, <1>4, <1>5, <1>7 DEF ByTask, Kinds, Writers
  <2> QED
    BY <1>5, <1>6, <1>7, <2>1, <2>2 DEF OpenInv
<1>8. CASE <<e, i, k>> # x
  <2>1. ByTask(e, i, k)' <=> ByTask(e, i, k)
    BY <1>2, <1>4, <1>5, <1>8 DEF ByTask, Kinds, Writers, Openers
  <2> QED
    BY <1>2, <1>5, <1>6, <1>8, <2>1 DEF OpenInv
<1> QED
  BY <1>7, <1>8

\* A write whose context ended stops.
LEMMA StopWritingKeeps ==
  ASSUME IInv, NEW t \in Tasks, StopWriting(t)
  PROVE  IInv'
<1>1. PICK e \in Editors, i \in 1..MaxOps, l \in Kinds : t = <<e, i, l>>
  BY TaskIs
<1> DEFINE u == <<e, i, l>>
<1>2. /\ l \in Writers /\ ed' = ed /\ file' = file /\ report' = report
      /\ pins' = pins /\ writes' = writes /\ task[u].st = "running"
      /\ task' = [task EXCEPT ![u].st = "closed"] /\ open' = open \ {TargetOf(u)}
  BY <1>1 DEF StopWriting, Writers
<1>3. task[u].st \notin {"none", "over"} /\ l \notin Openers
  BY <1>2 DEF Openers, Writers
<1>4. TypeOK /\ u \in Tasks /\ ContentInv(e) /\ i \in 1..Len(Files[e]) /\ Sound(e, i, l)
  BY <1>3, Busy DEF IInv
<1>5. /\ task' \in [Tasks -> TaskType] /\ \A v \in Tasks : v # u => task'[v] = task[v]
      /\ task'[u].st = "closed"
      /\ task'[u].ok = task[u].ok /\ task'[u].gone = task[u].gone /\ task'[u].mutated = task[u].mutated
  BY <1>2, <1>4, Typed, Zenon DEF TaskType, TaskStates
<1>6. Sound(e, i, l)'
  BY <1>2, <1>3, <1>4, <1>5, SoundKept
<1>7. Balanced(u)
  <2>1. pins \in 0..PinCap /\ writes \in 0..WriteCap /\ PinCap \in Nat /\ WriteCap \in Nat
    BY <1>4, EditAssumption DEF TypeOK
  <2> QED
    BY <1>2, <1>5, <2>1 DEF Balanced, HoldsPin, HoldsWrite, Writers
<1>8. \A k \in Kinds : OpenInv(e, i, k)'
  BY <1>2, <1>5, TargetClosed
<1>9. ContentInv(e)'
  <2>1. PICK j \in Nat \ {0} : j = ed[e].op
    BY <1>4 DEF TypeOK
  <2>2. j \in 1..MaxOps => \A k \in {"read", "write", "rewrite"} :
          task'[<<e, j, k>>].ok = task[<<e, j, k>>].ok /\ task'[<<e, j, k>>].mutated = task[<<e, j, k>>].mutated
    BY <1>5, TaskIs, Zenon DEF Kinds
  <2> QED
    BY <1>2, <1>4, <2>1, <2>2, ContentKept DEF SameCommand
<1>10. open' \subseteq Tasks /\ ed' \in [Editors -> EdType] /\ file' \in [FileNames -> Seq(Chunk)]
  BY <1>2, <1>4, Typed
<1>11. \A v \in Tasks : v[1] # e \/ v[2] # i => (v \in open' <=> v \in open)
  BY <1>2 DEF TargetOf
<1>12. task'[u].st \notin {"none", "over"} /\ task'[u].gone = task[u].gone
  BY <1>5
<1>13. ed'[e].pc = ed[e].pc /\ ed'[e].op = ed[e].op /\ ed'[e].restoring = ed[e].restoring
       /\ \A d \in Editors : ed'[d] = ed[d]
  BY <1>2
<1>14. (\A f \in FileNames : file'[f] = file[f]) /\ file' = file /\ report' = report
  BY <1>2
<1> QED
  BY <1>3, <1>5, <1>6, <1>7, <1>8, <1>9, <1>10, <1>11, <1>12, <1>13, <1>14, TaskMoved

\* The file is read, or closed after a failure.
LEMMA ReadReturnsKeeps ==
  ASSUME IInv, NEW t \in Tasks, ReadReturns(t)
  PROVE  IInv'
<1>1. PICK e \in Editors, i \in 1..MaxOps : t = <<e, i, "read">>
  BY TaskIs DEF ReadReturns
<1> DEFINE u == <<e, i, "read">>
<1>2. /\ file' = file /\ report' = report /\ pins' = pins /\ writes' = writes /\ task[u].st = "running"
      /\ task[u].st \notin {"none", "over"} /\ "read" \in Kinds /\ "read" \notin Openers
  BY <1>1 DEF ReadReturns, Kinds, Openers
<1>3. PICK ok \in BOOLEAN :
        /\ task' = [task EXCEPT ![u].st = "closed", ![u].ok = ok]
        /\ open' = IF ok THEN open ELSE open \ {<<e, i, "open">>}
        /\ ed' = [ed EXCEPT ![e].orig = IF ok /\ ~task[u].gone THEN file[Files[e][i]] ELSE @]
  BY <1>1, Zenon DEF ReadReturns, PinOf, FileOf
<1>4. /\ TypeOK /\ u \in Tasks /\ ContentInv(e) /\ i \in 1..Len(Files[e]) /\ Files[e][i] \in FileNames
      /\ Sound(e, i, "read") /\ i <= ed[e].op /\ ed[e].op \in Nat \ {0}
      /\ i < ed[e].op => task[u].gone
      /\ i = ed[e].op => Current(e, "read", u)
  <2>1. TypeOK /\ ed[e].op \in Nat \ {0}
    BY DEF IInv, TypeOK
  <2> QED
    BY <1>2, <2>1, Busy
<1>5. \A k \in Kinds : /\ k # "read" => task[<<e, i, k>>].st \in {"none", "over"}
                       /\ OpenInv(e, i, k)
  BY <1>2, Busy
<1>6. /\ i = ed[e].op => ed[e].pc = "reading" /\ ~task[u].gone
      /\ ~task[u].gone => i = ed[e].op
  <2>1. ASSUME i = ed[e].op PROVE ed[e].pc = "reading" /\ ~task[u].gone
    <3>1. Write(e) # "read"
      BY DEF Write
    <3> QED
      BY <1>2, <1>4, <2>1, <3>1 DEF Current, Stage
  <2> QED
    BY <1>4, <2>1
<1>7. /\ task' \in [Tasks -> TaskType] /\ \A v \in Tasks : v # u => task'[v] = task[v]
      /\ task'[u].st = "closed" /\ task'[u].ok = ok /\ task'[u].gone = task[u].gone
  <2>1. task \in [Tasks -> TaskType]
    BY <1>4, Typed
  <2> QED
    BY <1>3, <1>4, <2>1, ZenonT(40) DEF TaskType, TaskStates
<1>8. PICK c \in Seq(Chunk) : /\ c = IF ok /\ ~task[u].gone THEN file[Files[e][i]] ELSE ed[e].orig
                              /\ ed' = [ed EXCEPT ![e] = [ed[e] EXCEPT !.orig = c]]
  <2>1. ed \in [Editors -> EdType] /\ ed[e].orig \in Seq(Chunk) /\ file[Files[e][i]] \in Seq(Chunk)
    BY <1>4, Typed DEF EdType
  <2> QED
    BY <1>3, <2>1, Zenon
<1>9. LET q == [ed[e] EXCEPT !.orig = c] IN
      /\ q \in EdType /\ q.pc = ed[e].pc /\ q.op = ed[e].op /\ q.restoring = ed[e].restoring
      /\ q.orig = c /\ q.new = ed[e].new /\ q.before = ed[e].before
  <2>1. ed[e] \in EdType
    BY <1>4, Typed
  <2> QED
    BY <2>1, Zenon DEF EdType
<1>10. /\ ed' \in [Editors -> EdType] /\ \A d \in Editors : d # e => ed'[d] = ed[d]
       /\ ed'[e].pc = ed[e].pc /\ ed'[e].op = ed[e].op /\ ed'[e].restoring = ed[e].restoring
       /\ ed'[e].orig = c /\ ed'[e].new = ed[e].new /\ ed'[e].before = ed[e].before
  <2>1. ed \in [Editors -> EdType]
    BY <1>4, Typed
  <2> QED
    BY <1>8, <1>9, <2>1
<1>11. Sound(e, i, "read")'
  BY <1>2, <1>4, <1>7, SoundKept
<1>12. Balanced(u)
  <2>1. pins \in 0..PinCap /\ writes \in 0..WriteCap /\ PinCap \in Nat /\ WriteCap \in Nat
    BY <1>4, EditAssumption DEF TypeOK
  <2> QED
    BY <1>2, <1>7, <2>1 DEF Balanced, HoldsPin, HoldsWrite, Writers
<1>13. \A m \in Kinds : m # "read" => task'[<<e, i, m>>] = task[<<e, i, m>>]
  BY <1>7, TaskIs
<1>14. ASSUME NEW k \in Kinds PROVE OpenInv(e, i, k)'
  <2>1. ByCommand(e, i, k)' <=> ByCommand(e, i, k)
    BY <1>10 DEF ByCommand, Acquire
  <2>2. CASE k = "open"
    <3>1. ~ByCommand(e, i, k) /\ ByTask(e, i, k)
      BY <1>2, <1>6, <2>2 DEF ByCommand, ByTask
    <3>2. <<e, i, k>> \in open
      BY <1>5, <3>1 DEF OpenInv
    <3>3. ByTask(e, i, k)' <=> ok
      <4>1. task'[<<e, i, "open">>].st \in {"none", "over"}
        BY <1>5, <1>13 DEF Kinds
      <4> QED
        BY <1>7, <2>2, <4>1 DEF ByTask
    <3> QED
      BY <1>3, <2>1, <2>2, <3>1, <3>2, <3>3 DEF OpenInv
  <2>3. CASE k # "open"
    <3>1. ByTask(e, i, k)' <=> ByTask(e, i, k)
      BY <1>13, <2>3, Zenon DEF ByTask, Kinds, Openers
    <3>2. <<e, i, k>> \in open' <=> <<e, i, k>> \in open
      BY <1>3, <2>3
    <3> QED
      BY <1>5, <2>1, <3>1, <3>2 DEF OpenInv
  <2> QED
    BY <2>2, <2>3
<1>15. ContentInv(e)'
  <2>1. PICK j \in Nat \ {0} : j = ed[e].op
    BY <1>4
  <2>2. CASE ok /\ ~task[u].gone
    <3>1. ed[e].pc = "reading" /\ ed'[e].pc = "reading" /\ File(e) = Files[e][i] /\ File(e)' = Files[e][i]
      BY <1>6, <1>10, <2>2, Zenon DEF File
    <3> QED
      BY <1>2, <1>4, <1>8, <1>10, <2>2, <3>1 DEF ContentInv, Early
  <2>3. CASE ~ok \/ task[u].gone
    <3>1. SameCommand(e)
      BY <1>8, <1>10, <2>3, Zenon DEF SameCommand
    <3>2. j = i => ~ok
      BY <1>6, <2>1, <2>3
    <3>3. j \in 1..MaxOps /\ j # i => \A k \in {"read", "write", "rewrite"} : task'[<<e, j, k>>] = task[<<e, j, k>>]
      BY <1>7, TaskIs, Zenon DEF Kinds
    <3>4. \A k \in {"write", "rewrite"} : task'[<<e, i, k>>] = task[<<e, i, k>>]
      BY <1>13, Zenon DEF Kinds
    <3>5. task'[u].mutated = task[u].mutated
      <4>1. task \in [Tasks -> TaskType]
        BY <1>4, Typed
      <4> QED
        BY <1>3, <1>4, <4>1 DEF TaskType
    <3>6. j \in 1..MaxOps => \A k \in {"read", "write", "rewrite"} :
            /\ task'[<<e, j, k>>].ok => task[<<e, j, k>>].ok
            /\ task[<<e, j, k>>].mutated => task'[<<e, j, k>>].mutated
      BY <1>7, <3>2, <3>3, <3>4, <3>5, Zenon
    <3> QED
      BY <1>2, <1>4, <2>1, <3>1, <3>6, ContentKept
  <2> QED
    BY <2>2, <2>3
<1>16. open' \subseteq Tasks /\ file' \in [FileNames -> Seq(Chunk)]
  BY <1>2, <1>3, <1>4, Typed
<1>17. \A v \in Tasks : v[1] # e \/ v[2] # i => (v \in open' <=> v \in open)
  BY <1>3
<1>18. task'[u].st \notin {"none", "over"} /\ task'[u].gone = task[u].gone
  BY <1>7
<1>19. (\A f \in FileNames : file'[f] = file[f]) /\ file' = file /\ report' = report
  BY <1>2
<1> QED
  BY <1>2, <1>7, <1>10, <1>11, <1>12, <1>14, <1>15, <1>16, <1>17, <1>18, <1>19, TaskMoved

\* A write that goes on is the one its command waits for.
LEMMA LiveWrite ==
  ASSUME IInv, NEW e \in Editors, NEW i \in 1..MaxOps, NEW l \in Writers,
         task[<<e, i, l>>].st = "running", ~task[<<e, i, l>>].gone
  PROVE  /\ i = ed[e].op /\ ed[e].pc = "writing" /\ Write(e) = l /\ File(e) = Files[e][i]
         /\ Id(e, l) = <<e, i, l>> /\ DataOf(<<e, i, l>>) = Data(e)
         /\ ~ed[e].restoring <=> l = "write"
<1>1. l \in Kinds /\ task[<<e, i, l>>].st \notin {"none", "over"}
  BY DEF Writers, Kinds
<1>3. ed[e].op \in Nat /\ ed[e].restoring \in BOOLEAN
  BY DEF IInv, TypeOK
<1>4. i = ed[e].op
  BY <1>1, <1>3, Busy
<1>5. Current(e, l, <<e, i, l>>)
  BY <1>1, <1>4, Busy
<1>6. /\ ed[e].pc \in {"writing", "waiting"}
      /\ ~ed[e].restoring <=> l = "write"
  BY <1>3, <1>5 DEF Current, Stage, Early, Writers
<1>7. Write(e) = l
  BY <1>6 DEF Write, Writers
<1>8. ed[e].pc = "writing"
  BY <1>5, <1>6, <1>7 DEF Current
<1>9. DataOf(<<e, i, l>>) = Data(e)
  BY <1>6 DEF DataOf, Data
<1> QED
  BY <1>4, <1>6, <1>7, <1>8, <1>9 DEF Id, File

\* A step of a write that goes on, whatever it does to its file.
LEMMA WriteMoved ==
  ASSUME IInv, NEW e \in Editors, NEW i \in 1..MaxOps, NEW l \in Writers,
         task[<<e, i, l>>].st = "running", ~task[<<e, i, l>>].gone,
         task' \in [Tasks -> TaskType], \A t \in Tasks : t # <<e, i, l>> => task'[t] = task[t],
         task'[<<e, i, l>>].gone = task[<<e, i, l>>].gone,
         \/ task'[<<e, i, l>>].st = "closed" /\ open' = open \ {TargetOf(<<e, i, l>>)}
         \/ task'[<<e, i, l>>].st = "running" /\ open' = open /\ ~task'[<<e, i, l>>].ok
            /\ task'[<<e, i, l>>].n <= Len(file'[Files[e][i]]),
         file' \in [FileNames -> Seq(Chunk)], \A f \in FileNames : f # Files[e][i] => file'[f] = file[f],
         ~task'[<<e, i, l>>].mutated => file' = file /\ ~task[<<e, i, l>>].mutated,
         task'[<<e, i, l>>].ok => file'[Files[e][i]] = Data(e),
         ed' = ed, pins' = pins, writes' = writes, report' = report
  PROVE  IInv'
<1> DEFINE u == <<e, i, l>>
<1>1. l \in Kinds /\ task[u].st \notin {"none", "over"} /\ l \notin Openers
  BY Zenon DEF Writers, Kinds, Openers
<1>2. TypeOK /\ u \in Tasks /\ ContentInv(e) /\ i \in 1..Len(Files[e]) /\ \A k \in Kinds : OpenInv(e, i, k)
  BY <1>1, Busy, Zenon DEF IInv
<1>3. Sound(e, i, l)
  BY <1>1, Busy, Zenon
<1>4. /\ i = ed[e].op /\ ed[e].pc = "writing" /\ Write(e) = l /\ File(e) = Files[e][i]
      /\ Id(e, l) = <<e, i, l>>
      /\ ~ed[e].restoring <=> l = "write"
  BY LiveWrite
<1>5. Sound(e, i, l)'
  BY <1>1, <1>2, <1>3, OperandIs DEF Sound
<1>6. Balanced(u)
  <2>1. pins \in 0..PinCap /\ writes \in 0..WriteCap /\ PinCap \in Nat /\ WriteCap \in Nat
    BY <1>2, EditAssumption DEF TypeOK
  <2> QED
    BY <2>1 DEF Balanced, HoldsPin, HoldsWrite, Writers
<1>7. \A k \in Kinds : OpenInv(e, i, k)'
  <2>1. CASE task'[u].st = "closed" /\ open' = open \ {TargetOf(u)}
    BY <2>1, TargetClosed
  <2>2. CASE task'[u].st = "running" /\ open' = open
    <3>1. \A k \in Kinds : k # l => task'[<<e, i, k>>] = task[<<e, i, k>>]
      BY TaskIs
    <3> QED
      BY <1>2, <2>2, <3>1, ZenonT(40) DEF OpenInv, ByTask, ByCommand, Acquire, Kinds, Openers, Writers
  <2> QED
    BY <2>1, <2>2, Zenon
<1>8. ContentInv(e)'
  <2>1. Write(e)' = l /\ File(e)' = Files[e][i] /\ Id(e, l)' = u /\ Data(e)' = Data(e)
    BY <1>4, Zenon DEF Write, File, Id, Data
  <2>2. ed'[e].op <= Len(Files[e]) /\ ed'[e].pc = "writing" /\ ed'[e].orig = ed'[e].before
    BY <1>2, <1>4, Zenon DEF ContentInv, Early
  <2>3. Id(e, Write(e))' = u /\ (~ed[e].restoring => Id(e, "write")' = u)
    BY <1>4, <2>1, Zenon DEF Id
  <2>4. ~ed'[e].restoring /\ ~task'[u].mutated => file'[Files[e][i]] = ed'[e].before
    BY <1>2, <1>4, Zenon DEF ContentInv
  <2> QED
    BY <1>4, <2>1, <2>2, <2>3, <2>4, Zenon DEF ContentInv
<1>9. open' \subseteq Tasks /\ ed' \in [Editors -> EdType]
  BY <1>2, Typed, Zenon
<1>10. \A v \in Tasks : v[1] # e \/ v[2] # i => (v \in open' <=> v \in open)
  BY DEF TargetOf
<1>11. task'[u].st \notin {"none", "over"} /\ task'[u].gone = task[u].gone
  OBVIOUS
<1>12. ed'[e].pc = ed[e].pc /\ ed'[e].op = ed[e].op /\ ed'[e].restoring = ed[e].restoring
       /\ \A d \in Editors : ed'[d] = ed[d]
  OBVIOUS
<1> QED
  BY <1>1, <1>5, <1>6, <1>7, <1>8, <1>9, <1>10, <1>11, <1>12, TaskMoved

\* A chunk is written, in part, or not at all.
LEMMA WriteChunkKeeps ==
  ASSUME IInv, NEW t \in Tasks, WriteChunk(t)
  PROVE  IInv'
<1>1. PICK e \in Editors, i \in 1..MaxOps, l \in Kinds : t = <<e, i, l>>
  BY TaskIs
<1> DEFINE u == <<e, i, l>>
<1>2. /\ l \in Writers /\ task[u].st = "running" /\ ~task[u].gone /\ task[u].n < Len(DataOf(u))
      /\ ed' = ed /\ pins' = pins /\ writes' = writes /\ report' = report
      /\ task[u].st \notin {"none", "over"}
  BY <1>1 DEF WriteChunk, WriteOneChunk, Writers, CtxOf
<1>3. /\ TypeOK /\ u \in Tasks /\ i \in 1..Len(Files[e]) /\ Files[e][i] \in FileNames /\ Sound(e, i, l)
  BY <1>2, Busy, Zenon DEF IInv
<1>4. DataOf(u) = Data(e) /\ Data(e) \in Seq(Chunk)
  <2>1. ed[e].orig \in Seq(Chunk) /\ ed[e].new \in Seq(Chunk)
    BY <1>3 DEF TypeOK
  <2>2. DataOf(u) = Data(e)
    BY <1>2, LiveWrite
  <2>3. Data(e) \in Seq(Chunk)
    BY <2>1 DEF Data
  <2> QED
    BY <2>2, <2>3
<1>5. PICK c \in Seq(Chunk), k \in Nat \ {0}, w \in Chunk :
        /\ c = file[Files[e][i]] /\ k = task[u].n + 1 /\ w = Data(e)[k]
        /\ k <= Len(c) + 1
  <2>1. task \in [Tasks -> TaskType] /\ file \in [FileNames -> Seq(Chunk)]
    BY <1>3, Typed
  <2>2. task[u].n \in Nat /\ file[Files[e][i]] \in Seq(Chunk)
    BY <1>3, <2>1 DEF TaskType
  <2>3. task[u].n <= Len(file[Files[e][i]])
    BY <1>2, <1>3 DEF Sound
  <2>4. task[u].n + 1 \in 1..Len(Data(e))
    BY <1>2, <1>4, <2>2
  <2>5. Data(e)[task[u].n + 1] \in Chunk
    BY <1>4, <2>4
  <2>6. task[u].n + 1 \in Nat \ {0} /\ task[u].n + 1 <= Len(file[Files[e][i]]) + 1
    BY <2>2, <2>3
  <2> QED
    BY <2>2, <2>5, <2>6
<1>6. PICK m : m = IF Len(c) < k THEN k ELSE Len(c)
  OBVIOUS
<1>7. PICK outcome \in {"all", "part", "nothing"} :
        /\ file' = IF outcome = "nothing" THEN file
                   ELSE [file EXCEPT ![Files[e][i]] =
                           [j \in 1..m |-> IF j # k THEN c[j] ELSE IF outcome = "all" THEN w ELSE Torn]]
        /\ task' = [task EXCEPT ![u].st = IF outcome = "all" THEN "running" ELSE "closed",
                                ![u].n = IF outcome = "all" THEN k ELSE @,
                                ![u].mutated = @ \/ outcome \in {"all", "part"}]
        /\ open' = IF outcome = "all" THEN open ELSE open \ {TargetOf(u)}
  <2>1. FileOf(u) = Files[e][i] /\ t = u
    BY <1>1 DEF FileOf
  <2>2. file[FileOf(u)] = c /\ task[u].n + 1 = k /\ DataOf(u)[k] = w
    BY <1>4, <1>5, <2>1
  <2>3. PICK o \in {"all", "part", "nothing"} :
          /\ file' = IF o = "nothing" THEN file
                     ELSE [file EXCEPT ![FileOf(u)] =
                             [j \in 1..(IF Len(file[FileOf(u)]) < task[u].n + 1 THEN task[u].n + 1 ELSE Len(file[FileOf(u)])) |->
                                IF j # task[u].n + 1 THEN file[FileOf(u)][j]
                                ELSE IF o = "all" THEN DataOf(u)[task[u].n + 1] ELSE Torn]]
          /\ task' = [task EXCEPT ![u].st = IF o = "all" THEN "running" ELSE "closed",
                                  ![u].n = IF o = "all" THEN task[u].n + 1 ELSE @,
                                  ![u].mutated = @ \/ o \in {"all", "part"}]
          /\ open' = IF o = "all" THEN open ELSE open \ {TargetOf(u)}
    <3>1. WriteOneChunk(u, {"all", "part"})
      BY <2>1 DEF WriteChunk
    <3> QED
      BY <3>1, Zenon DEF WriteOneChunk
  <2> QED
    BY <1>6, <2>1, <2>2, <2>3, Zenon
<1>8. PICK x \in Chunk : x = IF outcome = "all" THEN w ELSE Torn
  BY <1>5, EditAssumption DEF Chunk, Torn
<1>9. PICK d : d = [j \in 1..m |-> IF j # k THEN c[j] ELSE x]
  BY Zenon
<1>10. d \in Seq(Chunk) /\ k <= Len(d)
  <2>1. Len(c) \in Nat /\ m \in Nat /\ k <= m
    BY <1>5, <1>6
  <2>2. ASSUME NEW j \in 1..m, j # k PROVE c[j] \in Chunk
    <3>1. j \in 1..Len(c)
      BY <1>5, <1>6, <2>1, <2>2
    <3> QED
      BY <3>1
  <2>3. d \in [1..m -> Chunk]
    BY <1>8, <1>9, <2>2
  <2>4. d \in Seq(Chunk)
    BY <2>1, <2>3, ChunksAreContent
  <2>5. Len(d) = m
    BY <2>1, <2>3, <2>4
  <2> QED
    BY <2>1, <2>4, <2>5
<1>11. file' = IF outcome = "nothing" THEN file ELSE [file EXCEPT ![Files[e][i]] = d]
  BY <1>7, <1>8, <1>9
<1>12. /\ file' \in [FileNames -> Seq(Chunk)] /\ \A f \in FileNames : f # Files[e][i] => file'[f] = file[f]
       /\ outcome # "nothing" => file'[Files[e][i]] = d
       /\ outcome = "nothing" => file' = file
  <2>1. file \in [FileNames -> Seq(Chunk)]
    BY <1>3, Typed
  <2> QED
    BY <1>3, <1>10, <1>11, <2>1
<1>13. /\ task' \in [Tasks -> TaskType] /\ \A v \in Tasks : v # u => task'[v] = task[v]
       /\ task'[u].st = (IF outcome = "all" THEN "running" ELSE "closed")
       /\ task'[u].gone = task[u].gone /\ task'[u].ok = task[u].ok
       /\ outcome = "all" => task'[u].n = k
       /\ outcome # "nothing" => task'[u].mutated
       /\ outcome = "nothing" => task'[u].mutated = task[u].mutated
  <2>1. task \in [Tasks -> TaskType]
    BY <1>3, Typed, Zenon
  <2>2. task[u] \in TaskType
    BY <1>3, <2>1
  <2>3. PICK z \in TaskStates, n \in Nat, b \in BOOLEAN :
          /\ z = (IF outcome = "all" THEN "running" ELSE "closed")
          /\ n = (IF outcome = "all" THEN k ELSE task[u].n)
          /\ b = (task[u].mutated \/ outcome \in {"all", "part"})
    BY <1>5, <2>2, Zenon DEF TaskStates, TaskType
  <2>4. task' = [task EXCEPT ![u].st = z, ![u].n = n, ![u].mutated = b]
    BY <1>7, <2>1, <2>3, <1>3
  <2>5. /\ task' \in [Tasks -> TaskType] /\ \A v \in Tasks : v # u => task'[v] = task[v]
        /\ task'[u].st = z /\ task'[u].n = n /\ task'[u].mutated = b
        /\ task'[u].gone = task[u].gone /\ task'[u].ok = task[u].ok
    BY <1>3, <2>1, <2>4, Zenon DEF TaskType
  <2>6. task[u].mutated \in BOOLEAN
    BY <2>2 DEF TaskType
  <2> QED
    BY <2>3, <2>5, <2>6, Zenon
<1>14. ~task[u].ok
  BY <1>2, <1>3 DEF Sound
<1>15. \/ task'[u].st = "closed" /\ open' = open \ {TargetOf(u)}
       \/ task'[u].st = "running" /\ open' = open /\ ~task'[u].ok /\ task'[u].n <= Len(file'[Files[e][i]])
  BY <1>7, <1>10, <1>12, <1>13, <1>14, Zenon
<1>16. /\ ~task'[u].mutated => file' = file /\ ~task[u].mutated
       /\ ~task'[u].ok /\ task'[u].gone = task[u].gone
  BY <1>12, <1>13, <1>14, Zenon
<1>17. task' \in [Tasks -> TaskType] /\ \A v \in Tasks : v # u => task'[v] = task[v]
  BY <1>13
<1>18. file' \in [FileNames -> Seq(Chunk)] /\ \A f \in FileNames : f # Files[e][i] => file'[f] = file[f]
  BY <1>12
<1> QED
  BY <1>2, <1>15, <1>16, <1>17, <1>18, WriteMoved, Zenon

\* The file is cut to its new length and closed, or one of the two fails.
LEMMA TruncateKeeps ==
  ASSUME IInv, NEW t \in Tasks, Truncate(t)
  PROVE  IInv'
<1>1. PICK e \in Editors, i \in 1..MaxOps, l \in Kinds : t = <<e, i, l>>
  BY TaskIs
<1> DEFINE u == <<e, i, l>>
<1>2. /\ l \in Writers /\ task[u].st = "running" /\ ~task[u].gone
      /\ ed' = ed /\ pins' = pins /\ writes' = writes /\ report' = report
      /\ task[u].st \notin {"none", "over"} /\ open' = open \ {TargetOf(u)}
  BY <1>1, Zenon DEF Truncate, Writers, CtxOf
<1>3. TypeOK /\ u \in Tasks /\ i \in 1..Len(Files[e]) /\ Files[e][i] \in FileNames
  BY <1>2, Busy DEF IInv
<1>4. DataOf(u) = Data(e) /\ Data(e) \in Seq(Chunk)
  <2>1. ed[e].orig \in Seq(Chunk) /\ ed[e].new \in Seq(Chunk)
    BY <1>3, Zenon DEF TypeOK
  <2>2. DataOf(u) = Data(e)
    BY <1>2, LiveWrite
  <2>3. Data(e) \in Seq(Chunk)
    BY <2>1 DEF Data
  <2> QED
    BY <2>2, <2>3
<1>5. PICK outcome \in {"done", "not truncated", "not closed"} :
        /\ task' = [task EXCEPT ![u].st = "closed", ![u].ok = outcome = "done",
                                ![u].mutated = @ \/ outcome # "not truncated"]
        /\ file' = IF outcome = "not truncated" THEN file ELSE [file EXCEPT ![Files[e][i]] = Data(e)]
  <2>1. FileOf(u) = Files[e][i] /\ t = u
    BY <1>1 DEF FileOf
  <2> QED
    BY <1>4, <2>1, Zenon DEF Truncate
<1>6. /\ file' \in [FileNames -> Seq(Chunk)] /\ \A f \in FileNames : f # Files[e][i] => file'[f] = file[f]
      /\ outcome # "not truncated" => file'[Files[e][i]] = Data(e)
      /\ outcome = "not truncated" => file' = file
  <2>1. file \in [FileNames -> Seq(Chunk)]
    BY <1>3, Typed, Zenon
  <2> QED
    BY <1>3, <1>4, <1>5, <2>1, Zenon
<1>7. /\ task' \in [Tasks -> TaskType] /\ \A v \in Tasks : v # u => task'[v] = task[v]
      /\ task'[u].st = "closed" /\ task'[u].gone = task[u].gone
      /\ task'[u].ok => outcome = "done"
      /\ ~task'[u].mutated => outcome = "not truncated" /\ ~task[u].mutated
  <2>1. task \in [Tasks -> TaskType]
    BY <1>3, Typed, Zenon
  <2>2. task[u] \in TaskType /\ task[u].mutated \in BOOLEAN
    BY <1>3, <2>1, Zenon DEF TaskType
  <2>3. PICK a \in BOOLEAN, b \in BOOLEAN :
          a = (outcome = "done") /\ b = (task[u].mutated \/ outcome # "not truncated")
    BY <2>2, Zenon
  <2>4. task' = [task EXCEPT ![u].st = "closed", ![u].ok = a, ![u].mutated = b]
    BY <1>3, <1>5, <2>1, <2>3, Zenon
  <2>5. /\ task' \in [Tasks -> TaskType] /\ \A v \in Tasks : v # u => task'[v] = task[v]
        /\ task'[u].st = "closed" /\ task'[u].gone = task[u].gone
        /\ task'[u].ok = a /\ task'[u].mutated = b
    BY <1>3, <2>1, <2>4, ZenonT(40) DEF TaskType, TaskStates
  <2> QED
    BY <2>2, <2>3, <2>5, Zenon
<1>8. /\ ~task'[u].mutated => file' = file /\ ~task[u].mutated
      /\ task'[u].ok => file'[Files[e][i]] = Data(e)
  BY <1>6, <1>7, Zenon
<1>9. task' \in [Tasks -> TaskType] /\ \A v \in Tasks : v # u => task'[v] = task[v]
  BY <1>7, Zenon
<1>10. file' \in [FileNames -> Seq(Chunk)] /\ \A f \in FileNames : f # Files[e][i] => file'[f] = file[f]
  BY <1>6, Zenon
<1>11. task'[u].st = "closed" /\ open' = open \ {TargetOf(u)} /\ task'[u].gone = task[u].gone
  BY <1>2, <1>7, Zenon
<1> QED
  BY <1>2, <1>8, <1>9, <1>10, <1>11, WriteMoved, Zenon

-----------------------------------------------------------------------------
\* At the start there are no tasks.
LEMMA InitIInv == Init => IInv
<1> SUFFICES ASSUME Init PROVE IInv
  OBVIOUS
<1>1. \A t \in Tasks : task[t] = NoTask /\ task[t].st = "none" /\ ~task[t].ok /\ ~task[t].gone
  BY DEF Init, NoTask
<1>2. TypeOK
  <2>1. PICK c : c = [i \in 1..OldLen |-> 0]
    BY Zenon
  <2>2. c \in Seq(Chunk)
    <3>1. 0 \in Chunk /\ OldLen \in Nat
      BY EditAssumption DEF Chunk, Torn
    <3>2. c \in [1..OldLen -> Chunk]
      BY <2>1, <3>1
    <3> QED
      BY <3>1, <3>2, ChunksAreContent
  <2>3. file \in [FileNames -> Seq(Chunk)]
    BY <2>1, <2>2 DEF Init
  <2>4. NoTask \in TaskType
    BY DEF NoTask, TaskType, TaskStates
  <2>5. task \in [Tasks -> TaskType]
    BY <2>4 DEF Init
  <2>6. ed \in [Editors -> EdType]
    <3>1. 1 \in 1..MaxOps + 1 /\ <<>> \in Seq(Chunk)
      BY EditAssumption
    <3> QED
      BY <3>1 DEF Init, EdType
  <2>7. pins \in 0..PinCap /\ writes \in 0..WriteCap /\ open \subseteq Tasks
    BY EditAssumption DEF Init
  <2>8. report \in [Editors \X (1..MaxOps) -> Results \cup {"none"}]
    BY DEF Init
  <2> QED
    BY <2>3, <2>5, <2>6, <2>7, <2>8, Typed
<1>3. SlotsExact
  <2>1. /\ In({"open"}, {"running", "sent"}) \cup In({"read"}, {"running", "closed"}) = {}
        /\ In({"acquire", "reacquire"}, {"running", "sent"}) \cup In({"write", "rewrite"}, {"running", "closed"}) = {}
    BY <1>1 DEF In
  <2> QED
    BY <2>1, FS_EmptySet, Zenon DEF SlotsExact, Init
<1>4. ASSUME NEW e \in Editors PROVE LocalInv(e)
  <2>1. ed[e].pc = "next" /\ ed[e].op = 1 /\ open = {}
    BY DEF Init
  <2>2. ContentInv(e)
    BY <2>1 DEF ContentInv, Early
  <2>3. ASSUME NEW i \in 1..MaxOps, NEW k \in Kinds PROVE TaskInv(e, i, k) /\ OpenInv(e, i, k)
    <3>1. \A l \in Kinds : LET t == <<e, i, l>> IN task[t].st = "none" /\ ~task[t].ok /\ ~task[t].gone
      BY <1>1, TaskIs
    <3>2. Sound(e, i, k)
      BY <3>1 DEF Sound
    <3>3. i = ed[e].op => Current(e, k, <<e, i, k>>)
      BY <2>1, <3>1 DEF Current, Stage, Early, Kinds
    <3>4. ~(i < ed[e].op)
      BY <2>1
    <3>5. OpenInv(e, i, k)
      BY <2>1, <3>1 DEF OpenInv, ByTask, ByCommand, Kinds
    <3> QED
      BY <3>1, <3>2, <3>3, <3>4, <3>5 DEF TaskInv
  <2>4. \A i \in 1..MaxOps : Alone(e, i)
    BY <1>1, TaskIs DEF Alone
  <2> QED
    BY <2>2, <2>3, <2>4 DEF LocalInv
<1> QED
  BY <1>2, <1>3, <1>4 DEF IInv

\* A step in which nothing happens.
LEMMA StutterKeeps ==
  ASSUME IInv, UNCHANGED vars
  PROVE  IInv'
<1>1. /\ ed' = ed /\ task' = task /\ file' = file /\ open' = open
      /\ pins' = pins /\ writes' = writes /\ report' = report
  BY DEF vars
<1>2. TypeOK'
  BY <1>1, Typed, TypedNext DEF IInv
<1>3. SlotsExact'
  BY <1>1 DEF IInv, SlotsExact, In
<1>4. ASSUME NEW e \in Editors PROVE LocalInv(e)'
  <2>1. SameCommand(e) /\ LocalInv(e) /\ ed[e].op \in Nat \ {0}
    BY <1>1 DEF SameCommand, IInv, TypeOK
  <2> QED
    BY <1>1, <2>1, OthersKept
<1> QED
  BY <1>2, <1>3, <1>4 DEF IInv

\* Every step of every command and task keeps the invariant.
LEMMA NextIInv == IInv /\ [Next]_vars => IInv'
<1> SUFFICES ASSUME IInv, [Next]_vars PROVE IInv'
  OBVIOUS
<1>1. ASSUME NEW e \in Editors, Cancel(e) \/ Expire(e) PROVE IInv'
  BY <1>1, TimersKeep
<1>2. ASSUME NEW e \in Editors, EditorStep(e) PROVE IInv'
  <2>1. CASE EndLoop(e) \/ OpenPin(e) \/ Opened(e) \/ AbandonOpen(e)
    BY <2>1, EndLoopKeeps, OpenPinKeeps, OpenedKeeps, AbandonOpenKeeps
  <2>2. CASE StartRead(e) \/ ReadDone(e) \/ AbandonRead(e)
    BY <2>2, StartReadKeeps, ReadDoneKeeps, AbandonReadKeeps
  <2>3. CASE StartWrite(e) \/ Acquired(e) \/ AbandonAcquire(e)
    BY <2>3, StartWriteKeeps, AcquiredKeeps, AbandonAcquireKeeps
  <2>4. CASE WriteOut(e) \/ Written(e) \/ AbandonWrite(e) \/ GiveUp(e)
    BY <2>4, WriteOutKeeps, WrittenKeeps, AbandonWriteKeeps, GiveUpKeeps
  <2> QED
    BY <1>2, <2>1, <2>2, <2>3, <2>4 DEF EditorStep
<1>3. ASSUME NEW t \in Tasks, TaskStep(t) PROVE IInv'
  <2>1. CASE OpenReturns(t) \/ ReadReturns(t) \/ FinishTask(t)
    BY <2>1, OpenReturnsKeeps, ReadReturnsKeeps, FinishTaskKeeps
  <2>2. CASE CleanUpOpen(t) \/ CleanUpRead(t) \/ CleanUpAcquire(t)
    BY <2>2, CleanUpOpenKeeps, CleanUpReadKeeps, CleanUpAcquireKeeps
  <2>3. CASE WriteChunk(t) \/ StopWriting(t) \/ Truncate(t)
    BY <2>3, WriteChunkKeeps, StopWritingKeeps, TruncateKeeps
  <2> QED
    BY <1>3, <2>1, <2>2, <2>3 DEF TaskStep
<1>4. CASE UNCHANGED vars
  BY <1>4, StutterKeeps
<1> QED
  BY <1>1, <1>2, <1>3, <1>4 DEF Next

\* The commands, their tasks, the pools and the files agree at every moment,
\* however calls hang and whatever is abandoned (openPinBounded,
\* statAndReadBounded, writeWithOutcome, WriteRegularFile).
THEOREM EditInvariant == Spec => []IInv
BY InitIInv, NextIInv, PTL DEF Spec

-----------------------------------------------------------------------------
\* Every descriptor is going to be closed by a task or by its command.
LEMMA OpenIsOwned == IInv => DescriptorsOwned
<1> SUFFICES ASSUME IInv PROVE DescriptorsOwned
  OBVIOUS
<1> DEFINE Readers == In({"read"}, {"running"}) \cup {u \in In({"read"}, {"closed", "released", "sent"}) : task[u].ok}
           Commands == UNION {Held(d) : d \in Editors}
           Received == {u \in In({"open", "acquire", "reacquire"}, {"sent"}) : task[u].ok}
           Pins == {PinOf(u) : u \in Readers}
           Targets == {TargetOf(u) : u \in In({"write", "rewrite"}, {"running"})}
<1>0. Owned = Commands \cup Received \cup Pins \cup Targets
  BY Zenon DEF Owned
<1>1. Owned \subseteq Tasks
  <2>1. ASSUME NEW e \in Editors PROVE Held(e) \subseteq Tasks
    <3>1. ed[e].pc \notin {"next", "end"} => ed[e].op \in 1..MaxOps
      <4>1. ed[e].op \in Nat \ {0} /\ ContentInv(e)
        BY DEF IInv, TypeOK, LocalInv
      <4> QED
        BY <4>1, OperandIs, EditAssumption DEF ContentInv
    <3> QED
      BY <3>1 DEF Held, Id, Acquire, Tasks, Kinds
  <2>2. \A t \in Tasks : PinOf(t) \in Tasks /\ TargetOf(t) \in Tasks
    BY TaskIs, Zenon DEF PinOf, TargetOf, Kinds
  <2>3. \A S, T : In(S, T) \subseteq Tasks
    BY DEF In
  <2>4. Commands \subseteq Tasks /\ Received \subseteq Tasks
    BY <2>1, <2>3
  <2>5. Pins \subseteq Tasks /\ Targets \subseteq Tasks
    BY <2>2, <2>3
  <2> HIDE DEF Commands, Received, Pins, Targets
  <2> QED
    BY <1>0, <2>4, <2>5
<1>2. ASSUME NEW e \in Editors, NEW i \in 1..MaxOps, NEW k \in Kinds
      PROVE  <<e, i, k>> \in Owned <=> ByTask(e, i, k) \/ ByCommand(e, i, k)
  <2> DEFINE t == <<e, i, k>>
  <2>1. t \in Commands <=> ByCommand(e, i, k)
    <3>1. t \in Commands <=> \E d \in Editors : t \in Held(d)
      OBVIOUS
    <3>2. \A d \in Editors : t \in Held(d) => d = e
      BY DEF Held, Id
    <3>3. t \in Held(e) <=> ByCommand(e, i, k)
      BY DEF Held, Id, ByCommand, Acquire
    <3> QED
      BY <3>1, <3>2, <3>3
  <2>2. t \in Received <=> k \in Openers /\ task[t].st = "sent" /\ task[t].ok
    BY TaskIs DEF In, Openers
  <2>3. t \in Pins
          <=> /\ k = "open"
              /\ LET u == task[<<e, i, "read">>] IN
                 u.st = "running" \/ (u.st \in {"closed", "released", "sent"} /\ u.ok)
    <3>1. t \in Pins <=> k = "open" /\ <<e, i, "read">> \in Readers
      <4>1. \A u \in Readers : u \in Tasks /\ u = <<u[1], u[2], "read">>
        BY TaskIs DEF In
      <4>2. \A u \in Readers : PinOf(u) = t <=> k = "open" /\ u = <<e, i, "read">>
        BY <4>1 DEF PinOf
      <4> QED
        BY <4>2
    <3>2. <<e, i, "read">> \in Tasks
      BY TaskIs, Zenon DEF Kinds
    <3> QED
      BY <3>1, <3>2 DEF In
  <2>4. t \in Targets
          <=> \/ k = "acquire" /\ task[<<e, i, "write">>].st = "running"
              \/ k = "reacquire" /\ task[<<e, i, "rewrite">>].st = "running"
    <3> DEFINE W == In({"write", "rewrite"}, {"running"})
    <3>1. \A u \in W : u \in Tasks /\ (u = <<u[1], u[2], "write">> \/ u = <<u[1], u[2], "rewrite">>)
      BY TaskIs DEF In
    <3>2. \A u \in W : TargetOf(u) = t <=> \/ k = "acquire" /\ u = <<e, i, "write">>
                                           \/ k = "reacquire" /\ u = <<e, i, "rewrite">>
      BY <3>1 DEF TargetOf
    <3>3. <<e, i, "write">> \in Tasks /\ <<e, i, "rewrite">> \in Tasks
      BY TaskIs, Zenon DEF Kinds
    <3>4. /\ <<e, i, "write">> \in W <=> task[<<e, i, "write">>].st = "running"
          /\ <<e, i, "rewrite">> \in W <=> task[<<e, i, "rewrite">>].st = "running"
      BY <3>3 DEF In
    <3> QED
      BY <3>2, <3>4
  <2>5. t \in Received \/ t \in Pins \/ t \in Targets <=> ByTask(e, i, k)
    BY <2>2, <2>3, <2>4 DEF ByTask
  <2> HIDE DEF Commands, Received, Pins, Targets
  <2> QED
    BY <1>0, <2>1, <2>5
<1>3. ASSUME NEW t \in Tasks PROVE t \in open <=> t \in Owned
  <2>1. PICK e \in Editors, i \in 1..MaxOps, k \in Kinds : t = <<e, i, k>>
    BY TaskIs
  <2>2. OpenInv(e, i, k)
    BY DEF IInv, LocalInv
  <2> QED
    BY <1>2, <2>1, <2>2 DEF OpenInv
<1>4. open \subseteq Tasks
  BY DEF IInv, TypeOK
<1> QED
  BY <1>1, <1>3, <1>4 DEF DescriptorsOwned

\* A write that runs is one its command waits for, or one whose outcome it has
\* called unknown.
LEMMA WritesAreWatched == IInv => WritesWatched
<1> SUFFICES ASSUME IInv, NEW t \in In({"write", "rewrite"}, {"running"})
             PROVE  \/ ed[t[1]].op = t[2] /\ Write(t[1]) = t[3] /\ ed[t[1]].pc \in {"writing", "waiting"}
                    \/ ed[t[1]].pc = "end" /\ report[<<t[1], t[2]>>] = "unknown"
  BY Zenon DEF WritesWatched
<1>1. t \in Tasks /\ t[3] \in Writers /\ task[t].st = "running"
  BY DEF In, Writers
<1>2. PICK e \in Editors, i \in 1..MaxOps, l \in Kinds : t = <<e, i, l>>
  BY <1>1, TaskIs
<1>3. l \in Writers /\ task[<<e, i, l>>].st = "running"
  BY <1>1, <1>2
<1>4. /\ i <= ed[e].op
      /\ i < ed[e].op => Left(e, i, l)
      /\ i = ed[e].op => Current(e, l, <<e, i, l>>)
  BY <1>3, Busy
<1>5. ed[e].op \in Nat /\ ed[e].restoring \in BOOLEAN
  BY DEF IInv, TypeOK
<1>6. CASE i < ed[e].op
  BY <1>2, <1>3, <1>4, <1>6 DEF Left
<1>7. CASE i = ed[e].op
  <2>1. "running" \in Stage(l, ed[e].pc, ed[e].restoring)
    BY <1>3, <1>4, <1>7 DEF Current
  <2>2. Write(e) = l /\ ed[e].pc \in {"writing", "waiting"}
    BY <1>3, <1>5, <2>1 DEF Stage, Write, Writers
  <2> QED
    BY <1>2, <1>7, <2>2
<1> QED
  BY <1>4, <1>5, <1>6, <1>7

\* If nothing was abandoned, the tasks that are under way are of the operands
\* the commands are at, one of each, and of none that is between two calls.
LEMMA Underway ==
  ASSUME IInv, \A t \in Tasks : ~task[t].gone, NEW t \in Tasks, task[t].st \notin {"none", "over"}
  PROVE  /\ t[1] \in Editors /\ ed[t[1]].pc \notin {"next", "read", "commit", "write"}
         /\ \A u \in Tasks : task[u].st \notin {"none", "over"} /\ u[1] = t[1] => u = t
<1>1. PICK e \in Editors, i \in 1..MaxOps, l \in Kinds : t = <<e, i, l>>
  BY TaskIs
<1>2. task[<<e, i, l>>].st \notin {"none", "over"} /\ ~task[<<e, i, l>>].gone
  BY <1>1
<1>3. i <= ed[e].op /\ ~(i < ed[e].op) /\ (i = ed[e].op => Current(e, l, <<e, i, l>>))
  BY <1>2, Busy
<1>4. ed[e].op \in Nat /\ ed[e].restoring \in BOOLEAN
  BY DEF IInv, TypeOK
<1>5. i = ed[e].op
  BY <1>3, <1>4
<1>6. ed[e].pc \notin {"next", "read", "commit", "write"}
  <2>1. task[<<e, i, l>>].st \in Stage(l, ed[e].pc, ed[e].restoring)
    BY <1>3, <1>5 DEF Current
  <2> QED
    BY <1>2, <2>1 DEF Stage, Early, Active, Kinds, Writers
<1>7. ASSUME NEW u \in Tasks, task[u].st \notin {"none", "over"}, u[1] = t[1] PROVE u = t
  <2>1. PICK j \in 1..MaxOps, k \in Kinds : u = <<e, j, k>>
    BY <1>1, <1>7, TaskIs
  <2>2. task[<<e, j, k>>].st \notin {"none", "over"} /\ ~task[<<e, j, k>>].gone
    BY <1>7, <2>1
  <2>3. j <= ed[e].op /\ ~(j < ed[e].op)
    BY <2>2, Busy
  <2>4. j = i
    BY <1>4, <1>5, <2>3
  <2>5. \A m \in Kinds : m # l => task[<<e, i, m>>].st \in {"none", "over"}
    BY <1>2, Busy
  <2> QED
    BY <1>1, <2>1, <2>2, <2>4, <2>5
<1> QED
  BY <1>1, <1>6, <1>7

\* Then a command between two calls finds fewer tasks under way than there are
\* commands.
LEMMA Spare ==
  ASSUME IInv, \A t \in Tasks : ~task[t].gone,
         NEW e \in Editors, ed[e].pc \in {"next", "read", "commit", "write"},
         NEW P \in SUBSET Tasks, \A t \in P : task[t].st \notin {"none", "over"}
  PROVE  Cardinality(P) < Cardinality(Editors)
<1> DEFINE Others == Editors \ {e}
           f == [t \in P |-> t[1]]
<1>1. \A t \in P : t[1] \in Others /\ \A u \in P : u[1] = t[1] => u = t
  BY Underway
<1>2. f \in [P -> Others] /\ \A t, u \in P : f[t] = f[u] => t = u
  BY <1>1
<1>3. f \in Injection(P, Others)
  <2> HIDE DEF f, Others
  <2> QED
    BY <1>2 DEF Injection, IsInjective
<1>4. /\ IsFiniteSet(Editors) /\ IsFiniteSet(Others) /\ Cardinality(Others) = Cardinality(Editors) - 1
      /\ Cardinality(Editors) \in Nat
  BY EditAssumption, FS_RemoveElement, FS_CardinalityType
<1>5. IsFiniteSet(P) /\ Cardinality(P) <= Cardinality(Others)
  <2> HIDE DEF f, Others
  <2> QED
    BY <1>3, <1>4, FS_Injection
<1>6. Cardinality(P) \in Nat
  BY <1>5, FS_CardinalityType
<1> QED
  BY <1>4, <1>5, <1>6

\* A command is refused a slot only when there are more commands than slots, or
\* when an abandoned task still has one.
LEMMA NeverSpurious == IInv => NoSpuriousRefusal
<1> SUFFICES ASSUME IInv, \A t \in Tasks : ~task[t].gone,
                    Cardinality(Editors) <= PinCap, Cardinality(Editors) <= WriteCap, NEW e \in Editors
             PROVE  /\ ed[e].pc \in {"next", "read"} => pins < PinCap
                    /\ ed[e].pc \in {"commit", "write"} => writes < WriteCap
  BY Zenon DEF NoSpuriousRefusal
<1> DEFINE P == In({"open"}, {"running", "sent"}) \cup In({"read"}, {"running", "closed"})
           W == In({"acquire", "reacquire"}, {"running", "sent"}) \cup In({"write", "rewrite"}, {"running", "closed"})
<1>1. pins = Cardinality(P) /\ writes = Cardinality(W)
  BY Zenon DEF IInv, SlotsExact
<1>2. /\ P \in SUBSET Tasks /\ \A t \in P : task[t].st \notin {"none", "over"}
      /\ W \in SUBSET Tasks /\ \A t \in W : task[t].st \notin {"none", "over"}
  BY DEF In
<1>3. pins \in Nat /\ writes \in Nat /\ PinCap \in Nat /\ WriteCap \in Nat /\ Cardinality(Editors) \in Nat
  BY EditAssumption, FS_CardinalityType DEF IInv, TypeOK
<1> HIDE DEF P, W
<1>4. ed[e].pc \in {"next", "read", "commit", "write"} =>
        Cardinality(P) < Cardinality(Editors) /\ Cardinality(W) < Cardinality(Editors)
  BY <1>2, Spare
<1> QED
  BY <1>1, <1>3, <1>4

\* Every slot and every descriptor of sed -i belongs to somebody who gives it
\* back, no command is refused a free slot, and no file is written behind its
\* command's back, for any number of commands, operands and slots
\* (pinOpenSlots, writeAcquisitionSlots and the cleanup goroutines).
THEOREM AlwaysAccounted == Spec => []TasksAccounted
<1>1. IInv => TasksAccounted
  BY OpenIsOwned, WritesAreWatched, NeverSpurious DEF IInv, TasksAccounted
<1> QED
  BY EditInvariant, <1>1, PTL

-----------------------------------------------------------------------------
\* What a command says of its operand, and that it is so.
Says(e, what) ==
  /\ report' = [report EXCEPT ![<<e, ed[e].op>>] = what]
  /\ what = "ok" => file[File(e)] = ed[e].new
  /\ what \in {"untouched", "refused", "restored"} => file[File(e)] = Original(e)

\* Before it has written, a command may say that the file is as it was.
LEMMA SaysEarly ==
  ASSUME IInv, NEW e \in Editors,
         OpenPin(e) \/ Opened(e) \/ AbandonOpen(e) \/ StartRead(e) \/ ReadDone(e) \/ AbandonRead(e)
  PROVE  report' = report \/ \E what \in {"refused", "untouched"} : Says(e, what)
<1>1. ContentInv(e)
  BY DEF IInv, LocalInv
<1>2. /\ ed[e].pc \in {"next", "opening", "read", "reading"}
      /\ \/ report' = report
         \/ \E what \in {"refused", "untouched"} : report' = [report EXCEPT ![<<e, ed[e].op>>] = what]
  BY Zenon DEF OpenPin, Opened, AbandonOpen, StartRead, ReadDone, AbandonRead, Report
<1>3. file[File(e)] = Original(e)
  BY <1>1, <1>2, Zenon DEF ContentInv, Original
<1> QED
  BY <1>2, <1>3 DEF Says

\* A write that is not begun leaves the file as it was; a restore that is not
\* begun is no restore.
LEMMA SaysUntouched ==
  ASSUME IInv, NEW e \in Editors, StartWrite(e) \/ Acquired(e) \/ AbandonAcquire(e) \/ WriteOut(e)
  PROVE  report' = report \/ \E what \in {"broken", "untouched"} : Says(e, what)
<1>1. ContentInv(e)
  BY DEF IInv, LocalInv
<1>2. /\ ed[e].pc \in {"commit", "acquiring", "write"}
      /\ \/ report' = report
         \/ report' = [report EXCEPT ![<<e, ed[e].op>>] = IF ed[e].restoring THEN "broken" ELSE "untouched"]
  BY DEF StartWrite, Acquired, AbandonAcquire, WriteOut, FailUntouched, Report
<1>3. CASE ed[e].restoring
  BY <1>2, <1>3 DEF Says
<1>4. CASE ~ed[e].restoring
  <2>1. file[File(e)] = Original(e)
    BY <1>1, <1>2, <1>4, Zenon DEF ContentInv, Original
  <2> QED
    BY <1>2, <1>4, <2>1 DEF Says
<1> QED
  BY <1>3, <1>4

\* A write that returns says what it did.
LEMMA SaysWritten ==
  ASSUME IInv, NEW e \in Editors, Written(e)
  PROVE  report' = report \/ \E what \in Results : Says(e, what)
<1>1. ContentInv(e) /\ ed[e].restoring \in BOOLEAN
  BY DEF IInv, LocalInv, TypeOK
<1>2. /\ ed[e].pc \in {"writing", "waiting"} /\ Original(e) = ed[e].before /\ ed[e].orig = ed[e].before
      /\ ~ed[e].restoring /\ ~task[Id(e, "write")].mutated => file[File(e)] = ed[e].before
      /\ task[Id(e, Write(e))].ok => file[File(e)] = Data(e)
  BY <1>1 DEF Written, ContentInv, Original, Early
<1>3. CASE task[Id(e, Write(e))].ok /\ Report(e, IF ed[e].restoring THEN "restored" ELSE "ok", {Id(e, "open")})
  <2>1. report' = [report EXCEPT ![<<e, ed[e].op>>] = IF ed[e].restoring THEN "restored" ELSE "ok"]
    BY <1>3 DEF Report
  <2>2. CASE ed[e].restoring
    BY <1>2, <1>3, <2>1, <2>2 DEF Says, Data, Results
  <2>3. CASE ~ed[e].restoring
    BY <1>2, <1>3, <2>1, <2>3, Zenon DEF Says, Data, Results
  <2> QED
    BY <2>2, <2>3
<1>4. CASE ~(task[Id(e, Write(e))].mutated /\ ~ed[e].restoring) /\ FailUntouched(e)
  <2>1. report' = [report EXCEPT ![<<e, ed[e].op>>] = IF ed[e].restoring THEN "broken" ELSE "untouched"]
    BY <1>4 DEF FailUntouched, Report
  <2>2. CASE ed[e].restoring
    BY <2>1, <2>2 DEF Says, Results
  <2>3. CASE ~ed[e].restoring
    <3>1. file[File(e)] = Original(e)
      BY <1>2, <1>4, <2>3, Zenon DEF Write
    <3> QED
      BY <2>1, <2>3, <3>1, Zenon DEF Says, Results
  <2> QED
    BY <2>2, <2>3
<1>5. CASE report' = report
  BY <1>5
<1> QED
  BY <1>3, <1>4, <1>5 DEF Written

\* Every step of the system says nothing, or what is so.
LEMMA SaysTrue ==
  ASSUME IInv, Next
  PROVE  report' = report \/ \E e \in Editors, what \in Results : Says(e, what)
<1>1. ASSUME NEW e \in Editors, Cancel(e) \/ Expire(e) PROVE report' = report
  BY <1>1 DEF Cancel, Expire
<1>2. ASSUME NEW e \in Editors, EditorStep(e) PROVE report' = report \/ \E what \in Results : Says(e, what)
  <2>1. CASE OpenPin(e) \/ Opened(e) \/ AbandonOpen(e) \/ StartRead(e) \/ ReadDone(e) \/ AbandonRead(e)
    BY <2>1, SaysEarly DEF Results
  <2>2. CASE StartWrite(e) \/ Acquired(e) \/ AbandonAcquire(e) \/ WriteOut(e)
    BY <2>2, SaysUntouched DEF Results
  <2>3. CASE Written(e)
    BY <2>3, SaysWritten
  <2>4. CASE EndLoop(e) \/ AbandonWrite(e)
    BY <2>4 DEF EndLoop, AbandonWrite
  <2>5. CASE GiveUp(e)
    BY <2>5 DEF GiveUp, StopWaiting, Report, Says, Results
  <2> QED
    BY <1>2, <2>1, <2>2, <2>3, <2>4, <2>5 DEF EditorStep
<1>3. ASSUME NEW t \in Tasks, TaskStep(t) PROVE report' = report
  BY <1>3, Zenon DEF TaskStep, OpenReturns, CleanUpOpen, ReadReturns, FinishTask, Finish, CleanUpRead, ReapRead,
              CleanUpAcquire, ReapAcquire, WriteChunk, WriteOneChunk, StopWriting, Truncate
<1> QED
  BY <1>1, <1>2, <1>3 DEF Next

\* What sed -i says of a file is true when it says it, for any number of
\* commands and operands and files of any length, and however the calls of the
\* write and of its restore fail or hang (writeBack, writeWithOutcome).
THEOREM ReportsAlwaysTrue == Spec => ReportsTrue
<1>1. IInv /\ [Next]_vars =>
        [\A x \in DOMAIN report : report'[x] # report[x] =>
           CASE report'[x] = "ok" -> file[File(x[1])] = ed[x[1]].new
             [] report'[x] \in {"untouched", "refused", "restored"} -> file[File(x[1])] = Original(x[1])
             [] OTHER -> TRUE]_vars
  <2> SUFFICES ASSUME IInv, Next, NEW x \in DOMAIN report, report'[x] # report[x]
               PROVE  CASE report'[x] = "ok" -> file[File(x[1])] = ed[x[1]].new
                        [] report'[x] \in {"untouched", "refused", "restored"} -> file[File(x[1])] = Original(x[1])
                        [] OTHER -> TRUE
    BY Zenon
  <2>1. PICK e \in Editors, what \in Results : Says(e, what)
    BY SaysTrue
  <2>2. x = <<e, ed[e].op>> /\ report'[x] = what
    BY <2>1 DEF Says
  <2>3. x[1] = e
    BY <2>2
  <2> QED
    BY <2>1, <2>2, <2>3 DEF Says
<1> QED
  BY <1>1, EditInvariant, PTL DEF Spec, ReportsTrue

=============================================================================
