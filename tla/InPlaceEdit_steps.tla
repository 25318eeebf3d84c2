------------------------- MODULE InPlaceEdit_steps --------------------------
(***************************************************************************)
(* The steps of a command that commits or restores, and of the tasks that  *)
(* open files or are cleaned up, keep the invariant.                       *)
(***************************************************************************)
EXTENDS InPlaceEdit_inv

\* The tasks of a command that commits or restores: a opens the file and b
\* writes it; all others are over, or do not exist.
Committing(e, i, a, b) ==
  /\ a = Acquire(e) /\ b = Write(e) /\ a \in Kinds /\ b \in Kinds /\ a # b
  /\ \/ ~ed[e].restoring /\ a = "acquire" /\ b = "write"
     \/ ed[e].restoring /\ a = "reacquire" /\ b = "rewrite"
  /\ Id(e, a) = <<e, i, a>> /\ Id(e, b) = <<e, i, b>> /\ Id(e, "open") = <<e, i, "open">>
  /\ <<e, i, a>> \in Tasks /\ <<e, i, b>> \in Tasks /\ "open" \in Kinds
  /\ \A k \in Kinds : /\ k \notin {a, b} => task[<<e, i, k>>].st \in {"none", "over"}
                      /\ k \notin {"open", a} => <<e, i, k>> \notin open
                      /\ k = "open" => <<e, i, k>> \in open
  /\ task[<<e, i, a>>].st = "none" <=> ed[e].pc = "commit"
  /\ task[<<e, i, a>>].st \in {"running", "sent"} <=> ed[e].pc = "acquiring"
  /\ task[<<e, i, a>>].st = "over" <=> ed[e].pc \in {"write", "writing", "waiting"}
  /\ task[<<e, i, b>>].st \in Active <=> ed[e].pc \in {"writing", "waiting"}
  /\ task[<<e, i, b>>].st = "none" <=> ed[e].pc \in {"commit", "acquiring", "write"}
  /\ <<e, i, a>> \in open <=> \/ ed[e].pc = "write"
                              \/ task[<<e, i, a>>].st = "sent" /\ task[<<e, i, a>>].ok
                              \/ task[<<e, i, b>>].st = "running"

\* A command that commits has its two calls where its label says.
LEMMA CommittingAt ==
  ASSUME NEW e \in Editors, NEW i, At(e, i), ed[e].pc \notin Early
  PROVE  \E a, b : Committing(e, i, a, b)
<1>1. ed[e].pc \in {"commit", "acquiring", "write", "writing", "waiting"} /\ ed[e].restoring \in BOOLEAN
  BY DEF At, EdType, Early
<1>2. PICK a, b : /\ a = Acquire(e) /\ b = Write(e)
                  /\ \/ ~ed[e].restoring /\ a = "acquire" /\ b = "write"
                     \/ ed[e].restoring /\ a = "reacquire" /\ b = "rewrite"
  BY <1>1 DEF Acquire, Write
<1>3. a \in Kinds /\ b \in Kinds /\ a # b /\ "open" \in Kinds
  BY <1>2 DEF Kinds
<1>4. /\ Id(e, a) = <<e, i, a>> /\ Id(e, b) = <<e, i, b>> /\ Id(e, "open") = <<e, i, "open">>
      /\ <<e, i, a>> \in Tasks /\ <<e, i, b>> \in Tasks
  BY <1>3, Zenon DEF At
<1>5. \A k \in Kinds : Current(e, k, <<e, i, k>>) /\ OpenInv(e, i, k) /\ i = ed[e].op
  BY DEF At
<1>6. \A k \in Kinds : k \notin {a, b} => task[<<e, i, k>>].st \in {"none", "over"}
  BY <1>1, <1>2, <1>5 DEF Current, Stage, Early, Kinds, Writers
<1>7. /\ task[<<e, i, a>>].st = "none" <=> ed[e].pc = "commit"
      /\ task[<<e, i, a>>].st \in {"running", "sent"} <=> ed[e].pc = "acquiring"
      /\ task[<<e, i, a>>].st = "over" <=> ed[e].pc \in {"write", "writing", "waiting"}
  BY <1>1, <1>2, <1>3, <1>5 DEF Current, Stage, Early, Writers
<1>8. /\ task[<<e, i, b>>].st \in Active <=> ed[e].pc \in {"writing", "waiting"}
      /\ task[<<e, i, b>>].st = "none" <=> ed[e].pc \in {"commit", "acquiring", "write"}
  BY <1>1, <1>2, <1>3, <1>5 DEF Current, Stage, Early, Writers, Active
<1>9. /\ \A k \in Kinds : /\ k \notin {"open", a} => <<e, i, k>> \notin open
                          /\ k = "open" => <<e, i, k>> \in open
  BY <1>1, <1>2, <1>5, <1>6 DEF OpenInv, ByTask, ByCommand, Kinds, Openers
<1>10. <<e, i, a>> \in open <=> \/ ed[e].pc = "write"
                                \/ task[<<e, i, a>>].st = "sent" /\ task[<<e, i, a>>].ok
                                \/ task[<<e, i, b>>].st = "running"
  BY <1>1, <1>2, <1>3, <1>5 DEF OpenInv, ByTask, ByCommand, Openers
<1> WITNESS a, b
<1> QED
  BY <1>2, <1>3, <1>4, <1>6, <1>7, <1>8, <1>9, <1>10 DEF Committing

\* WriteRegularFile takes a slot and starts to acquire the target, or fails.
LEMMA StartWriteKeeps ==
  ASSUME IInv, NEW e \in Editors, StartWrite(e)
  PROVE  IInv'
<1>1. PICK i \in 1..Len(Files[e]) : At(e, i)
  BY AtOperand DEF StartWrite
<1>2. ed[e].pc = "commit" /\ file' = file /\ pins' = pins /\ ed[e].pc # "end"
  BY DEF StartWrite
<1>3. PICK a, b : Committing(e, i, a, b)
  BY <1>1, <1>2, CommittingAt DEF Early
<1> DEFINE u == <<e, i, a>>
<1>4. ed[e].op = i /\ i \in 1..MaxOps /\ u \in Tasks /\ a \in Kinds
  BY <1>1, <1>3 DEF At, Committing
<1>5. CASE ~WriteCtxDone(e) /\ writes < WriteCap
  <2>1. /\ writes' = writes + 1 /\ Spawn(u) /\ open' = open /\ report' = report
        /\ ed' = [ed EXCEPT ![e] = [ed[e] EXCEPT !.pc = "acquiring"]]
    BY <1>1, <1>3, <1>5, Zenon DEF StartWrite, At, Committing
  <2>2. /\ task' \in [Tasks -> TaskType] /\ \A t \in Tasks : t # u => task'[t] = task[t]
        /\ task'[u].st = "running" /\ ~task'[u].ok /\ ~task'[u].gone /\ task'[u].n = 0
    BY <1>1, <1>4, <2>1, TaskSteps DEF At
  <2>3. LET q == [ed[e] EXCEPT !.pc = "acquiring"] IN
        /\ q \in EdType /\ q.pc = "acquiring" /\ q.op = ed[e].op /\ q.restoring = ed[e].restoring
        /\ q.before = ed[e].before /\ q.orig = ed[e].orig
    BY <1>1, Zenon DEF EdType, At
  <2>4. /\ ed' \in [Editors -> EdType] /\ \A d \in Editors : d # e => ed'[d] = ed[d]
        /\ ed'[e].pc = "acquiring" /\ ed'[e].op = i /\ ed'[e].restoring = ed[e].restoring
        /\ ed'[e].before = ed[e].before /\ ed'[e].orig = ed[e].orig
    BY <1>1, <2>1, <2>3 DEF At
  <2>5. \A k \in Kinds : k # a => task'[<<e, i, k>>] = task[<<e, i, k>>]
    BY <1>4, <2>2, TaskIs
  <2>6. Balanced(u)
    BY Counted, <1>2, <1>3, <1>5, <2>1, <2>2 DEF Balanced, HoldsPin, HoldsWrite, Writers, Committing
  <2>7. ASSUME NEW k \in Kinds PROVE Sound(e, i, k)' /\ Current(e, k, <<e, i, k>>)' /\ OpenInv(e, i, k)'
    <3>1. Sound(e, i, k)'
      BY <1>1, <1>2, <2>2, <2>5, SoundKept, Zenon DEF At
    <3>2. Current(e, k, <<e, i, k>>)'
      <4>1. Current(e, k, <<e, i, k>>)
        BY <1>1 DEF At
      <4>2. CASE k = a
        BY <1>3, <2>2, <2>4, <4>2 DEF Current, Stage, Early, Writers, Committing
      <4>3. CASE k # a
        BY <1>2, <1>3, <2>4, <2>5, <4>1, <4>3 DEF Current, Stage, Early, Kinds, Writers, Committing
      <4> QED
        BY <4>2, <4>3
    <3>3. OpenInv(e, i, k)'
      BY <1>2, <1>3, <2>1, <2>2, <2>4, <2>5, SMTT(30) DEF OpenInv, ByTask, ByCommand, Kinds, Openers, Committing, Active
    <3> QED
      BY <3>1, <3>2, <3>3
  <2>8. ContentInv(e)'
    <3>1. ContentInv(e) /\ File(e) = Files[e][i]
      BY <1>1 DEF At
    <3> QED
      BY <1>2, <1>4, <2>4, <3>1 DEF ContentInv, Early, File
  <2> QED
    BY <1>2, <1>4, <2>1, <2>2, <2>4, <2>6, <2>7, <2>8, Went
<1>6. CASE ~(~WriteCtxDone(e) /\ writes < WriteCap)
  <2>1. PICK h, what : /\ h = {<<e, i, "open">>} /\ what \in Results /\ Report(e, what, h)
                       /\ task' = task /\ writes' = writes
    BY <1>3, <1>6 DEF StartWrite, FailUntouched, Results, Committing
  <2>2. Balanced(u)
    BY Counted, <1>2, <2>1 DEF Balanced, HoldsPin, HoldsWrite
  <2>3. ASSUME NEW k \in Kinds
        PROVE  /\ Sound(e, i, k)'
               /\ Remains(e, i, k, what, h)
    <3>1. Sound(e, i, k)'
      BY <1>1, <1>2, <2>1, SoundKept, Zenon DEF At
    <3>2. \A l \in Kinds : task'[<<e, i, l>>].st \in {"none", "over"}
      BY <1>2, <1>3, <2>1 DEF Committing
    <3>3. ~ByTask(e, i, k)'
      BY <3>2 DEF ByTask, Kinds
    <3>4. <<e, i, k>> \notin open \ h
      BY <1>2, <1>3, <2>1 DEF Committing, Active
    <3> QED
      BY <3>1, <3>2, <3>3, <3>4 DEF Remains
  <2>4. h \subseteq {<<e, i, k>> : k \in Kinds} /\ what \in Results /\ Report(e, what, h)
    BY <2>1 DEF Kinds
  <2>5. task' \in [Tasks -> TaskType] /\ \A t \in Tasks : t # u => task'[t] = task[t]
    BY <1>1, <2>1 DEF At
  <2> QED
    BY <1>2, <1>4, <2>2, <2>3, <2>4, <2>5, Reported
<1> QED
  BY <1>5, <1>6

\* The target arrives, and its slot is free.
LEMMA AcquiredKeeps ==
  ASSUME IInv, NEW e \in Editors, Acquired(e)
  PROVE  IInv'
<1>1. PICK i \in 1..Len(Files[e]) : At(e, i)
  BY AtOperand DEF Acquired
<1>2. ed[e].pc = "acquiring" /\ file' = file /\ pins' = pins /\ writes' = writes - 1 /\ ed[e].pc # "end"
  BY DEF Acquired
<1>3. PICK a, b : Committing(e, i, a, b)
  BY <1>1, <1>2, CommittingAt DEF Early
<1> DEFINE u == <<e, i, a>>
<1>4. ed[e].op = i /\ i \in 1..MaxOps /\ u \in Tasks /\ a \in Kinds
  BY <1>1, <1>3 DEF At, Committing
<1>5. task' = [task EXCEPT ![u].st = "over"] /\ task[u].st = "sent"
  BY <1>3 DEF Acquired, Committing
<1>6. /\ task' \in [Tasks -> TaskType] /\ \A t \in Tasks : t # u => task'[t] = task[t]
      /\ task'[u].st = "over"
  BY <1>1, <1>4, <1>5, Zenon DEF TaskType, TaskStates, At
<1>7. \A k \in Kinds : k # a => task'[<<e, i, k>>] = task[<<e, i, k>>]
  BY <1>4, <1>6, TaskIs
<1>8. Balanced(u)
  BY Counted, <1>2, <1>3, <1>5, <1>6 DEF Balanced, HoldsPin, HoldsWrite, Writers, Committing
<1>9. \A k \in Kinds : Sound(e, i, k)'
  BY <1>1, <1>2, <1>6, <1>7, SoundKept, Zenon DEF At
<1>10. CASE task[u].ok
  <2>1. /\ open' = open /\ report' = report
        /\ ed' = [ed EXCEPT ![e] = [ed[e] EXCEPT !.pc = "write"]]
    BY <1>1, <1>3, <1>10, Zenon DEF Acquired, At, Committing
  <2>2. LET q == [ed[e] EXCEPT !.pc = "write"] IN
        /\ q \in EdType /\ q.pc = "write" /\ q.op = ed[e].op /\ q.restoring = ed[e].restoring
        /\ q.before = ed[e].before /\ q.orig = ed[e].orig
    BY <1>1, Zenon DEF EdType, At
  <2>3. /\ ed' \in [Editors -> EdType] /\ \A d \in Editors : d # e => ed'[d] = ed[d]
        /\ ed'[e].pc = "write" /\ ed'[e].op = i /\ ed'[e].restoring = ed[e].restoring
        /\ ed'[e].before = ed[e].before /\ ed'[e].orig = ed[e].orig
    BY <1>1, <2>1, <2>2 DEF At
  <2>4. ASSUME NEW k \in Kinds PROVE Current(e, k, <<e, i, k>>)' /\ OpenInv(e, i, k)'
    <3>1. Current(e, k, <<e, i, k>>)
      BY <1>1 DEF At
    <3>2. Current(e, k, <<e, i, k>>)'
      BY <1>2, <1>3, <1>6, <1>7, <2>3, <3>1 DEF Current, Stage, Early, Kinds, Writers, Committing
    <3>3. Acquire(e)' = a
      BY <1>3, <2>3 DEF Acquire, Committing
    <3>4. OpenInv(e, i, k)'
      BY <1>2, <1>3, <1>5, <1>6, <1>7, <1>10, <2>1, <2>3, <3>3
      DEF OpenInv, ByTask, ByCommand, Kinds, Openers, Committing, Active
    <3> QED
      BY <3>2, <3>4
  <2>5. ContentInv(e)'
    <3>1. ContentInv(e) /\ File(e) = Files[e][i]
      BY <1>1 DEF At
    <3> QED
      BY <1>2, <1>4, <2>3, <3>1, Zenon DEF ContentInv, Early, File
  <2> QED
    BY <1>2, <1>4, <1>6, <1>8, <1>9, <2>1, <2>3, <2>4, <2>5, Went
<1>11. CASE ~task[u].ok
  <2>1. PICK h, what : h = {<<e, i, "open">>} /\ what \in Results /\ Report(e, what, h)
    BY <1>3, <1>11 DEF Acquired, FailUntouched, Results, Committing
  <2>2. ASSUME NEW k \in Kinds
        PROVE  Remains(e, i, k, what, h)
    <3>1. \A l \in Kinds : task'[<<e, i, l>>].st \in {"none", "over"}
      BY <1>2, <1>3, <1>6, <1>7 DEF Committing
    <3>2. ~ByTask(e, i, k)'
      BY <3>1 DEF ByTask, Kinds
    <3>3. <<e, i, k>> \notin open \ h
      BY <1>2, <1>3, <1>11, <2>1 DEF Committing, Active
    <3> QED
      BY <3>1, <3>2, <3>3 DEF Remains
  <2>3. h \subseteq {<<e, i, k>> : k \in Kinds} /\ what \in Results /\ Report(e, what, h)
    BY <2>1 DEF Kinds
  <2> QED
    BY <1>2, <1>4, <1>6, <1>8, <1>9, <2>2, <2>3, Reported
<1> QED
  BY <1>10, <1>11

\* The wait for the target ends first: it is left to its cleanup.
LEMMA AbandonAcquireKeeps ==
  ASSUME IInv, NEW e \in Editors, AbandonAcquire(e)
  PROVE  IInv'
<1>1. PICK i \in 1..Len(Files[e]) : At(e, i)
  BY AtOperand DEF AbandonAcquire
<1>2. ed[e].pc = "acquiring" /\ file' = file /\ pins' = pins /\ writes' = writes /\ ed[e].pc # "end"
  BY DEF AbandonAcquire
<1>3. PICK a, b : Committing(e, i, a, b)
  BY <1>1, <1>2, CommittingAt DEF Early
<1> DEFINE u == <<e, i, a>>
<1>4. ed[e].op = i /\ i \in 1..MaxOps /\ u \in Tasks /\ a \in Kinds /\ a \notin Writers
  BY <1>1, <1>3 DEF At, Committing, Writers
<1>5. task' = [task EXCEPT ![u].gone = TRUE] /\ task[u].st = "running"
  BY <1>2, <1>3 DEF AbandonAcquire, Committing
<1>6. /\ task' \in [Tasks -> TaskType] /\ \A t \in Tasks : t # u => task'[t] = task[t]
      /\ task'[u].gone /\ task'[u].st = task[u].st /\ task'[u].ok = task[u].ok /\ task'[u].n = task[u].n
  BY <1>1, <1>4, <1>5, Zenon DEF TaskType, TaskStates, At
<1>7. \A k \in Kinds : k # a => task'[<<e, i, k>>] = task[<<e, i, k>>]
  BY <1>4, <1>6, TaskIs
<1>8. Balanced(u)
  BY Counted, <1>2, <1>3, <1>5, <1>6 DEF Balanced, HoldsPin, HoldsWrite, Writers, Committing
<1>9. \A k \in Kinds : Sound(e, i, k)'
  BY <1>1, <1>2, <1>5, <1>6, <1>7, SoundKept, ZenonT(40) DEF At
<1>10. PICK h, what : h = {<<e, i, "open">>} /\ what \in Results /\ Report(e, what, h)
  BY <1>3 DEF AbandonAcquire, FailUntouched, Results, Committing
<1>11. ASSUME NEW k \in Kinds
       PROVE  Remains(e, i, k, what, h)
  <2>1. \A l \in Kinds : l # a => task'[<<e, i, l>>].st \in {"none", "over"}
    BY <1>2, <1>3, <1>7 DEF Committing
  <2>2. ~ByTask(e, i, k)'
    <3>1. a \in {"acquire", "reacquire"}
      BY <1>3 DEF Committing
    <3>2. task'[<<e, i, a>>].st = "running"
      BY <1>5, <1>6
    <3>3. \A l \in {"open", "read", "write", "rewrite"} : task'[<<e, i, l>>].st \in {"none", "over"}
      BY <2>1, <3>1 DEF Kinds
    <3>4. k = a \/ task'[<<e, i, k>>].st \in {"none", "over"}
      BY <2>1
    <3> QED
      BY <3>1, <3>2, <3>3, <3>4 DEF ByTask
  <2>3. <<e, i, k>> \notin open \ h
    BY <1>2, <1>3, <1>5, <1>10 DEF Committing, Active
  <2> QED
    BY <1>4, <1>6, <2>1, <2>2, <2>3 DEF Remains
<1>12. h \subseteq {<<e, i, k>> : k \in Kinds} /\ what \in Results /\ Report(e, what, h)
  BY <1>10 DEF Kinds
<1> QED
  BY <1>2, <1>4, <1>6, <1>8, <1>9, <1>11, <1>12, Reported

\* writeAndTruncateBounded takes a slot and starts the write, or is refused one.
LEMMA WriteOutKeeps ==
  ASSUME IInv, NEW e \in Editors, WriteOut(e)
  PROVE  IInv'
<1>1. PICK i \in 1..Len(Files[e]) : At(e, i)
  BY AtOperand DEF WriteOut
<1>2. ed[e].pc = "write" /\ file' = file /\ pins' = pins /\ ed[e].pc # "end"
  BY DEF WriteOut
<1>3. PICK a, b : Committing(e, i, a, b)
  BY <1>1, <1>2, CommittingAt DEF Early
<1> DEFINE u == <<e, i, b>>
<1>4. ed[e].op = i /\ i \in 1..MaxOps /\ u \in Tasks /\ b \in Kinds
  BY <1>1, <1>3 DEF At, Committing
<1>5. CASE writes < WriteCap
  <2>1. /\ writes' = writes + 1 /\ Spawn(u) /\ open' = open /\ report' = report
        /\ ed' = [ed EXCEPT ![e] = [ed[e] EXCEPT !.pc = "writing"]]
    BY <1>1, <1>3, <1>5, Zenon DEF WriteOut, At, Committing
  <2>2. /\ task' \in [Tasks -> TaskType] /\ \A t \in Tasks : t # u => task'[t] = task[t]
        /\ task'[u].st = "running" /\ ~task'[u].ok /\ ~task'[u].gone /\ task'[u].n = 0
    BY <1>1, <1>4, <2>1, TaskSteps DEF At
  <2>3. LET q == [ed[e] EXCEPT !.pc = "writing"] IN
        /\ q \in EdType /\ q.pc = "writing" /\ q.op = ed[e].op /\ q.restoring = ed[e].restoring
        /\ q.before = ed[e].before /\ q.orig = ed[e].orig
    BY <1>1, Zenon DEF EdType, At
  <2>4. /\ ed' \in [Editors -> EdType] /\ \A d \in Editors : d # e => ed'[d] = ed[d]
        /\ ed'[e].pc = "writing" /\ ed'[e].op = i /\ ed'[e].restoring = ed[e].restoring
        /\ ed'[e].before = ed[e].before /\ ed'[e].orig = ed[e].orig
    BY <1>1, <2>1, <2>3 DEF At
  <2>5. \A k \in Kinds : k # b => task'[<<e, i, k>>] = task[<<e, i, k>>]
    BY <1>4, <2>2, TaskIs
  <2>6. Balanced(u)
    BY Counted, <1>2, <1>3, <1>5, <2>1, <2>2 DEF Balanced, HoldsPin, HoldsWrite, Writers, Committing
  <2>7. ASSUME NEW k \in Kinds PROVE Sound(e, i, k)' /\ Current(e, k, <<e, i, k>>)' /\ OpenInv(e, i, k)'
    <3>1. Sound(e, i, k)'
      BY <1>1, <1>2, <2>2, <2>5, SoundKept, Zenon DEF At
    <3>2. Current(e, k, <<e, i, k>>)'
      <4>1. Current(e, k, <<e, i, k>>)
        BY <1>1 DEF At
      <4>2. CASE k = b
        BY <1>2, <1>3, <2>2, <2>4, <4>1, <4>2 DEF Current, Stage, Early, Kinds, Writers, Committing, Active
      <4>3. CASE k # b
        BY <1>2, <1>3, <2>4, <2>5, <4>1, <4>3, SMTT(30) DEF Current, Stage, Early, Kinds, Writers, Committing, Active
      <4> QED
        BY <4>2, <4>3, Zenon
    <3>3. OpenInv(e, i, k)'
      BY <1>2, <1>3, <2>1, <2>2, <2>4, <2>5, SMTT(30) DEF OpenInv, ByTask, ByCommand, Kinds, Openers, Committing, Active
    <3> QED
      BY <3>1, <3>2, <3>3
  <2>8. ContentInv(e)'
    <3>1. ContentInv(e) /\ File(e) = Files[e][i]
      BY <1>1 DEF At
    <3>2. Write(e)' = b
      BY <1>3, <2>4 DEF Write, Committing
    <3>3. Id(e, Write(e))' = u
      BY <2>4, <3>2 DEF Id
    <3> QED
      BY <1>2, <1>4, <2>2, <2>4, <3>1, <3>3, Zenon DEF ContentInv, Early, File
  <2> QED
    BY <1>2, <1>4, <2>1, <2>2, <2>4, <2>6, <2>7, <2>8, Went
<1>6. CASE ~(writes < WriteCap)
  <2>1. PICK h, what : /\ h = {<<e, i, "open">>, <<e, i, a>>} /\ what \in Results /\ Report(e, what, h)
                       /\ task' = task /\ writes' = writes
    BY <1>3, <1>6 DEF WriteOut, Results, Committing
  <2>2. Balanced(u)
    BY Counted, <1>2, <2>1 DEF Balanced, HoldsPin, HoldsWrite
  <2>3. ASSUME NEW k \in Kinds
        PROVE  /\ Sound(e, i, k)'
               /\ Remains(e, i, k, what, h)
    <3>1. Sound(e, i, k)'
      BY <1>1, <1>2, <2>1, SoundKept, Zenon DEF At
    <3>2. \A l \in Kinds : task'[<<e, i, l>>].st \in {"none", "over"}
      BY <1>2, <1>3, <2>1 DEF Committing
    <3>3. ~ByTask(e, i, k)'
      BY <3>2 DEF ByTask, Kinds
    <3>4. <<e, i, k>> \notin open \ h
      BY <1>2, <1>3, <2>1 DEF Committing, Active
    <3> QED
      BY <3>1, <3>2, <3>3, <3>4 DEF Remains
  <2>4. h \subseteq {<<e, i, k>> : k \in Kinds} /\ what \in Results /\ Report(e, what, h)
    <3>1. "open" \in Kinds /\ a \in Kinds
      BY <1>3 DEF Committing
    <3> QED
      BY <2>1, <3>1
  <2>5. task' \in [Tasks -> TaskType] /\ \A t \in Tasks : t # u => task'[t] = task[t]
    BY <1>1, <2>1 DEF At
  <2> QED
    BY <1>2, <1>4, <2>2, <2>3, <2>4, <2>5, Reported
<1> QED
  BY <1>5, <1>6

\* The context of the write ends: the command waits for its outcome.
LEMMA AbandonWriteKeeps ==
  ASSUME IInv, NEW e \in Editors, AbandonWrite(e)
  PROVE  IInv'
<1>1. PICK i \in 1..Len(Files[e]) : At(e, i)
  BY AtOperand DEF AbandonWrite
<1>2. /\ ed[e].pc = "writing" /\ file' = file /\ pins' = pins /\ writes' = writes /\ ed[e].pc # "end"
      /\ open' = open /\ report' = report
  BY DEF AbandonWrite
<1>3. PICK a, b : Committing(e, i, a, b)
  BY <1>1, <1>2, CommittingAt DEF Early
<1> DEFINE u == <<e, i, b>>
<1>4. ed[e].op = i /\ i \in 1..MaxOps /\ u \in Tasks /\ b \in Kinds
  BY <1>1, <1>3 DEF At, Committing
<1>5. task' = [task EXCEPT ![u].gone = TRUE] /\ task[u].st \in Active
  BY <1>2, <1>3 DEF AbandonWrite, Committing
<1>6. /\ task' \in [Tasks -> TaskType] /\ \A t \in Tasks : t # u => task'[t] = task[t]
      /\ task'[u].gone /\ task'[u].st = task[u].st /\ task'[u].ok = task[u].ok /\ task'[u].n = task[u].n
      /\ task'[u].mutated = task[u].mutated
  BY <1>1, <1>4, <1>5, Zenon DEF TaskType, TaskStates, At
<1>7. \A k \in Kinds : k # b => task'[<<e, i, k>>] = task[<<e, i, k>>]
  BY <1>4, <1>6, TaskIs
<1>8. Balanced(u)
  BY Counted, <1>2, <1>3, <1>5, <1>6 DEF Balanced, HoldsPin, HoldsWrite, Writers, Committing
<1>9. ed' = [ed EXCEPT ![e] = [ed[e] EXCEPT !.pc = "waiting"]]
  BY <1>1 DEF AbandonWrite, At
<1>10. LET q == [ed[e] EXCEPT !.pc = "waiting"] IN
       /\ q \in EdType /\ q.pc = "waiting" /\ q.op = ed[e].op /\ q.restoring = ed[e].restoring
       /\ q.before = ed[e].before /\ q.orig = ed[e].orig /\ q.new = ed[e].new
  BY <1>1, Zenon DEF EdType, At
<1>11. /\ ed' \in [Editors -> EdType] /\ \A d \in Editors : d # e => ed'[d] = ed[d]
       /\ ed'[e].pc = "waiting" /\ ed'[e].op = i /\ ed'[e].restoring = ed[e].restoring
       /\ ed'[e].before = ed[e].before /\ ed'[e].orig = ed[e].orig /\ ed'[e].new = ed[e].new
  BY <1>1, <1>9, <1>10 DEF At
<1>12. Write(e)' = b /\ Write(e) = b
  BY <1>3, <1>11 DEF Write, Committing
<1>13. ASSUME NEW k \in Kinds PROVE Sound(e, i, k)' /\ Current(e, k, <<e, i, k>>)' /\ OpenInv(e, i, k)'
  <2>1. Sound(e, i, k)'
    BY <1>1, <1>2, <1>5, <1>6, <1>7, SoundKept, ZenonT(40) DEF At, Active
  <2>2. Current(e, k, <<e, i, k>>)'
    <3>1. Current(e, k, <<e, i, k>>)
      BY <1>1 DEF At
    <3>2. CASE k = b
      BY <1>2, <1>3, <1>6, <1>11, <1>12, <3>1, <3>2, SMTT(30) DEF Current, Stage, Early, Kinds, Writers, Committing, Active
    <3>3. CASE k # b
      BY <1>2, <1>3, <1>7, <1>11, <1>12, <3>1, <3>3, SMTT(30) DEF Current, Stage, Early, Kinds, Writers, Committing, Active
    <3> QED
      BY <3>2, <3>3, Zenon
  <2>3. OpenInv(e, i, k)'
    BY <1>2, <1>3, <1>6, <1>7, <1>11, SMTT(30) DEF OpenInv, ByTask, ByCommand, Kinds, Openers, Committing, Active
  <2> QED
    BY <2>1, <2>2, <2>3
<1>14. ContentInv(e)'
  <2>1. ContentInv(e) /\ File(e) = Files[e][i] /\ Id(e, b) = u
    BY <1>1, <1>4, Zenon DEF At
  <2>2. Id(e, b)' = u /\ File(e)' = Files[e][i] /\ Data(e)' = Data(e)
    BY <1>11 DEF Id, File, Data
  <2>3. ~ed[e].restoring => b = "write"
    BY <1>3, Zenon DEF Committing
  <2> QED
    BY <1>2, <1>4, <1>6, <1>11, <1>12, <2>1, <2>2, <2>3, SMTT(30) DEF ContentInv, Early
<1> QED
  BY <1>2, <1>4, <1>6, <1>8, <1>11, <1>13, <1>14, Went

\* The outcome does not come: the command says so and ends.
LEMMA GiveUpKeeps ==
  ASSUME IInv, NEW e \in Editors, GiveUp(e)
  PROVE  IInv'
<1>1. PICK i \in 1..Len(Files[e]) : At(e, i)
  BY AtOperand, SMTT(30) DEF GiveUp, StopWaiting
<1>2. /\ ed[e].pc = "waiting" /\ file' = file /\ pins' = pins /\ writes' = writes /\ ed[e].pc # "end"
      /\ task' = task
  BY DEF GiveUp, StopWaiting
<1>3. PICK a, b : Committing(e, i, a, b)
  BY <1>1, <1>2, CommittingAt DEF Early
<1> DEFINE u == <<e, i, b>>
<1>4. ed[e].op = i /\ i \in 1..MaxOps /\ u \in Tasks /\ b \in Kinds /\ Write(e) = b
  BY <1>1, <1>3, Zenon DEF At, Committing
<1>5. Balanced(u)
  BY Counted, <1>2 DEF Balanced, HoldsPin, HoldsWrite
<1>6. PICK h, what : h = {<<e, i, "open">>} /\ what \in Results /\ what = "unknown" /\ Report(e, what, h)
  BY <1>3 DEF GiveUp, StopWaiting, Results, Committing
<1>7. ASSUME NEW k \in Kinds
      PROVE  /\ Sound(e, i, k)'
             /\ Remains(e, i, k, what, h)
  <2>1. Sound(e, i, k)'
    BY <1>1, <1>2, SoundKept, Zenon DEF At
  <2>2. task[u].gone
    BY <1>1, <1>2, <1>4, Zenon DEF At, Current
  <2>3. k = b \/ k = a \/ task'[<<e, i, k>>].st \in {"none", "over"}
    BY <1>2, <1>3 DEF Committing
  <2>4. task'[<<e, i, a>>].st = "over"
    BY <1>2, <1>3 DEF Committing
  <2>5. <<e, i, k>> \in open \ h <=> ByTask(e, i, k)'
    BY <1>2, <1>3, <1>6 DEF ByTask, Kinds, Openers, Committing, Active
  <2> QED
    BY <1>2, <1>4, <1>6, <2>1, <2>2, <2>3, <2>4, <2>5 DEF Remains
<1>8. h \subseteq {<<e, i, k>> : k \in Kinds} /\ what \in Results /\ Report(e, what, h)
  BY <1>6 DEF Kinds
<1>9. task' \in [Tasks -> TaskType] /\ \A t \in Tasks : t # u => task'[t] = task[t]
  BY <1>1, <1>2 DEF At
<1> QED
  BY <1>2, <1>4, <1>5, <1>7, <1>8, <1>9, Reported, SMTT(30)

\* The outcome is known: the operand is done, or a write that failed on the way
\* is undone.
LEMMA WrittenKeeps ==
  ASSUME IInv, NEW e \in Editors, Written(e)
  PROVE  IInv'
<1>1. PICK i \in 1..Len(Files[e]) : At(e, i)
  BY AtOperand DEF Written
<1>2. /\ ed[e].pc \in {"writing", "waiting"} /\ file' = file /\ pins' = pins /\ writes' = writes
      /\ ed[e].pc # "end"
  BY DEF Written
<1>3. PICK a, b : Committing(e, i, a, b)
  BY <1>1, <1>2, CommittingAt DEF Early
<1> DEFINE u == <<e, i, b>>
<1>4. ed[e].op = i /\ i \in 1..MaxOps /\ u \in Tasks /\ b \in Kinds
  BY <1>1, <1>3 DEF At, Committing
<1>5. task' = [task EXCEPT ![u].st = "over"] /\ task[u].st = "sent"
  BY <1>3 DEF Written, Committing
<1>6. /\ task' \in [Tasks -> TaskType] /\ \A t \in Tasks : t # u => task'[t] = task[t]
      /\ task'[u].st = "over"
  BY <1>1, <1>4, <1>5, Zenon DEF TaskType, TaskStates, At
<1>7. \A k \in Kinds : k # b => task'[<<e, i, k>>] = task[<<e, i, k>>]
  BY <1>4, <1>6, TaskIs
<1>8. Balanced(u)
  BY Counted, <1>2, <1>3, <1>5, <1>6 DEF Balanced, HoldsPin, HoldsWrite, Writers, Committing
<1>9. \A k \in Kinds : Sound(e, i, k)'
  BY <1>1, <1>2, <1>6, <1>7, SoundKept, Zenon DEF At
<1>10. ASSUME NEW what \in Results, Report(e, what, {Id(e, "open")}) PROVE IInv'
  <2>1. PICK h : h = {<<e, i, "open">>} /\ Report(e, what, h)
    BY <1>3, <1>10, Zenon DEF Committing
  <2>2. ASSUME NEW k \in Kinds
        PROVE  Remains(e, i, k, what, h)
    <3>1. \A l \in Kinds : task'[<<e, i, l>>].st \in {"none", "over"}
      BY <1>2, <1>3, <1>6, <1>7 DEF Committing
    <3>2. ~ByTask(e, i, k)'
      BY <3>1 DEF ByTask, Kinds
    <3>3. <<e, i, k>> \notin open \ h
      BY <1>2, <1>3, <1>5, <2>1 DEF Committing, Active
    <3> QED
      BY <3>1, <3>2, <3>3 DEF Remains
  <2>3. h \subseteq {<<e, i, k>> : k \in Kinds} /\ Report(e, what, h)
    BY <2>1 DEF Kinds
  <2> QED
    BY <1>2, <1>4, <1>6, <1>8, <1>9, <2>2, <2>3, Reported, Zenon
<1>11. ASSUME ~ed[e].restoring, open' = open, report' = report,
              ed' = [ed EXCEPT ![e].pc = "commit", ![e].restoring = TRUE,
                               ![e].writeTimer = FALSE, ![e].outcomeTimer = FALSE]
       PROVE  IInv'
  <2>1. ed' = [ed EXCEPT ![e] = [ed[e] EXCEPT !.pc = "commit", !.restoring = TRUE,
                                              !.writeTimer = FALSE, !.outcomeTimer = FALSE]]
    BY <1>1, <1>11, Zenon DEF At
  <2>2. LET q == [ed[e] EXCEPT !.pc = "commit", !.restoring = TRUE,
                               !.writeTimer = FALSE, !.outcomeTimer = FALSE] IN
        /\ q \in EdType /\ q.pc = "commit" /\ q.op = ed[e].op /\ q.restoring
        /\ q.before = ed[e].before /\ q.orig = ed[e].orig
    BY <1>1, Zenon DEF EdType, At
  <2>3. /\ ed' \in [Editors -> EdType] /\ \A d \in Editors : d # e => ed'[d] = ed[d]
        /\ ed'[e].pc = "commit" /\ ed'[e].op = i /\ ed'[e].restoring
        /\ ed'[e].before = ed[e].before /\ ed'[e].orig = ed[e].orig
    BY <1>1, <2>1, <2>2 DEF At
  <2>4. /\ a = "acquire" /\ b = "write"
        /\ \A k \in Kinds : k \in {"reacquire", "rewrite"} => task[<<e, i, k>>].st = "none" /\ ~task[<<e, i, k>>].gone
    BY <1>1, <1>2, <1>3, <1>11, Zenon DEF At, Current, Stage, Early, Committing, Sound
  <2>5. ASSUME NEW k \in Kinds PROVE Current(e, k, <<e, i, k>>)' /\ OpenInv(e, i, k)'
    <3>1. Current(e, k, <<e, i, k>>)
      BY <1>1 DEF At
    <3>2. Current(e, k, <<e, i, k>>)'
      BY <1>2, <1>6, <1>7, <1>11, <2>3, <2>4, <3>1 DEF Current, Stage, Early, Kinds, Writers
    <3>3. \A l \in Kinds : task'[<<e, i, l>>].st \in {"none", "over"}
      BY <1>2, <1>3, <1>6, <1>7, Zenon DEF Committing
    <3>4. OpenInv(e, i, k)'
      BY <1>2, <1>3, <1>5, <1>11, <2>3, <3>3, SMTT(30) DEF OpenInv, ByTask, ByCommand, Kinds, Committing, Active
    <3> QED
      BY <3>2, <3>4
  <2>6. ContentInv(e)'
    <3>1. ContentInv(e) /\ File(e) = Files[e][i]
      BY <1>1 DEF At
    <3> QED
      BY <1>2, <1>4, <2>3, <3>1, Zenon DEF ContentInv, Early, File
  <2> QED
    BY <1>2, <1>4, <1>6, <1>8, <1>9, <1>11, <2>3, <2>5, <2>6, Went
<1>12. \/ \E what \in Results : Report(e, what, {Id(e, "open")})
       \/ /\ ~ed[e].restoring /\ open' = open /\ report' = report
          /\ ed' = [ed EXCEPT ![e].pc = "commit", ![e].restoring = TRUE,
                              ![e].writeTimer = FALSE, ![e].outcomeTimer = FALSE]
  BY DEF Written, FailUntouched, Results
<1> QED
  BY <1>10, <1>11, <1>12, Zenon

-----------------------------------------------------------------------------
\* The steps of a task.

\* A task that is neither over nor unborn is one of the current operand, or was
\* abandoned.
LEMMA Busy ==
  ASSUME IInv, NEW e \in Editors, NEW i \in 1..MaxOps, NEW l \in Kinds,
         task[<<e, i, l>>].st \notin {"none", "over"}
  PROVE  /\ i \in 1..Len(Files[e]) /\ i <= ed[e].op /\ <<e, i, l>> \in Tasks
         /\ Files[e][i] \in FileNames
         /\ i < ed[e].op => task[<<e, i, l>>].gone /\ Left(e, i, l)
         /\ i = ed[e].op => Current(e, l, <<e, i, l>>) /\ ed[e].pc \notin {"next", "end"}
         /\ \A k \in Kinds : k # l => task[<<e, i, k>>].st \in {"none", "over"}
         /\ \A k \in Kinds : Sound(e, i, k) /\ OpenInv(e, i, k)
         /\ ContentInv(e)
<1>1. LocalInv(e) /\ ed[e].op \in Nat
  BY DEF IInv, TypeOK
<1>2. TaskInv(e, i, l) /\ Alone(e, i) /\ \A k \in Kinds : TaskInv(e, i, k) /\ OpenInv(e, i, k)
  BY <1>1 DEF LocalInv
<1>3. i <= Len(Files[e])
  BY <1>2 DEF TaskInv, Sound
<1>4. i \in 1..Len(Files[e]) /\ Files[e][i] \in FileNames
  BY <1>3, OperandIs
<1>5. i <= ed[e].op
  BY <1>1, <1>2 DEF TaskInv
<1>6. i < ed[e].op => task[<<e, i, l>>].gone /\ Left(e, i, l)
  BY <1>2 DEF TaskInv, Left
<1>7. i = ed[e].op => Current(e, l, <<e, i, l>>) /\ ed[e].pc \notin {"next", "end"}
  <2>1. i = ed[e].op => Current(e, l, <<e, i, l>>)
    BY <1>2, Zenon DEF TaskInv
  <2> QED
    BY <2>1 DEF Current, Stage, Early, Kinds
<1>8. \A k \in Kinds : k # l => task[<<e, i, k>>].st \in {"none", "over"}
  BY <1>2 DEF Alone
<1>9. \A k \in Kinds : Sound(e, i, k) /\ OpenInv(e, i, k)
  BY <1>2, Zenon DEF TaskInv
<1> QED
  BY <1>1, <1>4, <1>5, <1>6, <1>7, <1>8, <1>9, TaskIs DEF LocalInv

\* A command has at most one write.
LEMMA OneWrite ==
  ASSUME IInv, NEW e \in Editors, NEW i \in 1..MaxOps, NEW l \in Writers,
         task[<<e, i, l>>].st \notin {"none", "over"},
         NEW j \in 1..MaxOps, NEW k \in Writers, <<e, j, k>> # <<e, i, l>>
  PROVE  task[<<e, j, k>>].st \in {"none", "over"}
<1>1. l \in Kinds /\ k \in Kinds
  BY DEF Writers, Kinds
<1>2. SUFFICES ASSUME task[<<e, j, k>>].st \notin {"none", "over"} PROVE FALSE
  OBVIOUS
<1>3. j # i
  <2>1. SUFFICES ASSUME j = i PROVE FALSE
    OBVIOUS
  <2>2. k # l
    BY <2>1
  <2>3. task[<<e, i, k>>].st \in {"none", "over"}
    BY <1>1, <2>2, Busy
  <2> QED
    BY <1>2, <2>1, <2>3
<1>4. /\ i <= ed[e].op
      /\ i < ed[e].op => Left(e, i, l)
      /\ i = ed[e].op => ed[e].pc # "end"
  BY <1>1, Busy, Zenon
<1>5. /\ j <= ed[e].op
      /\ j < ed[e].op => Left(e, j, k)
      /\ j = ed[e].op => ed[e].pc # "end"
  BY <1>1, <1>2, Busy
<1>6. ed[e].op \in Nat
  BY DEF IInv, TypeOK
<1>7. i < ed[e].op => ed[e].pc = "end" /\ ed[e].op = i + 1
  BY <1>4 DEF Left
<1>8. j < ed[e].op => ed[e].pc = "end" /\ ed[e].op = j + 1
  BY <1>2, <1>5 DEF Left
<1> QED
  BY <1>3, <1>4, <1>5, <1>6, <1>7, <1>8

\* What a task does, as a step of the system: it goes on, or the result of an
\* abandoned open or read is cleaned up.
LEMMA TaskMoved ==
  ASSUME IInv, NEW e \in Editors, NEW i \in 1..MaxOps, NEW l \in Kinds,
         task[<<e, i, l>>].st \notin {"none", "over"},
         ed' \in [Editors -> EdType], \A d \in Editors : d # e => ed'[d] = ed[d],
         ed'[e].pc = ed[e].pc, ed'[e].op = ed[e].op, ed'[e].restoring = ed[e].restoring,
         task' \in [Tasks -> TaskType], \A t \in Tasks : t # <<e, i, l>> => task'[t] = task[t],
         \/ /\ task'[<<e, i, l>>].st \notin {"none", "over"}
            /\ l \in Openers => task'[<<e, i, l>>].st \in {"running", "sent"}
            /\ task'[<<e, i, l>>].gone = task[<<e, i, l>>].gone
         \/ task[<<e, i, l>>].gone /\ l \notin Writers /\ task'[<<e, i, l>>].st = "over",
         Sound(e, i, l)', Balanced(<<e, i, l>>), report' = report,
         open' \subseteq Tasks,
         \A u \in Tasks : u[1] # e \/ u[2] # i => (u \in open' <=> u \in open),
         \A k \in Kinds : OpenInv(e, i, k)',
         file' \in [FileNames -> Seq(Chunk)], \A f \in FileNames : f # Files[e][i] => file'[f] = file[f],
         file' = file \/ l \in Writers,
         ContentInv(e)'
  PROVE  IInv'
<1>1. TypeOK /\ SlotsExact /\ LocalInv(e) /\ <<e, i, l>> \in Tasks /\ i \in 1..Len(Files[e])
  BY Busy, ZenonT(40) DEF IInv
<1>2. SlotsExact' /\ pins' \in Nat /\ writes' \in Nat
  BY <1>1, SlotsKept, Zenon DEF Balanced
<1>3. TypeOK'
  <2>1. pins' \in 0..PinCap /\ writes' \in 0..WriteCap
    BY <1>2, Within, Zenon
  <2>2. report' \in [Editors \X (1..MaxOps) -> Results \cup {"none"}]
    BY <1>1, Typed, Zenon
  <2> QED
    BY <2>1, <2>2, TypedNext, Zenon
<1>4. \A j \in 1..MaxOps, k \in Kinds : <<j, k>> # <<i, l>> => task'[<<e, j, k>>] = task[<<e, j, k>>]
  BY TaskIs
<1>5. Write(e)' = Write(e) /\ Write(e) \in Writers
  BY DEF Write, Writers
<1>6. task'[<<e, i, l>>].st \in TaskStates
  BY <1>1 DEF TaskType
<1>7. ASSUME NEW j \in 1..MaxOps, NEW k \in Kinds, <<j, k>> # <<i, l>>
      PROVE  TaskInv(e, j, k)'
  <2>1. TaskInv(e, j, k) /\ task'[<<e, j, k>>] = task[<<e, j, k>>]
    BY <1>1, <1>4, <1>7, Zenon DEF LocalInv
  <2>2. k \in Writers /\ l \in Writers => task[<<e, j, k>>].st \in {"none", "over"}
    BY <1>7, OneWrite, Zenon
  <2>3. Sound(e, j, k)'
    BY <2>1, <2>2, Zenon DEF TaskInv, Sound
  <2>4. Current(e, k, <<e, j, k>>) => Current(e, k, <<e, j, k>>)'
    BY <1>5, <2>1, Zenon DEF Current
  <2>5. Left(e, j, k) => Left(e, j, k)'
    BY <1>5, <2>1, Zenon DEF Left
  <2> QED
    BY <2>1, <2>3, <2>4, <2>5, Zenon DEF TaskInv
<1>8. TaskInv(e, i, l)'
  <2>1. i <= ed[e].op /\ ed[e].op \in Nat
    <3>1. i <= ed[e].op
      BY Busy, Zenon
    <3>2. ed[e].op \in Nat
      BY <1>1, Positioned
    <3> QED
      BY <3>1, <3>2, Zenon
  <2>2. ASSUME i = ed[e].op PROVE Current(e, l, <<e, i, l>>)'
    <3>1. Current(e, l, <<e, i, l>>)
      BY <2>2, Busy, Zenon
    <3>2. task'[<<e, i, l>>].gone = task[<<e, i, l>>].gone /\ task'[<<e, i, l>>].st \notin {"none", "over"}
      BY <1>5, <3>1, Zenon DEF Current
    <3>3. task'[<<e, i, l>>].st \in Active /\ (l \in Openers => task'[<<e, i, l>>].st \in {"running", "sent"})
      BY <1>6, <3>2, Zenon DEF Active, TaskStates
    <3>4. task'[<<e, i, l>>].st \in Stage(l, ed[e].pc, ed[e].restoring)
      <4>1. task[<<e, i, l>>].st \in Stage(l, ed[e].pc, ed[e].restoring)
        BY <3>1, Zenon DEF Current
      <4>2. CASE l \in Openers
        BY <3>3, <4>1, <4>2, Zenon DEF Stage, Openers, Writers
      <4>3. CASE l \in {"read", "write", "rewrite"}
        BY <3>3, <4>1, <4>3, Zenon DEF Stage, Writers
      <4> QED
        BY <4>2, <4>3, Zenon DEF Kinds, Openers
    <3> QED
      BY <1>5, <3>1, <3>2, <3>4, Zenon DEF Current
  <2>3. ASSUME i < ed[e].op PROVE Left(e, i, l)'
    <3>1. task[<<e, i, l>>].gone /\ Left(e, i, l)
      BY <2>3, Busy, Zenon
    <3> QED
      BY <1>5, <3>1, Zenon DEF Left
  <2>4. ~(i > ed[e].op)
    BY <2>1
  <2> QED
    BY <2>2, <2>3, <2>4, Zenon DEF TaskInv
<1>9. ASSUME NEW j \in 1..MaxOps, NEW k \in Kinds PROVE OpenInv(e, j, k)'
  <2>1. CASE j # i
    <3>1. OpenInv(e, j, k) /\ \A m \in Kinds : task'[<<e, j, m>>] = task[<<e, j, m>>]
      BY <1>1, <1>4, <2>1, Zenon DEF LocalInv
    <3>2. <<e, j, k>> \in open' <=> <<e, j, k>> \in open
      BY <2>1, TaskIs
    <3> QED
      BY <3>1, <3>2, ZenonT(40) DEF OpenInv, ByTask, ByCommand, Acquire, Kinds
  <2> QED
    BY <2>1, Zenon
<1>10. ASSUME NEW j \in 1..MaxOps PROVE Alone(e, j)'
  BY <1>1, <1>4, ZenonT(40) DEF LocalInv, Alone
<1>11. LocalInv(e)'
  BY <1>7, <1>8, <1>9, <1>10, Zenon DEF LocalInv
<1>12. \A d \in Editors : d # e => \A j \in 1..Len(Files[d]) : file'[Files[d][j]] = file[Files[d][j]]
  <2>1. \A d \in Editors : d # e => \A j \in 1..Len(Files[d]) :
          Files[d][j] \in FileNames /\ Files[d][j] # Files[e][i]
    BY <1>1, OperandIs
  <2> QED
    BY <2>1, Zenon
<1>13. \A t \in Tasks : t[1] # e => task'[t] = task[t] /\ (t \in open' <=> t \in open)
  OBVIOUS
<1> QED
  BY <1>2, <1>3, <1>11, <1>12, <1>13, Assembled, Zenon

\* A step that leaves the files alone, and makes no outcome better.
LEMMA ContentKept ==
  ASSUME NEW e \in Editors, ContentInv(e), SameCommand(e), file' = file, NEW i \in Nat \ {0}, i = ed[e].op,
         i \in 1..MaxOps => \A k \in {"read", "write", "rewrite"} :
           /\ task'[<<e, i, k>>].ok => task[<<e, i, k>>].ok
           /\ task[<<e, i, k>>].mutated => task'[<<e, i, k>>].mutated
  PROVE  ContentInv(e)'
<1>1. /\ Write(e)' = Write(e) /\ Write(e) \in {"write", "rewrite"}
      /\ File(e)' = File(e) /\ Data(e)' = Data(e)
  BY DEF Write, File, Data, SameCommand
<1>2. \A k : Id(e, k) = <<e, i, k>> /\ Id(e, k)' = <<e, i, k>>
  BY DEF Id, SameCommand
<1>3. Id(e, Write(e))' = <<e, i, Write(e)>> /\ Id(e, Write(e)) = <<e, i, Write(e)>>
  BY <1>1, <1>2, Zenon DEF Id, SameCommand
<1>4. CASE ed[e].pc \in {"next", "end"}
  BY <1>4, Zenon DEF ContentInv, SameCommand, Early
<1>5. CASE ed[e].pc \notin {"next", "end"}
  <2>1. i \in 1..MaxOps
    BY <1>5, OperandIs, EditAssumption DEF ContentInv
  <2> QED
    BY <1>1, <1>2, <1>3, <2>1, Zenon DEF ContentInv, SameCommand
<1> QED
  BY <1>4, <1>5

\* The result of an abandoned open, read or acquisition arrives, and the
\* descriptor is closed.
LEMMA CleanedUp ==
  ASSUME IInv, NEW e \in Editors, NEW i \in 1..MaxOps, NEW l \in Kinds, l \notin Writers,
         task[<<e, i, l>>].gone, task[<<e, i, l>>].st = "sent",
         task' = [task EXCEPT ![<<e, i, l>>].st = "over"],
         NEW x, x = (IF l = "read" THEN <<e, i, "open">> ELSE <<e, i, l>>), open' = open \ {x},
         Balanced(<<e, i, l>>), ed' = ed, file' = file, report' = report
  PROVE  IInv'
<1> DEFINE u == <<e, i, l>>
<1>1. /\ TypeOK /\ u \in Tasks /\ ContentInv(e) /\ i \in 1..Len(Files[e])
      /\ \A k \in Kinds : /\ k # l => task[<<e, i, k>>].st \in {"none", "over"}
                          /\ OpenInv(e, i, k)
  BY Busy DEF IInv
<1>2. Sound(e, i, l)
  BY Busy
<1>3. i # ed[e].op
  <2>1. Write(e) \in Writers
    BY DEF Write, Writers
  <2> QED
    BY <2>1, Busy DEF Current
<1>4. /\ task' \in [Tasks -> TaskType] /\ \A t \in Tasks : t # u => task'[t] = task[t]
      /\ task'[u].st = "over"
  BY <1>1, Typed, Zenon DEF TaskType, TaskStates
<1>5. Sound(e, i, l)'
  BY <1>1, <1>2, <1>4, SoundKept
<1>6. ASSUME NEW k \in Kinds PROVE OpenInv(e, i, k)'
  <2>1. \A m \in Kinds : task'[<<e, i, m>>].st \in {"none", "over"}
    BY <1>1, <1>4, TaskIs
  <2>2. ~ByTask(e, i, k)' /\ ~ByCommand(e, i, k)'
    BY <1>3, <2>1 DEF ByTask, ByCommand, Kinds
  <2>3. <<e, i, k>> \in open => <<e, i, k>> = x
    <3>1. <<e, i, k>> \in open => ByTask(e, i, k)
      BY <1>1, <1>3 DEF OpenInv, ByCommand
    <3> QED
      BY <1>1, <3>1 DEF ByTask, Kinds, Openers, Writers
  <2> QED
    BY <2>2, <2>3 DEF OpenInv
<1>7. ContentInv(e)'
  <2>1. PICK j \in Nat \ {0} : j = ed[e].op
    BY <1>1 DEF TypeOK
  <2>2. j \in 1..MaxOps => \A k \in Kinds : task'[<<e, j, k>>] = task[<<e, j, k>>]
    BY <1>3, <1>4, <2>1, TaskIs
  <2> QED
    BY <1>1, <2>1, <2>2, ContentKept DEF SameCommand, Kinds
<1>8. open' \subseteq Tasks /\ ed' \in [Editors -> EdType] /\ file' \in [FileNames -> Seq(Chunk)]
  BY <1>1, Typed
<1>9. \A v \in Tasks : v[1] # e \/ v[2] # i => (v \in open' <=> v \in open)
  OBVIOUS
<1> QED
  BY <1>4, <1>5, <1>6, <1>7, <1>8, <1>9, TaskMoved, Zenon

\* The cleanup goroutine of an abandoned open closes the file and frees the slot.
LEMMA CleanUpOpenKeeps ==
  ASSUME IInv, NEW t \in Tasks, CleanUpOpen(t)
  PROVE  IInv'
<1>1. PICK e \in Editors, i \in 1..MaxOps, l \in Kinds : t = <<e, i, l>>
  BY TaskIs
<1>2. /\ l = "open" /\ task[<<e, i, l>>].gone /\ task[<<e, i, l>>].st = "sent" /\ l \notin Writers
      /\ task' = [task EXCEPT ![<<e, i, l>>].st = "over"] /\ open' = open \ {<<e, i, l>>}
      /\ pins' = pins - 1 /\ writes' = writes /\ ed' = ed /\ file' = file /\ report' = report
  BY <1>1 DEF CleanUpOpen, Writers
<1>3. task'[<<e, i, l>>].st = "over" /\ pins \in 0..PinCap /\ writes \in 0..WriteCap
  BY <1>1, <1>2, Typed DEF IInv, TaskType
<1>4. Balanced(<<e, i, l>>)
  BY <1>2, <1>3, EditAssumption DEF Balanced, HoldsPin, HoldsWrite
<1>5. PICK x : x = (IF l = "read" THEN <<e, i, "open">> ELSE <<e, i, l>>) /\ open' = open \ {x}
  BY <1>2
<1> QED
  BY <1>2, <1>4, <1>5, CleanedUp, Zenon

\* The cleanup goroutine of an abandoned read closes the file.
LEMMA CleanUpReadKeeps ==
  ASSUME IInv, NEW t \in Tasks, CleanUpRead(t)
  PROVE  IInv'
<1>1. PICK e \in Editors, i \in 1..MaxOps, l \in Kinds : t = <<e, i, l>>
  BY TaskIs
<1>2. /\ l = "read" /\ task[<<e, i, l>>].gone /\ task[<<e, i, l>>].st = "sent" /\ l \notin Writers
      /\ task' = [task EXCEPT ![<<e, i, l>>].st = "over"] /\ open' = open \ {<<e, i, "open">>}
      /\ pins' = pins /\ writes' = writes /\ ed' = ed /\ file' = file /\ report' = report
  BY <1>1 DEF CleanUpRead, ReapRead, PinOf, Writers
<1>3. task'[<<e, i, l>>].st = "over" /\ pins \in 0..PinCap /\ writes \in 0..WriteCap
  BY <1>1, <1>2, Typed DEF IInv, TaskType
<1>4. Balanced(<<e, i, l>>)
  BY <1>2, <1>3, EditAssumption DEF Balanced, HoldsPin, HoldsWrite
<1>5. PICK x : x = (IF l = "read" THEN <<e, i, "open">> ELSE <<e, i, l>>) /\ open' = open \ {x}
  BY <1>2, Zenon
<1> QED
  BY <1>2, <1>4, <1>5, CleanedUp, Zenon

\* The cleanup goroutine of an abandoned acquisition closes the file and frees
\* the slot.
LEMMA CleanUpAcquireKeeps ==
  ASSUME IInv, NEW t \in Tasks, CleanUpAcquire(t)
  PROVE  IInv'
<1>1. PICK e \in Editors, i \in 1..MaxOps, l \in Kinds : t = <<e, i, l>>
  BY TaskIs
<1>2. /\ l \in {"acquire", "reacquire"} /\ l \notin Writers
      /\ task[<<e, i, l>>].gone /\ task[<<e, i, l>>].st = "sent"
      /\ task' = [task EXCEPT ![<<e, i, l>>].st = "over"] /\ open' = open \ {<<e, i, l>>}
      /\ pins' = pins /\ writes' = writes - 1 /\ ed' = ed /\ file' = file /\ report' = report
  BY <1>1 DEF CleanUpAcquire, ReapAcquire, Writers
<1>3. task'[<<e, i, l>>].st = "over" /\ pins \in 0..PinCap /\ writes \in 0..WriteCap
  BY <1>1, <1>2, Typed DEF IInv, TaskType
<1>4. Balanced(<<e, i, l>>)
  BY <1>2, <1>3, EditAssumption DEF Balanced, HoldsPin, HoldsWrite, Writers
<1>5. PICK x : x = (IF l = "read" THEN <<e, i, "open">> ELSE <<e, i, l>>) /\ open' = open \ {x}
  BY <1>2
<1> QED
  BY <1>2, <1>4, <1>5, CleanedUp, Zenon

\* The file is opened, or not.
LEMMA OpenReturnsKeeps ==
  ASSUME IInv, NEW t \in Tasks, OpenReturns(t)
  PROVE  IInv'
<1>1. PICK e \in Editors, i \in 1..MaxOps, l \in Kinds : t = <<e, i, l>>
  BY TaskIs, ZenonT(40)
<1> DEFINE u == <<e, i, l>>
<1>2. /\ l \in Openers /\ task[u].st = "running" /\ task[u].st \notin {"none", "over"}
      /\ pins' = pins /\ writes' = writes /\ ed' = ed /\ file' = file /\ report' = report
  BY <1>1 DEF OpenReturns, Openers
<1>3. PICK ok \in BOOLEAN : /\ task' = [task EXCEPT ![u].st = "sent", ![u].ok = ok]
                            /\ open' = IF ok THEN open \cup {u} ELSE open
  BY <1>1, Zenon DEF OpenReturns
<1>4. /\ TypeOK /\ u \in Tasks /\ ContentInv(e) /\ i \in 1..Len(Files[e])
      /\ \A k \in Kinds : OpenInv(e, i, k)
  BY <1>2, Busy, Zenon DEF IInv
<1>5. Sound(e, i, l)
  BY <1>2, Busy, Zenon
<1>6. /\ task' \in [Tasks -> TaskType] /\ \A v \in Tasks : v # u => task'[v] = task[v]
      /\ task'[u].st = "sent" /\ task'[u].ok = ok /\ task'[u].gone = task[u].gone
  BY <1>3, <1>4, Typed, ZenonT(40) DEF TaskType, TaskStates
<1>7. Sound(e, i, l)'
  BY <1>2, <1>4, <1>5, <1>6, SoundKept, Zenon
<1>8. Balanced(u)
  BY Counted, <1>2, <1>6 DEF Balanced, HoldsPin, HoldsWrite, Openers, Writers
<1>9. ASSUME NEW k \in Kinds PROVE OpenInv(e, i, k)'
  <2>1. \A m \in Kinds : m # l => task'[<<e, i, m>>] = task[<<e, i, m>>]
    BY <1>6, TaskIs
  <2>2. ByCommand(e, i, k)' <=> ByCommand(e, i, k)
    BY <1>2 DEF ByCommand, Acquire
  <2>3. CASE k # l
    <3>1. ByTask(e, i, k)' <=> ByTask(e, i, k)
      BY <1>2, <2>1, <2>3, Zenon DEF ByTask, Kinds, Openers
    <3>2. <<e, i, k>> \in open' <=> <<e, i, k>> \in open
      BY <1>3, <2>3
    <3> QED
      BY <1>4, <2>2, <3>1, <3>2 DEF OpenInv
  <2>4. CASE k = l
    <3>1. OpenInv(e, i, l)
      BY <1>4, Zenon
    <3> QED
      BY <1>2, <1>3, <1>6, <2>1, <2>2, <2>4, <3>1, Zenon DEF OpenInv, ByTask, Kinds, Openers
  <2> QED
    BY <2>3, <2>4
<1>10. ContentInv(e)'
  <2>1. PICK j \in Nat \ {0} : j = ed[e].op
    BY <1>4, Positioned, Zenon
  <2>2. \A k \in {"read", "write", "rewrite"} : k \in Kinds /\ k # l
    BY <1>2 DEF Openers, Kinds
  <2>3. j \in 1..MaxOps => \A k \in {"read", "write", "rewrite"} : task'[<<e, j, k>>] = task[<<e, j, k>>]
    BY <1>6, <2>2, TaskIs
  <2> QED
    BY <1>2, <1>4, <2>1, <2>3, ContentKept, Zenon DEF SameCommand
<1>11. open' \subseteq Tasks /\ ed' \in [Editors -> EdType] /\ file' \in [FileNames -> Seq(Chunk)]
  BY <1>2, <1>3, <1>4, Typed, Zenon
<1>12. \A v \in Tasks : v[1] # e \/ v[2] # i => (v \in open' <=> v \in open)
  BY <1>3
<1>13. l \in Openers => task'[u].st \in {"running", "sent"}
  BY <1>6
<1>14. task'[u].st \notin {"none", "over"} /\ task'[u].gone = task[u].gone
  BY <1>6
<1>15. ed'[e].pc = ed[e].pc /\ ed'[e].op = ed[e].op /\ ed'[e].restoring = ed[e].restoring
       /\ \A d \in Editors : ed'[d] = ed[d]
  BY <1>2
<1>16. \A f \in FileNames : file'[f] = file[f]
  BY <1>2
<1> QED
  BY <1>2, <1>6, <1>7, <1>8, <1>9, <1>10, <1>11, <1>12, <1>13, <1>14, <1>15, <1>16, TaskMoved, Zenon

\* A read or write task gives back its slot, then sends its result.
LEMMA FinishTaskKeeps ==
  ASSUME IInv, NEW t \in Tasks, FinishTask(t)
  PROVE  IInv'
<1>1. PICK e \in Editors, i \in 1..MaxOps, l \in Kinds : t = <<e, i, l>>
  BY TaskIs, ZenonT(40)
<1> DEFINE u == <<e, i, l>>
<1>2. /\ l \in {"read", "write", "rewrite"} /\ open' = open /\ ed' = ed /\ file' = file /\ report' = report
      /\ \/ /\ task[u].st = "closed" /\ task' = [task EXCEPT ![u].st = "released"]
            /\ l = "read" => pins' = pins - 1 /\ writes' = writes
            /\ l # "read" => pins' = pins /\ writes' = writes - 1
         \/ /\ task[u].st = "released" /\ task' = [task EXCEPT ![u].st = "sent"]
            /\ pins' = pins /\ writes' = writes
  <2>1. PICK n \in 1..2 : Finish(t, SlotFirst, n)
    BY DEF FinishTask
  <2>2. CASE n = 1
    BY <1>1, <2>1, <2>2 DEF Finish, SlotFirst
  <2>3. CASE n = 2
    BY <1>1, <2>1, <2>3 DEF Finish, SlotFirst
  <2> QED
    BY <2>2, <2>3
<1>3. task[u].st \notin {"none", "over"} /\ l \notin Openers
  BY <1>2 DEF Openers
<1>4. /\ TypeOK /\ u \in Tasks /\ ContentInv(e) /\ i \in 1..Len(Files[e])
      /\ \A k \in Kinds : OpenInv(e, i, k)
  BY <1>3, Busy, Zenon DEF IInv
<1>5. Sound(e, i, l)
  BY <1>3, Busy, Zenon
<1>6. /\ task' \in [Tasks -> TaskType] /\ \A v \in Tasks : v # u => task'[v] = task[v]
      /\ task'[u].st = (IF task[u].st = "closed" THEN "released" ELSE "sent")
      /\ task'[u].ok = task[u].ok /\ task'[u].gone = task[u].gone /\ task'[u].mutated = task[u].mutated
  <2>1. PICK z \in TaskStates : /\ task' = [task EXCEPT ![u].st = z]
                               /\ z = IF task[u].st = "closed" THEN "released" ELSE "sent"
    BY <1>2 DEF TaskStates
  <2>2. task \in [Tasks -> TaskType]
    BY <1>4, Typed
  <2> QED
    BY <1>4, <2>1, <2>2, Zenon DEF TaskType
<1>7. Sound(e, i, l)'
  BY <1>2, <1>3, <1>4, <1>5, <1>6, SoundKept
<1>8. Balanced(u)
  <2>1. pins \in 0..PinCap /\ writes \in 0..WriteCap /\ PinCap \in Nat /\ WriteCap \in Nat
    BY <1>4, EditAssumption DEF TypeOK
  <2>2. /\ u[3] = l /\ task'[u].st \in {"released", "sent"}
        /\ task[u].st \in {"closed", "released"}
        /\ task[u].st = "closed" <=> task'[u].st = "released"
    BY <1>2, <1>6
  <2>3. /\ HoldsPin(u) <=> l = "read" /\ task[u].st = "closed"
        /\ HoldsWrite(u) <=> l # "read" /\ task[u].st = "closed"
        /\ ~HoldsPin(u)' /\ ~HoldsWrite(u)'
    BY <1>2, <2>2 DEF HoldsPin, HoldsWrite, Writers
  <2> QED
    BY <1>2, <2>1, <2>3 DEF Balanced
<1>9. \A m \in Kinds : m # l => task'[<<e, i, m>>] = task[<<e, i, m>>]
  BY <1>6, TaskIs
<1>10. ASSUME NEW k \in Kinds PROVE OpenInv(e, i, k)'
  <2>1. ByCommand(e, i, k)' <=> ByCommand(e, i, k)
    BY <1>2 DEF ByCommand, Acquire
  <2>2. ByTask(e, i, k)' <=> ByTask(e, i, k)
    BY <1>2, <1>6, <1>9 DEF ByTask, Kinds, Openers
  <2> QED
    BY <1>2, <1>4, <2>1, <2>2 DEF OpenInv
<1>11. ContentInv(e)'
  <2>1. PICK j \in Nat \ {0} : j = ed[e].op
    BY <1>4, Positioned, Zenon
  <2>2. j \in 1..MaxOps => \A k \in {"read", "write", "rewrite"} :
          task'[<<e, j, k>>].ok = task[<<e, j, k>>].ok /\ task'[<<e, j, k>>].mutated = task[<<e, j, k>>].mutated
    BY <1>6, TaskIs, Zenon DEF Kinds
  <2> QED
    BY <1>2, <1>4, <2>1, <2>2, ContentKept DEF SameCommand
<1>12. open' \subseteq Tasks /\ ed' \in [Editors -> EdType] /\ file' \in [FileNames -> Seq(Chunk)]
  BY <1>2, <1>4, Typed
<1>13. task'[u].st \notin {"none", "over"} /\ task'[u].gone = task[u].gone
  BY <1>6, Zenon
<1>14. ed'[e].pc = ed[e].pc /\ ed'[e].op = ed[e].op /\ ed'[e].restoring = ed[e].restoring
       /\ \A d \in Editors : ed'[d] = ed[d]
  BY <1>2
<1>15. (\A f \in FileNames : file'[f] = file[f]) /\ open' = open /\ file' = file /\ report' = report
  BY <1>2
<1> QED
  BY <1>3, <1>6, <1>7, <1>8, <1>10, <1>11, <1>12, <1>13, <1>14, <1>15, TaskMoved, Zenon

=============================================================================
