---------------------------- MODULE InPlaceEdit ----------------------------
(***************************************************************************)
(* sed -i: a file is read, rewritten and, if the write fails, restored,    *)
(* while every system call may hang (builtins/sed/engine.go and sed.go,    *)
(* interp/runner_exec.go writeWithOutcome, allowedpaths/sandbox.go         *)
(* WriteRegularFile).                                                      *)
(*                                                                         *)
(* Each open, read, acquisition and write runs in a goroutine of its own   *)
(* (a task), which its caller stops waiting for, and so abandons, when the *)
(* context ends.  Tasks that may hang hold a slot of a pool that all runs  *)
(* of the process share.  A file is a sequence of chunks, and a chunk is   *)
(* the number of the edit that wrote it.                                   *)
(***************************************************************************)
EXTENDS Integers, Sequences, FiniteSets

CONSTANTS
  Editors,  \* sed -i commands that run at the same time
  Files,    \* Files[e]: the operands of e; a file may occur twice, but not in two editors
  MaxOps,   \* bound: operands of one command
  PinCap,   \* maxOutstandingPinOpens
  WriteCap, \* maxOutstandingWriteAcquisitions
  OldLen,   \* chunks of a file at the start
  NewLens   \* chunks a script may produce

ASSUME EditAssumption ==
  /\ IsFiniteSet(Editors)
  /\ MaxOps \in Nat \ {0} /\ PinCap \in Nat \ {0} /\ WriteCap \in Nat \ {0}
  /\ OldLen \in Nat /\ NewLens \subseteq Nat
  /\ \A e \in Editors : Len(Files[e]) \in 1..MaxOps
  /\ \A d, e \in Editors : \A i \in 1..Len(Files[d]), j \in 1..Len(Files[e]) :
       Files[d][i] = Files[e][j] => d = e

VARIABLES
  ed,     \* the state of each command
  task,   \* the goroutines, by command, operand and kind
  file,   \* the content of each file
  open,   \* descriptors, named by the task that opened them
  pins,   \* len(pinOpenSlots)
  writes, \* len(writeAcquisitionSlots)
  report  \* what the command said about each operand

vars == <<ed, task, file, open, pins, writes, report>>

-----------------------------------------------------------------------------
Kinds == {"open", "read", "acquire", "write", "reacquire", "rewrite"}
Tasks == Editors \X (1..MaxOps) \X Kinds
FileNames == UNION {{Files[e][i] : i \in 1..Len(Files[e])} : e \in Editors}
Torn == -1
Chunk == Torn..MaxOps

\* running; closed: past its last call; released: its slot is free; sent: its
\* result is in the channel; over: received, or cleaned up.
TaskStates == {"none", "running", "closed", "released", "sent", "over"}
NoTask == [st |-> "none", ok |-> FALSE, mutated |-> FALSE, n |-> 0, gone |-> FALSE]

Id(e, kind) == <<e, ed[e].op, kind>>
File(e) == Files[e][ed[e].op]
FileOf(t) == Files[t[1]][t[2]]

\* The calls WriteRegularFile makes for the new content, and to restore.
Acquire(e) == IF ed[e].restoring THEN "reacquire" ELSE "acquire"
Write(e) == IF ed[e].restoring THEN "rewrite" ELSE "write"

\* writeCtx and outcomeCtx end with the context of the run, or by their timers;
\* those of a restore have their timers only.
WriteCtxDone(e) == ed[e].writeTimer \/ (~ed[e].restoring /\ ed[e].ctx)

\* Mutant: only the context of the run bounds the wait for an outcome.
OutcomeUnbounded(e) == ~ed[e].restoring /\ ed[e].ctx

OutcomeCtxDone(e) == ed[e].outcomeTimer \/ (~ed[e].restoring /\ ed[e].ctx)

Data(e) == IF ed[e].restoring THEN ed[e].orig ELSE ed[e].new

Init ==
  /\ ed = [e \in Editors |-> [pc |-> "next", op |-> 1, orig |-> <<>>, new |-> <<>>, restoring |-> FALSE,
                              ctx |-> FALSE, writeTimer |-> FALSE, outcomeTimer |-> FALSE,
                              before |-> <<>>]]
  /\ task = [t \in Tasks |-> NoTask]
  /\ file = [f \in FileNames |-> [i \in 1..OldLen |-> 0]]
  /\ open = {}
  /\ pins = 0 /\ writes = 0
  /\ report = [t \in Editors \X (1..MaxOps) |-> "none"]

Cancel(e) ==
  /\ ed[e].pc # "end" /\ ~ed[e].ctx
  /\ ed' = [ed EXCEPT ![e].ctx = TRUE]
  /\ UNCHANGED <<task, file, open, pins, writes, report>>

\* The timers of writeWithOutcome: the one of the write ends first.
Expire(e) ==
  /\ ed[e].pc \in {"acquiring", "writing", "waiting"}
  /\ ~ed[e].outcomeTimer
  /\ ed' = [ed EXCEPT ![e].writeTimer = TRUE, ![e].outcomeTimer = ed[e].writeTimer]
  /\ UNCHANGED <<task, file, open, pins, writes, report>>

Spawn(t) == task' = [task EXCEPT ![t] = [NoTask EXCEPT !.st = "running"]]

\* The operand is done; the deferred Close releases the identity pin.
Report(e, what, h) ==
  /\ report' = [report EXCEPT ![<<e, ed[e].op>>] = what]
  /\ ed' = [ed EXCEPT ![e].pc = IF what = "unknown" THEN "end" ELSE "next", ![e].op = @ + 1]
  /\ open' = open \ h

-----------------------------------------------------------------------------
\* openPinBounded

\* The operand loop of sed -i: it ends after the last operand, or when cancelled.
EndLoop(e) ==
  /\ ed[e].pc = "next"
  /\ ed[e].op > Len(Files[e]) \/ ed[e].ctx
  /\ ed' = [ed EXCEPT ![e].pc = "end"]
  /\ UNCHANGED <<task, file, open, pins, writes, report>>

OpenPin(e) ==
  /\ ed[e].pc = "next" /\ ed[e].op <= Len(Files[e]) /\ ~ed[e].ctx
  /\ IF pins < PinCap
     THEN /\ pins' = pins + 1
          /\ Spawn(Id(e, "open"))
          /\ ed' = [ed EXCEPT ![e].pc = "opening", ![e].before = file[File(e)], ![e].restoring = FALSE,
                             ![e].writeTimer = FALSE, ![e].outcomeTimer = FALSE]
          /\ UNCHANGED <<open, report>>
     ELSE Report(e, "refused", {}) /\ UNCHANGED <<task, pins>>
  /\ UNCHANGED <<file, writes>>

\* The file is opened, and rejected or not.
OpenReturns(t) ==
  /\ t[3] \in {"open", "acquire", "reacquire"} /\ task[t].st = "running"
  /\ \E ok \in BOOLEAN :
       /\ task' = [task EXCEPT ![t].st = "sent", ![t].ok = ok]
       /\ open' = IF ok THEN open \cup {t} ELSE open
  /\ UNCHANGED <<ed, file, pins, writes, report>>

\* The result is received; the receiver returns the slot.
Opened(e) ==
  LET t == Id(e, "open") IN
  /\ ed[e].pc = "opening" /\ task[t].st = "sent"
  /\ task' = [task EXCEPT ![t].st = "over"]
  /\ pins' = pins - 1
  /\ IF task[t].ok THEN ed' = [ed EXCEPT ![e].pc = "read"] /\ UNCHANGED <<open, report>>
     ELSE Report(e, "untouched", {})
  /\ UNCHANGED <<file, writes>>

\* The context or pinOpenTimeout ends the wait, unless the result is there.
AbandonOpen(e) ==
  LET t == Id(e, "open") IN
  /\ ed[e].pc = "opening" /\ task[t].st # "sent"
  /\ task' = [task EXCEPT ![t].gone = TRUE]
  /\ Report(e, "untouched", {})
  /\ UNCHANGED <<file, pins, writes>>

\* The cleanup goroutine of an abandoned open.
CleanUpOpen(t) ==
  /\ t[3] = "open" /\ task[t].gone /\ task[t].st = "sent"
  /\ task' = [task EXCEPT ![t].st = "over"]
  /\ open' = open \ {t}
  /\ pins' = pins - 1
  /\ UNCHANGED <<ed, file, writes, report>>

-----------------------------------------------------------------------------
\* statAndReadBounded

StartRead(e) ==
  /\ ed[e].pc = "read"
  /\ IF pins < PinCap
     THEN /\ pins' = pins + 1
          /\ Spawn(Id(e, "read"))
          /\ ed' = [ed EXCEPT ![e].pc = "reading"]
          /\ UNCHANGED <<open, report>>
     ELSE Report(e, "refused", {Id(e, "open")}) /\ UNCHANGED <<task, pins>>
  /\ UNCHANGED <<file, writes>>

PinOf(t) == <<t[1], t[2], "open">>

\* statAndReadSync reads the file, or fails and closes it.
ReadReturns(t) ==
  /\ t[3] = "read" /\ task[t].st = "running"
  /\ \E ok \in BOOLEAN :
       /\ task' = [task EXCEPT ![t].st = "closed", ![t].ok = ok]
       /\ open' = IF ok THEN open ELSE open \ {PinOf(t)}
       /\ ed' = [ed EXCEPT ![t[1]].orig = IF ok /\ ~task[t].gone THEN file[FileOf(t)] ELSE @]
  /\ UNCHANGED <<file, pins, writes, report>>

\* The end of a read or write task: its slot, then its result.
SlotFirst == <<"closed", "released", "sent">>

Finish(t, order, i) ==
  /\ t[3] \in {"read", "write", "rewrite"} /\ task[t].st = order[i]
  /\ task' = [task EXCEPT ![t].st = order[i + 1]]
  /\ IF order[i + 1] = "released"
     THEN IF t[3] = "read" THEN pins' = pins - 1 /\ UNCHANGED writes
          ELSE writes' = writes - 1 /\ UNCHANGED pins
     ELSE UNCHANGED <<pins, writes>>
  /\ UNCHANGED <<ed, file, open, report>>

FinishTask(t) == \E i \in 1..2 : Finish(t, SlotFirst, i)

\* The file is read; processReader rewrites it in memory, or fails.
ReadDone(e) ==
  LET t == Id(e, "read") IN
  /\ ed[e].pc = "reading" /\ task[t].st = "sent"
  /\ task' = [task EXCEPT ![t].st = "over"]
  /\ \/ Report(e, "untouched", {Id(e, "open")})
     \/ /\ task[t].ok
        /\ \E n \in NewLens :
             ed' = [ed EXCEPT ![e].pc = "commit", ![e].new = [i \in 1..n |-> ed[e].op]]
        /\ UNCHANGED <<open, report>>
  /\ UNCHANGED <<file, pins, writes>>

AbandonRead(e) ==
  LET t == Id(e, "read") IN
  /\ ed[e].pc = "reading" /\ ed[e].ctx /\ task[t].st # "sent"
  /\ task' = [task EXCEPT ![t].gone = TRUE]
  /\ Report(e, "untouched", {})
  /\ UNCHANGED <<file, pins, writes>>

ReapRead(t, closing) ==
  /\ t[3] = "read" /\ task[t].gone /\ task[t].st = "sent"
  /\ task' = [task EXCEPT ![t].st = "over"]
  /\ open' = open \ closing
  /\ UNCHANGED <<ed, file, pins, writes, report>>

CleanUpRead(t) == ReapRead(t, {PinOf(t)})

-----------------------------------------------------------------------------
\* writeBack, writeWithOutcome and WriteRegularFile

\* WriteRegularFile fails without having touched the file.  If that was the
\* restore, the file stays as the failed write left it.
FailUntouched(e) == Report(e, IF ed[e].restoring THEN "broken" ELSE "untouched", {Id(e, "open")})

StartWrite(e) ==
  /\ ed[e].pc = "commit"
  /\ IF ~WriteCtxDone(e) /\ writes < WriteCap
     THEN /\ writes' = writes + 1
          /\ Spawn(Id(e, Acquire(e)))
          /\ ed' = [ed EXCEPT ![e].pc = "acquiring"]
          /\ UNCHANGED <<open, report>>
     ELSE FailUntouched(e) /\ UNCHANGED <<task, writes>>
  /\ UNCHANGED <<file, pins>>

\* The target is open: the slot is returned and one for the write is taken.
Acquired(e) ==
  LET t == Id(e, Acquire(e)) IN
  /\ ed[e].pc = "acquiring" /\ task[t].st = "sent"
  /\ writes' = writes - 1
  /\ IF task[t].ok
     THEN /\ ed' = [ed EXCEPT ![e].pc = "write"]
          /\ UNCHANGED <<open, report>>
     ELSE FailUntouched(e)
  /\ task' = [task EXCEPT ![t].st = "over"]
  /\ UNCHANGED <<file, pins>>

AbandonAcquire(e) ==
  LET t == Id(e, Acquire(e)) IN
  /\ ed[e].pc = "acquiring" /\ WriteCtxDone(e) /\ task[t].st # "sent"
  /\ task' = [task EXCEPT ![t].gone = TRUE]
  /\ FailUntouched(e)
  /\ UNCHANGED <<file, pins, writes>>

ReapAcquire(t, slots) ==
  /\ t[3] \in {"acquire", "reacquire"} /\ task[t].gone /\ task[t].st = "sent"
  /\ task' = [task EXCEPT ![t].st = "over"]
  /\ open' = open \ {t}
  /\ writes' = writes - slots
  /\ UNCHANGED <<ed, file, pins, report>>

\* Mutant: the slot of an abandoned acquisition is lost.
CleanUpAcquireLosing(t) == ReapAcquire(t, 0)

CleanUpAcquire(t) == ReapAcquire(t, 1)

\* writeAndTruncateBounded
WriteOut(e) ==
  /\ ed[e].pc = "write"
  /\ IF writes < WriteCap
     THEN /\ writes' = writes + 1
          /\ Spawn(Id(e, Write(e)))
          /\ ed' = [ed EXCEPT ![e].pc = "writing"]
          /\ UNCHANGED <<open, report>>
     ELSE /\ Report(e, IF ed[e].restoring THEN "broken" ELSE "untouched", {Id(e, "open"), Id(e, Acquire(e))})
          /\ UNCHANGED <<task, writes>>
  /\ UNCHANGED <<file, pins>>

\* The descriptor, the data and the context of a write task.
TargetOf(t) == <<t[1], t[2], IF t[3] = "write" THEN "acquire" ELSE "reacquire">>
DataOf(t) == IF t[3] = "write" THEN ed[t[1]].new ELSE ed[t[1]].orig
CtxOf(t) == task[t].gone \/ WriteCtxDone(t[1])

\* writeChunkedCancellable: one chunk is written, in part or not at all if
\* there is an error.
WriteOneChunk(t, counts) ==
  LET k == task[t].n + 1
      c == file[FileOf(t)]
  IN
  /\ t[3] \in {"write", "rewrite"} /\ task[t].st = "running"
  /\ task[t].n < Len(DataOf(t)) /\ ~CtxOf(t)
  /\ \E outcome \in {"all", "part", "nothing"} :
       /\ file' = IF outcome = "nothing" THEN file
                  ELSE [file EXCEPT ![FileOf(t)] =
                          [i \in 1..(IF Len(c) < k THEN k ELSE Len(c)) |->
                             IF i # k THEN c[i] ELSE IF outcome = "all" THEN DataOf(t)[k] ELSE Torn]]
       /\ task' = [task EXCEPT ![t].st = IF outcome = "all" THEN "running" ELSE "closed",
                               ![t].n = IF outcome = "all" THEN k ELSE @,
                               ![t].mutated = @ \/ outcome \in counts]
       /\ open' = IF outcome = "all" THEN open ELSE open \ {TargetOf(t)}
  /\ UNCHANGED <<ed, pins, writes, report>>

\* Mutant: a chunk that is written in part does not count.
WriteChunkWhole(t) == WriteOneChunk(t, {"all"})

WriteChunk(t) == WriteOneChunk(t, {"all", "part"})

\* The context ended between two chunks, or before the truncate.
StopWriting(t) ==
  /\ t[3] \in {"write", "rewrite"} /\ task[t].st = "running" /\ CtxOf(t)
  /\ task' = [task EXCEPT ![t].st = "closed"]
  /\ open' = open \ {TargetOf(t)}
  /\ UNCHANGED <<ed, file, pins, writes, report>>

\* f.Truncate and f.Close; either may fail.
Truncate(t) ==
  /\ t[3] \in {"write", "rewrite"} /\ task[t].st = "running"
  /\ task[t].n = Len(DataOf(t)) /\ ~CtxOf(t)
  /\ \E outcome \in {"done", "not truncated", "not closed"} :
       /\ task' = [task EXCEPT ![t].st = "closed", ![t].ok = outcome = "done",
                               ![t].mutated = @ \/ outcome # "not truncated"]
       /\ file' = IF outcome = "not truncated" THEN file ELSE [file EXCEPT ![FileOf(t)] = DataOf(t)]
  /\ open' = open \ {TargetOf(t)}
  /\ UNCHANGED <<ed, pins, writes, report>>

\* A result is known: success, failure without a trace, or a failed write that
\* is to be undone.
Written(e) ==
  LET t == Id(e, Write(e)) IN
  /\ ed[e].pc \in {"writing", "waiting"} /\ task[t].st = "sent"
  /\ task' = [task EXCEPT ![t].st = "over"]
  /\ \/ task[t].ok /\ Report(e, IF ed[e].restoring THEN "restored" ELSE "ok", {Id(e, "open")})
     \/ /\ ~task[t].ok
        /\ IF task[t].mutated /\ ~ed[e].restoring
           THEN /\ ed' = [ed EXCEPT ![e].pc = "commit", ![e].restoring = TRUE,
                                    ![e].writeTimer = FALSE, ![e].outcomeTimer = FALSE]
                /\ UNCHANGED <<open, report>>
           ELSE FailUntouched(e)
  /\ UNCHANGED <<file, pins, writes>>

\* writeCtx ended: wait for the outcome, and give up when outcomeCtx ends.
AbandonWrite(e) ==
  LET t == Id(e, Write(e)) IN
  /\ ed[e].pc = "writing" /\ WriteCtxDone(e) /\ task[t].st # "sent"
  /\ task' = [task EXCEPT ![t].gone = TRUE]
  /\ ed' = [ed EXCEPT ![e].pc = "waiting"]
  /\ UNCHANGED <<file, open, pins, writes, report>>

StopWaiting(e, what) ==
  /\ ed[e].pc = "waiting" /\ OutcomeCtxDone(e) /\ task[Id(e, Write(e))].st # "sent"
  /\ Report(e, what, {Id(e, "open")})
  /\ UNCHANGED <<task, file, pins, writes>>

GiveUp(e) == StopWaiting(e, "unknown")

-----------------------------------------------------------------------------
EditorStep(e) ==
  \/ EndLoop(e) \/ OpenPin(e) \/ Opened(e) \/ AbandonOpen(e) \/ StartRead(e)
  \/ ReadDone(e) \/ AbandonRead(e) \/ StartWrite(e) \/ Acquired(e) \/ AbandonAcquire(e)
  \/ WriteOut(e) \/ Written(e) \/ AbandonWrite(e) \/ GiveUp(e)

TaskStep(t) ==
  \/ OpenReturns(t) \/ CleanUpOpen(t) \/ ReadReturns(t) \/ FinishTask(t) \/ CleanUpRead(t)
  \/ CleanUpAcquire(t) \/ WriteChunk(t) \/ StopWriting(t) \/ Truncate(t)

Next ==
  \/ \E e \in Editors : Cancel(e) \/ Expire(e) \/ EditorStep(e)
  \/ \E t \in Tasks : TaskStep(t)

Spec == Init /\ [][Next]_vars

\* The scheduler runs the commands and the timers fire, and every run has a
\* deadline; system calls may hang.
HangingSpec ==
  Spec /\ \A e \in Editors : WF_vars(EditorStep(e)) /\ WF_vars(Expire(e)) /\ WF_vars(Cancel(e))

\* System calls return.
CallsReturn == \A t \in Tasks : WF_vars(TaskStep(t))

-----------------------------------------------------------------------------
Results == {"ok", "untouched", "refused", "restored", "broken", "unknown"}

\* The editor, its tasks, the pools and the file: each at a known step, no pool
\* with more slots than it has.
TypeOK ==
  /\ ed \in [Editors ->
        [pc : {"next", "opening", "read", "reading", "commit", "acquiring", "write", "writing",
               "waiting", "end"},
         op : 1..MaxOps + 1, orig : Seq(Chunk), new : Seq(Chunk), before : Seq(Chunk),
         restoring : BOOLEAN, ctx : BOOLEAN, writeTimer : BOOLEAN, outcomeTimer : BOOLEAN]]
  /\ task \in [Tasks -> [st : TaskStates, ok : BOOLEAN, mutated : BOOLEAN, n : Nat, gone : BOOLEAN]]
  /\ file \in [FileNames -> Seq(Chunk)]
  /\ open \subseteq Tasks
  /\ pins \in 0..PinCap /\ writes \in 0..WriteCap
  /\ report \in [Editors \X (1..MaxOps) -> Results \cup {"none"}]

In(kinds, states) == {t \in Tasks : t[3] \in kinds /\ task[t].st \in states}

\* A slot is held by exactly the tasks that have not come to the point where
\* they, or whoever receives or cleans up their result, give it back: none is
\* lost when a task is abandoned, and none is given back twice.
SlotsExact ==
  /\ pins = Cardinality(In({"open"}, {"running", "sent"}) \cup In({"read"}, {"running", "closed"}))
  /\ writes = Cardinality(In({"acquire", "reacquire"}, {"running", "sent"})
                            \cup In({"write", "rewrite"}, {"running", "closed"}))

\* The descriptors that are open are those that somebody is still going to
\* close: the command, a task, or whoever gets the result of a task.
Held(e) ==
  (IF ed[e].pc \in {"read", "commit", "acquiring", "write", "writing", "waiting"} THEN {Id(e, "open")} ELSE {})
  \cup (IF ed[e].pc = "write" THEN {Id(e, Acquire(e))} ELSE {})
Owned ==
  (UNION {Held(e) : e \in Editors})
  \cup {t \in In({"open", "acquire", "reacquire"}, {"sent"}) : task[t].ok}
  \cup {PinOf(t) : t \in In({"read"}, {"running"})
                        \cup {u \in In({"read"}, {"closed", "released", "sent"}) : task[u].ok}}
  \cup {TargetOf(t) : t \in In({"write", "rewrite"}, {"running"})}
DescriptorsOwned == open = Owned

\* A file is written only while its command waits for the write, or after the
\* command has said that the outcome is unknown, and has ended: no edit and no
\* restore ever races an abandoned write.
WritesWatched ==
  \A t \in In({"write", "rewrite"}, {"running"}) :
    \/ ed[t[1]].op = t[2] /\ Write(t[1]) = t[3] /\ ed[t[1]].pc \in {"writing", "waiting"}
    \/ ed[t[1]].pc = "end" /\ report[<<t[1], t[2]>>] = "unknown"

\* The content that an operand had when the command turned to it.
Original(e) == IF ed[e].pc = "next" THEN file[File(e)] ELSE ed[e].before

\* What the command says of a file is true when it says it: committed files
\* have the new content, and those said to be untouched or restored have,
\* chunk by chunk, the content they had.
ReportsTrue ==
  [][\A x \in DOMAIN report : report'[x] # report[x] =>
       CASE report'[x] = "ok" -> file[File(x[1])] = ed[x[1]].new
         [] report'[x] \in {"untouched", "refused", "restored"} -> file[File(x[1])] = Original(x[1])
         [] OTHER -> TRUE]_vars

\* While no abandoned task holds a slot, and there is a slot for each command,
\* no command is refused one: who has seen a task finish finds its slot free.
NoSpuriousRefusal ==
  (\A t \in Tasks : ~task[t].gone) /\ Cardinality(Editors) <= PinCap /\ Cardinality(Editors) <= WriteCap =>
    \A e \in Editors :
      /\ ed[e].pc \in {"next", "read"} => pins < PinCap
      /\ ed[e].pc \in {"commit", "write"} => writes < WriteCap

\* Every command ends although any system call may hang for ever.
NeverHangs == \A e \in Editors : <>(ed[e].pc = "end")

\* If system calls return, all descriptors are closed and all slots are free in
\* the end, whatever was abandoned.
AllReleased == CallsReturn => <>[](open = {} /\ pins = 0 /\ writes = 0)

\* Every slot and descriptor belongs to a task or a command that will give it
\* back, none is refused that is free, and no file is written behind its
\* command's back.
TasksAccounted ==
  /\ TypeOK
  /\ SlotsExact
  /\ DescriptorsOwned
  /\ NoSpuriousRefusal
  /\ WritesWatched

\* Every command ends although system calls may hang, and if they return
\* everything is released in the end.
EditEnds ==
  NeverHangs /\ AllReleased

=============================================================================
