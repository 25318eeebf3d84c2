------------------------------ MODULE Pipeline ------------------------------
(***************************************************************************)
(* The goroutines and pipes of a pipeline c1 | c2 | ... | cN, and of the   *)
(* here-document that feeds c1 (interp/runner_exec.go, the Pipe case of    *)
(* cmd; runner_redir.go, hdocReader; api.go, stdinFile).                   *)
(*                                                                         *)
(* A pipeline is parsed as ((c1 | c2) | ...) | cN.  Goroutine i runs       *)
(* c1 | ... | ci: it creates pipe i - 1, starts goroutine i - 1 for what   *)
(* is to the left of it, and executes ci itself.  Goroutine N is the one   *)
(* the statement is executed by, and goroutine 0 writes the here-document. *)
(* A command is a sequence of reads and writes that may block.             *)
(***************************************************************************)
EXTENDS Integers

CONSTANTS
  N,      \* commands
  Cap,    \* writes a pipe holds
  MaxOps  \* bound: reads and writes of a command

ASSUME PipelineAssumption ==
  N \in Nat \ {0, 1} /\ Cap \in Nat \ {0} /\ MaxOps \in Nat

VARIABLES
  pc,      \* what each goroutine does
  ops,     \* reads and writes it has done
  buf,     \* what each pipe holds
  readers, \* pipes whose read end is open
  writers, \* pipes whose write end is open
  storage, \* commands whose runner holds variable storage
  eof,     \* commands that have seen the end of their input
  cancelled,
  panicked \* history: commands whose panic left their left side unattended

vars == <<pc, ops, buf, readers, writers, storage, eof, cancelled, panicked>>

Procs == 0..N
Pipes == 0..N - 1   \* pipe i is written by goroutine i and read by i + 1

Init ==
  /\ pc = [i \in Procs |-> IF i = N THEN "start" ELSE "none"]
  /\ ops = [i \in Procs |-> 0]
  /\ buf = [i \in Pipes |-> 0]
  /\ readers = {} /\ writers = {}
  /\ storage = {} /\ eof = {}
  /\ cancelled = FALSE
  /\ panicked = {}

Goto(i, label) == pc' = [pc EXCEPT ![i] = label]

\* Create the pipe, start the goroutine of the left side, execute the right.
\* For command 1 that is the here-document.
Start(i) ==
  /\ i > 0 /\ pc[i] = "start"
  /\ pc' = [pc EXCEPT ![i] = "run", ![i - 1] = IF i = 1 THEN "run" ELSE "start"]
  /\ readers' = readers \cup {i - 1} /\ writers' = writers \cup {i - 1}
  /\ storage' = storage \cup {i}
  /\ UNCHANGED <<ops, buf, eof, cancelled, panicked>>

\* os.Pipe fails, or the run was cancelled: nothing runs.
NothingRuns(i) ==
  /\ i > 0 /\ pc[i] = "start"
  /\ Goto(i, IF i = N THEN "done" ELSE "close")
  /\ UNCHANGED <<ops, buf, readers, writers, storage, eof, cancelled, panicked>>

Cancel ==
  /\ ~cancelled /\ cancelled' = TRUE
  /\ UNCHANGED <<pc, ops, buf, readers, writers, storage, eof, panicked>>

\* The command goes on to read or write, unless the run is cancelled.
Operate(i, label) ==
  /\ pc[i] = "run" /\ ~cancelled /\ ops[i] < MaxOps
  /\ label = "read" => i > 0 /\ i \notin eof
  /\ label = "write" => i < N
  /\ Goto(i, label)
  /\ ops' = [ops EXCEPT ![i] = @ + 1]
  /\ UNCHANGED <<buf, readers, writers, storage, eof, cancelled, panicked>>

Read(i) ==
  /\ pc[i] = "read"
  /\ IF buf[i - 1] > 0
     THEN buf' = [buf EXCEPT ![i - 1] = @ - 1] /\ UNCHANGED eof
     ELSE i - 1 \notin writers /\ eof' = eof \cup {i} /\ UNCHANGED buf
  /\ Goto(i, "run")
  /\ UNCHANGED <<ops, readers, writers, storage, cancelled, panicked>>

\* Where a command goes when it returns.
Ended(i) == IF i = 1 THEN "hangUp" ELSE "end"

WriteUpTo(i, room) ==
  /\ pc[i] = "write"
  /\ IF i \in readers
     THEN buf[i] < room /\ buf' = [buf EXCEPT ![i] = @ + 1] /\ Goto(i, "run")
     ELSE ((i > 0 /\ Goto(i, "run")) \/ Goto(i, Ended(i))) /\ UNCHANGED buf
  /\ UNCHANGED <<ops, readers, writers, storage, eof, cancelled, panicked>>

\* Mutant: a write does not wait for room.
WriteUnbounded(i) == WriteUpTo(i, Cap + 1)

\* A write to a pipe nobody reads fails; a command may ignore that, the writer
\* of the here-document gives up.
Write(i) == WriteUpTo(i, Cap)

\* The command returns.  A panic in command 1 has the same effect.
Finish(i) ==
  /\ pc[i] = "run" /\ Goto(i, Ended(i))
  /\ UNCHANGED <<ops, buf, readers, writers, storage, eof, cancelled, panicked>>

ReleaseTo(i, held) ==
  /\ i > 0 /\ pc[i] = "end"
  /\ storage' = held
  /\ Goto(i, IF i = 1 THEN "close" ELSE "hangUp")
  /\ UNCHANGED <<ops, buf, readers, writers, eof, cancelled, panicked>>

\* Mutant: the storage of command 1, which is nobody's right side, is forgotten.
ReleaseRightOnly(i) == ReleaseTo(i, storage \ ({i} \ {1}))

\* releaseVarStorage(): the variables of the command's runner are given up.
Release(i) == ReleaseTo(i, storage \ {i})

Closing(i) == IF i = N THEN "done" ELSE "close"

\* wg.Wait(): the left side has ended.
Waited(i) == pc[i - 1] = "done"

CloseReader(i, open, next) ==
  /\ pc[i] = "hangUp"
  /\ readers' = open
  /\ Goto(i, IF i = 1 THEN "end" ELSE next)
  /\ UNCHANGED <<ops, buf, writers, storage, eof, cancelled, panicked>>

\* Mutant: nobody waits for the left side.
HangUpAndLeave(i) == CloseReader(i, readers \ {i - 1}, Closing(i))

\* Mutant: the read end of the here-document stays open.
HangUpNotHereDoc(i) == CloseReader(i, readers \ ({i - 1} \ {0}), "wait")

\* pr.Close(): a left side that is blocked in a write gets an error.  Command 1
\* closes the here-document as it leaves its statement, before it releases its
\* storage, and does not wait for the writer.
HangUp(i) == CloseReader(i, readers \ {i - 1}, "wait")

Wait(i) ==
  /\ pc[i] = "wait" /\ Waited(i)
  /\ Goto(i, Closing(i))
  /\ UNCHANGED <<ops, buf, readers, writers, storage, eof, cancelled, panicked>>

\* The deferred end of a left side closes the write end; so does the writer of
\* the here-document.
CloseWriter(i) ==
  /\ pc[i] = "close" \/ (i = 0 /\ pc[i] = "end")
  /\ writers' = writers \ {i}
  /\ Goto(i, "done")
  /\ UNCHANGED <<ops, buf, readers, storage, eof, cancelled, panicked>>

\* A panic in ci is recovered by the goroutine of c1 | ... | ci, which closes its
\* write end; the storage of ci's runner is not released, and its left side is
\* neither hung up on nor awaited.
Panic(i) ==
  /\ i \in 2..N - 1 /\ pc[i] = "run"
  /\ panicked' = panicked \cup {i}
  /\ Goto(i, "close")
  /\ UNCHANGED <<ops, buf, readers, writers, storage, eof, cancelled>>

Step(i) ==
  \/ Start(i) \/ NothingRuns(i) \/ Operate(i, "read") \/ Operate(i, "write") \/ Read(i) \/ Write(i)
  \/ Finish(i) \/ Release(i) \/ HangUp(i) \/ Wait(i) \/ CloseWriter(i) \/ Panic(i)

Next == Cancel \/ \E i \in Procs : Step(i)

Spec == Init /\ [][Next]_vars

\* Goroutines are scheduled fairly; a run need not be cancelled.
FairSpec == Spec /\ \A i \in Procs : WF_vars(Step(i))

-----------------------------------------------------------------------------
Labels == {"none", "start", "run", "read", "write", "end", "hangUp", "wait", "close", "done"}

\* Goroutines are at known labels, and a pipe holds no more than its capacity.
TypeOK ==
  /\ pc \in [Procs -> Labels] /\ pc[0] \in {"none", "run", "write", "end", "done"}
  /\ ops \in [Procs -> 0..MaxOps]
  /\ buf \in [Pipes -> 0..Cap]
  /\ readers \subseteq Pipes /\ writers \subseteq Pipes
  /\ storage \subseteq 1..N /\ eof \subseteq 1..N
  /\ cancelled \in BOOLEAN
  /\ panicked \subseteq 1..N

\* "Release the producer's storage before closing the pipe, so a consumer that
\* has seen EOF can reuse it": the end of input means that every command to the
\* left has ended and holds no variable storage, unless one of them panicked.
EofMeansReleased ==
  panicked = {} => \A i \in eof, j \in 1..N : j < i => pc[j] \in {"none", "done"} /\ j \notin storage

\* When the statement ends, and nothing panicked, no command of the pipeline is
\* running, none holds storage, and the pipes between them are closed.
NothingOutlives ==
  pc[N] = "done" /\ panicked = {} =>
    /\ \A j \in 1..N : pc[j] \in {"none", "done"} /\ j \notin storage
    /\ readers \cup writers \subseteq {0}

\* The statement ends, whatever order the commands read, write, end and panic in.
Terminates == <>(pc[N] = "done")

\* So does the goroutine that writes the here-document, though nobody waits for
\* it, unless a panic left command 1 unattended.
HereDocEnds == pc[0] = "run" ~> pc[0] = "done" \/ panicked # {}

\* The statement and the writer of its here-document end, whatever order the
\* commands read, write, end and panic in.
AllEnd ==
  Terminates /\ HereDocEnds

=============================================================================
