-------------------------- MODULE Pipeline_proofs ---------------------------
(***************************************************************************)
(* In a pipeline of any length, and whatever its pipes hold, the end of    *)
(* input means that everything to the left has ended and released its      *)
(* storage, and nothing outlives the statement.                            *)
(***************************************************************************)
EXTENDS Pipeline, TLAPS

Idle == {"none", "done"}

\* What a command that may still read its input is not doing.
HungUp == {"none", "start", "wait", "close", "done"}

\* A goroutine is started by the one to its right.
StartedInOrder ==
  \A i, j \in 1..N : j < i /\ pc[i] \in {"none", "start"} => pc[j] = "none"

\* A goroutine waits for its left side before it closes its write end.
EndedInOrder ==
  \A i, j \in 1..N : j < i /\ pc[i] \in {"close", "done"} => pc[j] \in Idle

\* The left of a command that has seen the end of its input has ended.
EofInOrder ==
  \A i \in eof : /\ pc[i] \notin {"none", "start"}
                 /\ \A j \in 1..N : j < i => pc[j] \in Idle

\* Storage is released before the left side is hung up on and waited for.
StorageHeld ==
  \A i \in storage : pc[i] \notin HungUp /\ (i > 1 => pc[i] # "hangUp")

\* The write end of a pipe is open exactly while its goroutine exists.
WritersOpen == \A i \in 1..N - 1 : i \in writers <=> pc[i] \notin Idle

\* The read end is open only while the command may read.
ReadersOpen == \A i \in 2..N : i - 1 \in readers => pc[i] \notin HungUp

Orderly ==
  /\ StartedInOrder /\ EndedInOrder /\ EofInOrder
  /\ StorageHeld /\ WritersOpen /\ ReadersOpen

\* Without panics, commands start from right to left and end from left to right.
IInv == TypeOK /\ (panicked = {} => Orderly)

-----------------------------------------------------------------------------
\* A pipeline starts with its right-most goroutine alone (Init).
LEMMA InitOrderly == Init => IInv
<1> SUFFICES ASSUME Init PROVE IInv
  OBVIOUS
<1>1. N \in Nat /\ N > 1 /\ Cap \in Nat /\ MaxOps \in Nat
  BY PipelineAssumption
<1>2. \A i \in 0..N : pc[i] = IF i = N THEN "start" ELSE "none"
  BY DEF Init, Procs
<1>3. TypeOK
  <2>1. pc \in [Procs -> Labels] /\ ops \in [Procs -> 0..MaxOps] /\ buf \in [Pipes -> 0..Cap]
    BY <1>1 DEF Init, Labels
  <2>2. pc[0] = "none"
    BY <1>1, <1>2
  <2> QED
    BY <2>1, <2>2, Zenon DEF Init, TypeOK
<1>4. StartedInOrder /\ EndedInOrder
  BY <1>1, <1>2 DEF StartedInOrder, EndedInOrder
<1>5. EofInOrder /\ StorageHeld
  BY DEF EofInOrder, StorageHeld, Init
<1>6. WritersOpen /\ ReadersOpen
  <2>1. \A i \in 1..N - 1 : pc[i] = "none"
    BY <1>1, <1>2
  <2>2. writers = {} /\ readers = {}
    BY DEF Init
  <2> QED
    BY <2>1, <2>2 DEF WritersOpen, ReadersOpen, Idle
<1> QED
  BY <1>3, <1>4, <1>5, <1>6 DEF IInv, Orderly

\* Every step of a goroutine keeps the pipeline well typed (Step).
LEMMA StepTyped == ASSUME TypeOK, NEW i \in Procs, Step(i) PROVE TypeOK'
<1>1. N \in Nat /\ N > 1 /\ Cap \in Nat /\ MaxOps \in Nat
  BY PipelineAssumption
<1>2. pc' \in [Procs -> Labels]
  <2> USE <1>1 DEF Goto, Labels, Procs
  <2>1. CASE Start(i)
    BY <2>1 DEF Start, TypeOK
  <2>2. CASE NothingRuns(i) \/ Operate(i, "read") \/ Operate(i, "write") \/ Read(i)
    BY <2>2 DEF NothingRuns, Operate, Read, TypeOK
  <2>3. CASE Write(i) \/ Finish(i)
    BY <2>3 DEF Write, WriteUpTo, Finish, Ended, TypeOK
  <2>4. CASE Release(i) \/ HangUp(i) \/ Wait(i)
    BY <2>4 DEF Release, ReleaseTo, HangUp, CloseReader, Wait, Closing, TypeOK
  <2>5. CASE CloseWriter(i) \/ Panic(i)
    BY <2>5 DEF CloseWriter, Panic, TypeOK
  <2> QED
    BY <2>1, <2>2, <2>3, <2>4, <2>5 DEF Step
<1>3. ops' \in [Procs -> 0..MaxOps]
  BY <1>1 DEF Step, Start, NothingRuns, Operate, Read, Write, WriteUpTo, Finish, Release, ReleaseTo,
    HangUp, CloseReader, Wait, CloseWriter, Panic, TypeOK
<1>4. buf' \in [Pipes -> 0..Cap]
  BY <1>1 DEF Step, Start, NothingRuns, Operate, Read, Write, WriteUpTo, Finish, Release, ReleaseTo,
    HangUp, CloseReader, Wait, CloseWriter, Panic, TypeOK
<1>5. readers' \subseteq Pipes /\ writers' \subseteq Pipes
  <2>1. CASE Start(i)
    <3>1. i - 1 \in Pipes
      BY <1>1, <2>1 DEF Start, Procs, Pipes
    <3> QED
      BY <2>1, <3>1 DEF Start, TypeOK
  <2>2. CASE ~Start(i)
    BY <2>2 DEF Step, NothingRuns, Operate, Read, Write, WriteUpTo, Finish, Release, ReleaseTo,
      HangUp, CloseReader, Wait, CloseWriter, Panic, TypeOK
  <2> QED
    BY <2>1, <2>2
<1>6. storage' \subseteq 1..N /\ eof' \subseteq 1..N /\ panicked' \subseteq 1..N
  <2>1. CASE Read(i) \/ Start(i) \/ Panic(i)
    <3>1. i \in 1..N
      BY <1>1, <2>1 DEF Read, Start, Panic, TypeOK, Procs
    <3> QED
      BY <2>1, <3>1, Zenon DEF Read, Start, Panic, TypeOK
  <2>2. CASE ~(Read(i) \/ Start(i) \/ Panic(i))
    BY <2>2, Zenon DEF Step, NothingRuns, Operate, Write, WriteUpTo, Finish, Release, ReleaseTo,
      HangUp, CloseReader, Wait, CloseWriter, TypeOK
  <2> QED
    BY <2>1, <2>2
<1>7. cancelled' \in BOOLEAN
  BY DEF Step, Start, NothingRuns, Operate, Read, Write, WriteUpTo, Finish, Release, ReleaseTo,
    HangUp, CloseReader, Wait, CloseWriter, Panic, TypeOK
<1>8. pc'[0] \in {"none", "run", "write", "end", "done"}
  <2> USE <1>1 DEF Goto, Labels, Procs
  <2>1. CASE Start(i)
    BY <2>1 DEF Start, TypeOK
  <2>2. CASE NothingRuns(i) \/ Operate(i, "read") \/ Operate(i, "write") \/ Read(i)
    BY <2>2 DEF NothingRuns, Operate, Read, TypeOK
  <2>3. CASE Write(i) \/ Finish(i)
    BY <2>3 DEF Write, WriteUpTo, Finish, Ended, TypeOK
  <2>4. CASE Release(i) \/ HangUp(i) \/ Wait(i)
    BY <2>4 DEF Release, ReleaseTo, HangUp, CloseReader, Wait, Closing, TypeOK
  <2>5. CASE CloseWriter(i) \/ Panic(i)
    BY <2>5 DEF CloseWriter, Panic, TypeOK
  <2> QED
    BY <2>1, <2>2, <2>3, <2>4, <2>5 DEF Step
<1> QED
  BY <1>2, <1>3, <1>4, <1>5, <1>6, <1>7, <1>8 DEF TypeOK

\* Without panics, every step of a goroutine keeps the order (Step).
LEMMA StepOrderly ==
  ASSUME TypeOK, Orderly, NEW i \in Procs, Step(i), ~Panic(i)
  PROVE  Orderly'
<1>1. N \in Nat /\ N > 1 /\ i \in 0..N
  BY PipelineAssumption DEF Procs
<1>2. pc \in [0..N -> Labels] /\ storage \subseteq 1..N /\ eof \subseteq 1..N
  BY DEF TypeOK, Procs
<1> USE <1>1, <1>2 DEF Orderly, Goto, Idle, HungUp
\* The command goes on, or returns.
<1>3. CASE \/ Operate(i, "read") \/ Operate(i, "write") \/ Write(i) \/ Finish(i)
           \/ Read(i) /\ UNCHANGED eof
  <2> DEFINE Busy == {"run", "read", "write"}
  <2>0. /\ pc[i] \in Busy
        /\ pc'[i] \in Busy \cup {"end", "hangUp"} /\ (pc'[i] = "hangUp" => i = 1)
        /\ \A j \in 0..N : j # i => pc'[j] = pc[j]
        /\ UNCHANGED <<storage, eof, readers, writers>>
    BY <1>3 DEF Operate, Write, WriteUpTo, Finish, Read, Ended
  <2>1. StartedInOrder'
    BY <2>0 DEF StartedInOrder
  <2>2. EndedInOrder'
    BY <2>0 DEF EndedInOrder
  <2>3. EofInOrder'
    BY <2>0 DEF EofInOrder
  <2>4. StorageHeld'
    BY <2>0 DEF StorageHeld
  <2>5. WritersOpen'
    BY <2>0 DEF WritersOpen
  <2>6. ReadersOpen'
    BY <2>0 DEF ReadersOpen
  <2> QED
    BY <2>1, <2>2, <2>3, <2>4, <2>5, <2>6
<1>4. CASE Start(i)
  <2>1. StartedInOrder'
    BY <1>4 DEF Start, StartedInOrder
  <2>2. EndedInOrder'
    BY <1>4 DEF Start, EndedInOrder, StartedInOrder
  <2>3. EofInOrder'
    BY <1>4 DEF Start, EofInOrder, StartedInOrder
  <2>4. StorageHeld'
    BY <1>4 DEF Start, StorageHeld, StartedInOrder
  <2>5. WritersOpen'
    BY <1>4 DEF Start, WritersOpen, StartedInOrder
  <2>6. ReadersOpen'
    BY <1>4 DEF Start, ReadersOpen, StartedInOrder
  <2> QED
    BY <2>1, <2>2, <2>3, <2>4, <2>5, <2>6
<1>5. CASE NothingRuns(i)
  <2>1. StartedInOrder'
    BY <1>5 DEF NothingRuns, StartedInOrder
  <2>2. EndedInOrder'
    BY <1>5 DEF NothingRuns, EndedInOrder, StartedInOrder
  <2>3. EofInOrder'
    BY <1>5 DEF NothingRuns, EofInOrder, StartedInOrder
  <2>4. StorageHeld'
    BY <1>5 DEF NothingRuns, StorageHeld, StartedInOrder
  <2>5. WritersOpen'
    BY <1>5 DEF NothingRuns, WritersOpen, StartedInOrder
  <2>6. ReadersOpen'
    BY <1>5 DEF NothingRuns, ReadersOpen, StartedInOrder
  <2> QED
    BY <2>1, <2>2, <2>3, <2>4, <2>5, <2>6
<1>6. CASE Release(i)
  <2>1. StartedInOrder'
    BY <1>6 DEF Release, ReleaseTo, StartedInOrder
  <2>2. EndedInOrder'
    BY <1>6 DEF Release, ReleaseTo, EndedInOrder
  <2>3. EofInOrder'
    BY <1>6 DEF Release, ReleaseTo, EofInOrder
  <2>4. StorageHeld'
    BY <1>6 DEF Release, ReleaseTo, StorageHeld
  <2>5. WritersOpen'
    BY <1>6 DEF Release, ReleaseTo, WritersOpen
  <2>6. ReadersOpen'
    BY <1>6 DEF Release, ReleaseTo, ReadersOpen
  <2> QED
    BY <2>1, <2>2, <2>3, <2>4, <2>5, <2>6
<1>7. CASE HangUp(i)
  <2>1. StartedInOrder'
    BY <1>7 DEF HangUp, CloseReader, StartedInOrder
  <2>2. EndedInOrder'
    BY <1>7 DEF HangUp, CloseReader, EndedInOrder
  <2>3. EofInOrder'
    BY <1>7 DEF HangUp, CloseReader, EofInOrder
  <2>4. StorageHeld'
    BY <1>7 DEF HangUp, CloseReader, StorageHeld
  <2>5. WritersOpen'
    BY <1>7 DEF HangUp, CloseReader, WritersOpen
  <2>6. ReadersOpen'
    BY <1>7 DEF HangUp, CloseReader, ReadersOpen
  <2> QED
    BY <2>1, <2>2, <2>3, <2>4, <2>5, <2>6
<1>8. CASE Wait(i)
  <2>1. StartedInOrder'
    BY <1>8 DEF Wait, Waited, Closing, StartedInOrder, EndedInOrder
  <2>2. EndedInOrder'
    BY <1>8 DEF Wait, Waited, Closing, EndedInOrder
  <2>3. EofInOrder'
    BY <1>8 DEF Wait, Waited, Closing, EofInOrder, EndedInOrder
  <2>4. StorageHeld'
    BY <1>8 DEF Wait, Waited, Closing, StorageHeld, EndedInOrder
  <2>5. WritersOpen'
    BY <1>8 DEF Wait, Waited, Closing, WritersOpen, EndedInOrder
  <2>6. ReadersOpen'
    BY <1>8 DEF Wait, Waited, Closing, ReadersOpen, EndedInOrder
  <2> QED
    BY <2>1, <2>2, <2>3, <2>4, <2>5, <2>6
<1>9. CASE CloseWriter(i)
  <2>1. StartedInOrder'
    BY <1>9 DEF CloseWriter, StartedInOrder
  <2>2. EndedInOrder'
    BY <1>9 DEF CloseWriter, EndedInOrder
  <2>3. EofInOrder'
    BY <1>9 DEF CloseWriter, EofInOrder
  <2>4. StorageHeld'
    BY <1>9 DEF CloseWriter, StorageHeld
  <2>5. WritersOpen'
    BY <1>9 DEF CloseWriter, WritersOpen
  <2>6. ReadersOpen'
    BY <1>9 DEF CloseWriter, ReadersOpen
  <2> QED
    BY <2>1, <2>2, <2>3, <2>4, <2>5, <2>6
<1>10. CASE Read(i) /\ eof' # eof
  <2>0. i > 0 /\ (i = 1 \/ pc[i - 1] \in Idle)
    BY <1>10 DEF Read, WritersOpen, TypeOK
  <2>7. \A j \in 1..N : j < i => pc[j] \in Idle
    BY <2>0 DEF StartedInOrder, EndedInOrder
  <2>8. /\ eof' = eof \cup {i} /\ pc[i] = "read" /\ pc'[i] = "run"
        /\ \A j \in 0..N : j # i => pc'[j] = pc[j]
    BY <1>10 DEF Read
  <2>1. StartedInOrder'
    BY <1>10 DEF Read, StartedInOrder
  <2>2. EndedInOrder'
    BY <1>10 DEF Read, EndedInOrder
  <2>3. EofInOrder'
    BY <2>0, <2>7, <2>8 DEF EofInOrder
  <2>4. StorageHeld'
    BY <1>10 DEF Read, StorageHeld
  <2>5. WritersOpen'
    BY <1>10 DEF Read, WritersOpen
  <2>6. ReadersOpen'
    BY <1>10 DEF Read, ReadersOpen
  <2> QED
    BY <2>1, <2>2, <2>3, <2>4, <2>5, <2>6
<1> QED
  BY <1>3, <1>4, <1>5, <1>6, <1>7, <1>8, <1>9, <1>10 DEF Step, Read

\* The order survives every step of the pipeline (Next).
LEMMA NextOrderly == ASSUME IInv, [Next]_vars PROVE IInv'
<1>1. CASE UNCHANGED vars
  <2>1. TypeOK'
    BY <1>1 DEF IInv, TypeOK, vars
  <2>2. panicked' = {} => Orderly'
    BY <1>1 DEF IInv, vars, Orderly, StartedInOrder, EndedInOrder, EofInOrder, StorageHeld, WritersOpen, ReadersOpen
  <2> QED
    BY <2>1, <2>2 DEF IInv
<1>2. CASE Cancel
  <2>1. TypeOK'
    BY <1>2 DEF IInv, TypeOK, Cancel
  <2>2. panicked' = {} => Orderly'
    BY <1>2 DEF IInv, Cancel, Orderly, StartedInOrder, EndedInOrder, EofInOrder, StorageHeld, WritersOpen, ReadersOpen
  <2> QED
    BY <2>1, <2>2 DEF IInv
<1>3. ASSUME NEW i \in Procs, Step(i)
      PROVE  IInv'
  <2>1. TypeOK'
    BY <1>3, StepTyped DEF IInv
  <2>2. panicked' = {} => panicked = {} /\ ~Panic(i)
    BY <1>3 DEF Step, Start, NothingRuns, Operate, Read, Write, WriteUpTo, Finish, Release, ReleaseTo,
      HangUp, CloseReader, Wait, CloseWriter, Panic
  <2> QED
    BY <1>3, <2>1, <2>2, StepOrderly DEF IInv
<1> QED
  BY <1>1, <1>2, <1>3 DEF Next

\* The invariant holds throughout, for every number of commands.
THEOREM PipelineInvariant == Spec => []IInv
<1> QED
  BY InitOrderly, NextOrderly, PTL DEF Spec

\* The goroutines of a pipeline only ever do what their type allows (TypeOK).
THEOREM PipelineTyped == Spec => []TypeOK
<1>1. IInv => TypeOK
  BY DEF IInv
<1> QED
  BY <1>1, PipelineInvariant, PTL

\* A consumer that has seen EOF can reuse the storage of its producers
\* (runner_exec.go, the deferred end of a left side).
THEOREM EofAlwaysMeansReleased == Spec => []EofMeansReleased
<1>1. IInv => EofMeansReleased
  BY DEF IInv, EofMeansReleased, Orderly, EofInOrder, StorageHeld, Idle, HungUp
<1> QED
  BY <1>1, PipelineInvariant, PTL

\* When the statement ends, nothing of it is running, holds storage or keeps a
\* pipe open (runner_exec.go, pr.Close and wg.Wait).
THEOREM NothingEverOutlives == Spec => []NothingOutlives
<1>1. ASSUME IInv, pc[N] = "done", panicked = {}
      PROVE  /\ \A j \in 1..N : pc[j] \in Idle /\ j \notin storage
             /\ readers \cup writers \subseteq {0}
  <2>1. N \in Nat /\ N > 1
    BY PipelineAssumption
  <2>2. \A j \in 1..N : pc[j] \in Idle
    BY <1>1, <2>1 DEF IInv, Orderly, EndedInOrder, Idle
  <2>3. \A j \in 1..N : j \notin storage
    BY <1>1, <2>2 DEF IInv, Orderly, StorageHeld, Idle, HungUp
  <2>4. \A j \in 1..N - 1 : j \notin writers
    BY <1>1, <2>1, <2>2 DEF IInv, Orderly, WritersOpen
  <2>5. \A j \in 1..N - 1 : j \notin readers
    <3> SUFFICES ASSUME NEW j \in 1..N - 1, j \in readers PROVE FALSE
      OBVIOUS
    <3>1. j + 1 \in 2..N /\ (j + 1) - 1 = j
      BY <2>1
    <3> QED
      BY <1>1, <2>2, <3>1 DEF IInv, Orderly, ReadersOpen, Idle, HungUp
  <2>6. readers \subseteq 0..N - 1 /\ writers \subseteq 0..N - 1
    BY <1>1 DEF IInv, TypeOK, Pipes
  <2> QED
    BY <2>1, <2>2, <2>3, <2>4, <2>5, <2>6
<1>2. IInv => NothingOutlives
  BY <1>1 DEF NothingOutlives, Idle
<1> QED
  BY <1>2, PipelineInvariant, PTL

=============================================================================
