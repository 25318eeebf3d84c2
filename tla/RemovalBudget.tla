--------------------------- MODULE RemovalBudget ---------------------------
(***************************************************************************)
(* The run-wide budget on file removals (interp: removeWithBudget) and the *)
(* rm builtin that draws on it.  Every pipeline stage of a run is a        *)
(* goroutine of its own, all of them share one atomic counter, and         *)
(* removeWithBudget is three separate atomic steps: reserve (Add(1)),      *)
(* unlink, and, when there is nothing to charge, refund (Add(-1)).         *)
(*                                                                         *)
(* A stage runs any number of rm commands; the operands of each are chosen *)
(* when it starts.  Another command of the run may create files meanwhile. *)
(***************************************************************************)
EXTENDS Integers, Sequences, FiniteSets

CONSTANTS
  Stages,                 \* concurrent pipeline stages of one run
  Files,                  \* paths rm may be given that can be unlinked
  Dirs,                   \* paths rm may be given that name directories
  MaxFileRemovalsPerRun,  \* the run-wide budget
  MaxRemoveFiles,         \* operands one rm accepts
  MaxCreates              \* bound: files re-created during the run

ASSUME BudgetAssumption ==
  /\ IsFiniteSet(Stages)
  /\ MaxFileRemovalsPerRun \in Nat
  /\ MaxRemoveFiles \in Nat
  /\ MaxCreates \in Nat

VARIABLES
  present,    \* the files that exist
  counter,    \* fileRemovalCount, the shared atomic
  pc,         \* where each stage is in rm / removeWithBudget
  todo,       \* operands of the stage's rm not yet processed
  failed,     \* stages whose rm has a failed operand
  ctx,        \* the run's context
  code,       \* exit code of the stage's last rm
  removed,    \* history: successful unlinks so far
  refused,    \* history: stages refused for the budget
  creates     \* files re-created so far (bounded by MaxCreates)

vars == <<present, counter, pc, todo, failed, ctx, code, removed, refused, creates>>

Paths == Files \cup Dirs

PCs == {"idle", "operand", "reserve", "over", "reserved", "refund"}

\* Stages are at known labels, and the counter and the removals are numbers.
TypeOK ==
  /\ present \in SUBSET Files
  /\ counter \in Int
  /\ pc \in [Stages -> PCs]
  /\ todo \in [Stages -> Seq(Paths)]
  /\ failed \in SUBSET Stages
  /\ ctx \in {"live", "cancelled"}
  /\ code \in [Stages -> {0, 1}]
  /\ removed \in Nat
  /\ refused \in SUBSET Stages
  /\ creates \in 0..MaxCreates

Init ==
  /\ present \in SUBSET Files
  /\ counter = 0
  /\ pc = [s \in Stages |-> "idle"]
  /\ todo = [s \in Stages |-> <<>>]
  /\ failed = {}
  /\ ctx = "live"
  /\ code = [s \in Stages |-> 0]
  /\ removed = 0
  /\ refused = {}
  /\ creates = 0

Goto(s, label) == pc' = [pc EXCEPT ![s] = label]

\* The rm handler up to its operand loop: no operand, or more than
\* MaxRemoveFiles of them, is refused before any file is touched.
StartRm(s, operands) ==
  /\ pc[s] = "idle"
  /\ ctx = "live"
  /\ \/ /\ Len(operands) \in 1..MaxRemoveFiles
        /\ Goto(s, "operand")
        /\ todo' = [todo EXCEPT ![s] = operands]
        /\ failed' = failed \ {s}
        /\ UNCHANGED code
     \/ /\ Len(operands) \notin 1..MaxRemoveFiles
        /\ code' = [code EXCEPT ![s] = 1]
        /\ UNCHANGED <<pc, todo, failed>>
  /\ UNCHANGED <<present, counter, ctx, removed, refused, creates>>

EndRm(s, exit) ==
  /\ pc[s] = "operand"
  /\ todo[s] = <<>> \/ ctx = "cancelled"
  /\ Goto(s, "idle")
  /\ todo' = [todo EXCEPT ![s] = <<>>]
  /\ code' = [code EXCEPT ![s] = exit]
  /\ UNCHANGED <<present, counter, failed, ctx, removed, refused, creates>>

Failures(s) == s \in failed \/ todo[s] # <<>>

\* Mutant: an exit code rm does not have.
FinishRmExitsTwo(s) == EndRm(s, IF Failures(s) THEN 2 ELSE 0)

\* The end of the operand loop, and the early return on a cancelled context.
FinishRm(s) == EndRm(s, IF Failures(s) THEN 1 ELSE 0)

\* removeFile's checks on the next operand: a directory is an ordinary
\* failure, anything else goes on to CallContext.Remove.
LstatOperand(s) ==
  /\ pc[s] = "operand"
  /\ todo[s] # <<>>
  /\ ctx = "live"
  /\ \/ /\ Head(todo[s]) \in Dirs
        /\ todo' = [todo EXCEPT ![s] = Tail(@)]
        /\ failed' = failed \cup {s}
        /\ UNCHANGED pc
     \/ /\ Head(todo[s]) \notin Dirs
        /\ Goto(s, "reserve")
        /\ UNCHANGED <<todo, failed>>
  /\ UNCHANGED <<present, counter, ctx, code, removed, refused, creates>>

ReserveUnless(s, over) ==
  /\ pc[s] = "reserve"
  /\ counter' = counter + 1
  /\ Goto(s, IF over THEN "over" ELSE "reserved")
  /\ UNCHANGED <<present, todo, failed, ctx, code, removed, refused, creates>>

\* Mutant: only what was removed is tested, not what others hold.
ReserveTestsRemoved(s) == ReserveUnless(s, removed + 1 > MaxFileRemovalsPerRun)

\* counter.Add(1) and the test of the value it returns.
Reserve(s) == ReserveUnless(s, counter + 1 > MaxFileRemovalsPerRun)

\* Mutant: an exhausted budget is retried instead of reported.
RefuseRetries(s) ==
  /\ pc[s] = "over"
  /\ counter' = counter - 1
  /\ Goto(s, "operand")
  /\ refused' = refused \cup {s}
  /\ UNCHANGED <<present, todo, failed, code, ctx, removed, creates>>

\* counter.Add(-1) and ErrRemoveBudgetExceeded: rm stops with this operand.
Refuse(s) ==
  /\ pc[s] = "over"
  /\ counter' = counter - 1
  /\ Goto(s, "idle")
  /\ todo' = [todo EXCEPT ![s] = <<>>]
  /\ failed' = failed \cup {s}
  /\ code' = [code EXCEPT ![s] = 1]
  /\ refused' = refused \cup {s}
  /\ UNCHANGED <<present, ctx, removed, creates>>

\* Mutant: the remaining operands are removed with the one reservation.
UnlinkRest(s) ==
  /\ pc[s] = "reserved"
  /\ LET gone == present \cap {todo[s][i] : i \in DOMAIN todo[s]}
     IN  /\ present' = present \ gone
         /\ removed' = removed + Cardinality(gone)
         /\ counter' = counter - 1 + Cardinality(gone)
  /\ Goto(s, "operand")
  /\ todo' = [todo EXCEPT ![s] = <<>>]
  /\ UNCHANGED <<failed, ctx, code, refused, creates>>

\* sandbox.Remove with the reservation held.
Unlink(s) ==
  /\ pc[s] = "reserved"
  /\ LET f == Head(todo[s]) IN
       \/ /\ f \in present
          /\ present' = present \ {f}
          /\ removed' = removed + 1
          /\ Goto(s, "operand")
          /\ todo' = [todo EXCEPT ![s] = Tail(@)]
          /\ UNCHANGED <<failed>>
       \/ /\ f \notin present
          /\ Goto(s, "refund")
          /\ UNCHANGED <<present, removed, todo, failed>>
  /\ UNCHANGED <<counter, ctx, code, refused, creates>>

FailOperand(s, charge) ==
  /\ pc[s] = "refund"
  /\ counter' = counter - charge
  /\ Goto(s, "operand")
  /\ todo' = [todo EXCEPT ![s] = Tail(@)]
  /\ failed' = failed \cup {s}
  /\ UNCHANGED <<present, ctx, code, removed, refused, creates>>

\* Mutant: a failed removal keeps its reservation.
RefundForgotten(s) == FailOperand(s, 0)

\* A failed removal is not charged: counter.Add(-1), then the next operand.
Refund(s) == FailOperand(s, 1)

\* Environment: the run is cancelled; another command writes a file.
Cancel ==
  /\ ctx = "live"
  /\ ctx' = "cancelled"
  /\ UNCHANGED <<present, counter, pc, todo, failed, code, removed, refused, creates>>

Create(f) ==
  /\ creates < MaxCreates
  /\ f \notin present
  /\ present' = present \cup {f}
  /\ creates' = creates + 1
  /\ UNCHANGED <<counter, pc, todo, failed, ctx, code, removed, refused>>

\* Bound: rm is tried with up to one operand more than it accepts.
Operands == UNION {[1..n -> Paths] : n \in 0..(MaxRemoveFiles + 1)}

RmStep(s) ==
  FinishRm(s) \/ LstatOperand(s) \/ Reserve(s) \/ Refuse(s) \/ Unlink(s) \/ Refund(s)

Next ==
  \/ \E s \in Stages : RmStep(s) \/ \E operands \in Operands : StartRm(s, operands)
  \/ Cancel
  \/ \E f \in Files : Create(f)

\* A goroutine that can run is eventually scheduled; nothing obliges a stage
\* to start another rm.
Fairness == \A s \in Stages : WF_vars(RmStep(s))

Spec == Init /\ [][Next]_vars /\ Fairness

----------------------------------------------------------------------------
At(label) == {s \in Stages : pc[s] = label}

\* Stages whose Add(1) has not been settled by an unlink or an Add(-1).
InFlight == At("over") \cup At("reserved") \cup At("refund")

\* However the stages interleave their reservations, refunds and unlinks, no
\* run removes more than MaxFileRemovalsPerRun files: removeWithBudget reserves
\* before it unlinks.
BudgetHolds == removed <= MaxFileRemovalsPerRun

\* The shared counter is what was really removed plus what is in flight: no
\* refusal, failure or cancellation leaks a charge, so once the stages are idle
\* the counter is the number of files removed ("Failed removals are not
\* charged").
CounterExact == counter = removed + Cardinality(InFlight)

\* Every rm ends, also against an exhausted budget: a refusal is reported and
\* stops the operand loop, it is never retried.
RmTerminates == \A s \in Stages : pc[s] # "idle" ~> pc[s] = "idle"

Budget == INSTANCE RunLimit WITH Limit <- MaxFileRemovalsPerRun, used <- removed, held <- At("reserved")
\* removeWithBudget is a shared budget: a stage takes a grant when its Add(1)
\* stays within the limit, uses it with the unlink, and gives it back when the
\* unlink fails; no step grants what others already hold.
IsRunLimit == Budget!Spec

\* What ErrRemoveBudgetExceeded promises: once a removal was refused, "every
\* subsequent removal in the same run will fail the same way".
RefusalIsFinal ==
  [][refused # {} => \A s \in Stages : pc[s] = "reserve" => pc'[s] # "reserved"]_vars

============================================================================
