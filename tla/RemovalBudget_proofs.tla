------------------------ MODULE RemovalBudget_proofs ------------------------
(***************************************************************************)
(* Proofs that the removal budget holds for any number of stages, any      *)
(* budget and any files.                                                   *)
(***************************************************************************)
EXTENDS RemovalBudget, FiniteSetTheorems, TLAPS

\* A stage inside removeWithBudget is working on an operand.
HasOperand ==
  \A s \in Stages : pc[s] \notin {"idle", "operand"} => todo[s] # <<>>

\* BudgetHolds is not inductive: it is the reservations that leave room for
\* the unlinks to come, and the exact counter that leaves room for the
\* reservations.
RoomForReserved == removed + Cardinality(At("reserved")) <= MaxFileRemovalsPerRun

IInv == TypeOK /\ HasOperand /\ CounterExact /\ RoomForReserved

\* What is left of rm's operands after one of them is still operands.
LEMMA TailOfPaths ==
  ASSUME NEW q \in Seq(Paths), q # <<>>
  PROVE  Tail(q) \in Seq(Paths)
  OBVIOUS

\* TypeOK and HasOperand hold in every initial state.
LEMMA TypeInit == Init => TypeOK /\ HasOperand
  BY BudgetAssumption DEF Init, TypeOK, HasOperand, PCs

\* Every step of a stage or of its environment preserves them.
LEMMA TypeNext == TypeOK /\ HasOperand /\ [Next]_vars => TypeOK' /\ HasOperand'
  <1> SUFFICES ASSUME TypeOK, HasOperand, [Next]_vars
               PROVE  TypeOK' /\ HasOperand'
    OBVIOUS
  <1> USE BudgetAssumption DEF TypeOK, HasOperand, PCs, Goto
  <1>1. ASSUME NEW s \in Stages, NEW operands \in Operands, StartRm(s, operands)
        PROVE  TypeOK' /\ HasOperand'
    <2>1. operands \in Seq(Paths)
      BY DEF Operands
    <2> QED BY <1>1, <2>1, ZenonT(40) DEF StartRm
  <1>2. ASSUME NEW s \in Stages, FinishRm(s)
        PROVE  TypeOK' /\ HasOperand'
    BY <1>2 DEF FinishRm, EndRm
  <1>3. ASSUME NEW s \in Stages, LstatOperand(s)
        PROVE  TypeOK' /\ HasOperand'
    <2>1. Tail(todo[s]) \in Seq(Paths)
      BY <1>3, TailOfPaths DEF LstatOperand
    <2> QED BY <1>3, <2>1, Zenon DEF LstatOperand
  <1>4. ASSUME NEW s \in Stages, Reserve(s)
        PROVE  TypeOK' /\ HasOperand'
    BY <1>4 DEF Reserve, ReserveUnless
  <1>5. ASSUME NEW s \in Stages, Refuse(s)
        PROVE  TypeOK' /\ HasOperand'
    BY <1>5 DEF Refuse
  <1>6. ASSUME NEW s \in Stages, Unlink(s)
        PROVE  TypeOK' /\ HasOperand'
    <2>1. Tail(todo[s]) \in Seq(Paths)
      BY <1>6, TailOfPaths DEF Unlink
    <2>2. CASE Head(todo[s]) \in present
      <3>1. /\ present' \in SUBSET Files /\ removed' \in Nat
            /\ pc' = [pc EXCEPT ![s] = "operand"]
            /\ todo' = [todo EXCEPT ![s] = Tail(todo[s])]
            /\ UNCHANGED <<counter, failed, ctx, code, refused, creates>>
        BY <1>6, <2>2 DEF Unlink
      <3>2. pc' \in [Stages -> PCs] /\ todo' \in [Stages -> Seq(Paths)]
        BY <2>1, <3>1
      <3> QED BY <3>1, <3>2
    <2>3. CASE Head(todo[s]) \notin present
      BY <1>6, <2>3, Zenon DEF Unlink
    <2> QED BY <2>2, <2>3
  <1>7. ASSUME NEW s \in Stages, Refund(s)
        PROVE  TypeOK' /\ HasOperand'
    <2>1. Tail(todo[s]) \in Seq(Paths)
      BY <1>7, TailOfPaths DEF Refund, FailOperand
    <2> QED BY <1>7, <2>1 DEF Refund, FailOperand
  <1>8. CASE Cancel
    BY <1>8 DEF Cancel
  <1>9. ASSUME NEW f \in Files, Create(f)
        PROVE  TypeOK' /\ HasOperand'
    BY <1>9 DEF Create
  <1>10. CASE UNCHANGED vars
    BY <1>10 DEF vars
  <1> QED
    BY <1>1, <1>2, <1>3, <1>4, <1>5, <1>6, <1>7, <1>8, <1>9, <1>10
    DEF Next, RmStep

----------------------------------------------------------------------------
\* The stages of Stages at given labels are finitely many.
LEMMA FiniteAt ==
  ASSUME NEW T \in SUBSET Stages
  PROVE  IsFiniteSet(T) /\ Cardinality(T) \in Nat
  BY BudgetAssumption, FS_Subset, FS_CardinalityType

\* A stage enters or leaves InFlight, or neither.
LEMMA CountMove ==
  ASSUME NEW T \in SUBSET Stages, NEW s \in Stages
  PROVE  /\ s \notin T => Cardinality(T \cup {s}) = Cardinality(T) + 1
         /\ s \in T => Cardinality(T \ {s}) = Cardinality(T) - 1
  <1>1. IsFiniteSet(T)
    BY FiniteAt
  <1> QED BY <1>1, FS_AddElement, FS_RemoveElement, Zenon

\* The two counting conjuncts are preserved by every step.
LEMMA CountNext == IInv /\ [Next]_vars => CounterExact' /\ RoomForReserved'
  <1> SUFFICES ASSUME IInv, [Next]_vars
               PROVE  CounterExact' /\ RoomForReserved'
    OBVIOUS
  <1> DEFINE Q == At("reserved")
  <1>1. /\ InFlight \in SUBSET Stages /\ Cardinality(InFlight) \in Nat
        /\ Q \in SUBSET Stages /\ Cardinality(Q) \in Nat
        /\ Q \subseteq InFlight
    BY FiniteAt DEF InFlight, At
  <1>2. removed \in Nat /\ counter \in Int /\ MaxFileRemovalsPerRun \in Nat
    BY BudgetAssumption DEF IInv, TypeOK
  <1>3. counter = removed + Cardinality(InFlight)
    BY DEF IInv, CounterExact
  <1>4. removed + Cardinality(Q) <= MaxFileRemovalsPerRun
    BY DEF IInv, RoomForReserved
  <1>5. Cardinality(Q) <= Cardinality(InFlight)
    BY <1>1, FiniteAt, FS_Subset
  <1>6. ASSUME InFlight' = InFlight, Q' = Q, counter' = counter, removed' = removed
        PROVE  CounterExact' /\ RoomForReserved'
    BY <1>3, <1>4, <1>6 DEF CounterExact, RoomForReserved
  <1> USE DEF IInv, TypeOK, Goto, PCs
  <1>7. ASSUME NEW s \in Stages, NEW operands \in Operands, StartRm(s, operands)
        PROVE  CounterExact' /\ RoomForReserved'
    <2>1. InFlight' = InFlight /\ Q' = Q
      BY <1>7 DEF StartRm, At, InFlight
    <2> QED BY <1>6, <1>7, <2>1 DEF StartRm
  <1>8. ASSUME NEW s \in Stages, FinishRm(s)
        PROVE  CounterExact' /\ RoomForReserved'
    <2>1. InFlight' = InFlight /\ Q' = Q
      BY <1>8 DEF FinishRm, EndRm, At, InFlight
    <2> QED BY <1>6, <1>8, <2>1 DEF FinishRm, EndRm
  <1>9. ASSUME NEW s \in Stages, LstatOperand(s)
        PROVE  CounterExact' /\ RoomForReserved'
    <2>1. InFlight' = InFlight /\ Q' = Q
      BY <1>9 DEF LstatOperand, At, InFlight
    <2> QED BY <1>6, <1>9, <2>1 DEF LstatOperand
  <1>10. ASSUME NEW s \in Stages, Reserve(s)
         PROVE  CounterExact' /\ RoomForReserved'
    <2>1. InFlight' = InFlight \cup {s} /\ s \notin InFlight
      BY <1>10 DEF Reserve, ReserveUnless, At, InFlight
    <2>2. Cardinality(InFlight') = Cardinality(InFlight) + 1
      BY <1>1, <2>1, CountMove, Zenon
    <2>3. counter' = counter + 1 /\ removed' = removed
      BY <1>10 DEF Reserve, ReserveUnless
    <2>4. CounterExact'
      BY <1>1, <1>2, <1>3, <2>2, <2>3 DEF CounterExact
    <2>5. CASE counter + 1 > MaxFileRemovalsPerRun
      <3>1. Q' = Q
        BY <1>10, <2>5 DEF Reserve, ReserveUnless, At, InFlight
      <3> QED BY <1>4, <2>3, <2>4, <3>1 DEF RoomForReserved
    <2>6. CASE ~(counter + 1 > MaxFileRemovalsPerRun)
      <3>1. Q' = Q \cup {s} /\ s \notin Q
        BY <1>10, <2>6 DEF Reserve, ReserveUnless, At, InFlight
      <3>2. Cardinality(Q') = Cardinality(Q) + 1
        BY <1>1, <3>1, CountMove, Zenon
      <3> QED BY <1>1, <1>2, <1>3, <1>5, <2>3, <2>4, <2>6, <3>2 DEF RoomForReserved
    <2> QED BY <2>5, <2>6
  <1>11. ASSUME NEW s \in Stages, Refuse(s)
         PROVE  CounterExact' /\ RoomForReserved'
    <2>1. InFlight' = InFlight \ {s} /\ s \in InFlight /\ Q' = Q
      BY <1>11 DEF Refuse, At, InFlight
    <2>2. Cardinality(InFlight') = Cardinality(InFlight) - 1
      BY <1>1, <2>1, CountMove, Zenon
    <2>3. counter' = counter - 1 /\ removed' = removed
      BY <1>11 DEF Refuse
    <2> QED BY <1>1, <1>2, <1>3, <1>4, <2>1, <2>2, <2>3 DEF CounterExact, RoomForReserved
  <1>12. ASSUME NEW s \in Stages, Unlink(s)
         PROVE  CounterExact' /\ RoomForReserved'
    <2>1. Q' = Q \ {s} /\ s \in Q
      BY <1>12 DEF Unlink, At, InFlight
    <2>2. Cardinality(Q') = Cardinality(Q) - 1
      BY <1>1, <2>1, CountMove, Zenon
    <2>3. CASE removed' = removed + 1 /\ counter' = counter /\ pc' = [pc EXCEPT ![s] = "operand"]
      <3>1. InFlight' = InFlight \ {s} /\ s \in InFlight
        BY <1>12, <2>3 DEF Unlink, At, InFlight
      <3>2. Cardinality(InFlight') = Cardinality(InFlight) - 1
        BY <1>1, <3>1, CountMove, Zenon
      <3> QED BY <1>1, <1>2, <1>3, <1>4, <2>2, <2>3, <3>2 DEF CounterExact, RoomForReserved
    <2>4. CASE removed' = removed /\ counter' = counter /\ pc' = [pc EXCEPT ![s] = "refund"]
      <3>1. InFlight' = InFlight
        BY <1>12, <2>4 DEF Unlink, At, InFlight
      <3> QED BY <1>1, <1>2, <1>3, <1>4, <2>2, <2>4, <3>1 DEF CounterExact, RoomForReserved
    <2> QED BY <1>12, <2>3, <2>4 DEF Unlink
  <1>13. ASSUME NEW s \in Stages, Refund(s)
         PROVE  CounterExact' /\ RoomForReserved'
    <2>1. InFlight' = InFlight \ {s} /\ s \in InFlight /\ Q' = Q
      BY <1>13 DEF Refund, FailOperand, At, InFlight
    <2>2. Cardinality(InFlight') = Cardinality(InFlight) - 1
      BY <1>1, <2>1, CountMove, Zenon
    <2>3. counter' = counter - 1 /\ removed' = removed
      BY <1>13 DEF Refund, FailOperand
    <2> QED BY <1>1, <1>2, <1>3, <1>4, <2>1, <2>2, <2>3 DEF CounterExact, RoomForReserved
  <1>14. CASE Cancel \/ (\E f \in Files : Create(f)) \/ UNCHANGED vars
    <2>1. pc' = pc /\ counter' = counter /\ removed' = removed
      BY <1>14 DEF Cancel, Create, vars
    <2>2. InFlight' = InFlight /\ Q' = Q
      BY <2>1 DEF At, InFlight
    <2> QED BY <1>6, <2>1, <2>2
  <1> QED
    BY <1>7, <1>8, <1>9, <1>10, <1>11, <1>12, <1>13, <1>14 DEF Next, RmStep

----------------------------------------------------------------------------
\* The inductive invariant: the state is well typed, the shared counter is
\* exact, and the removals done and reserved fit in the budget.
THEOREM RemovalInvariant == Spec => []IInv
  <1>1. Init => IInv
    <2> SUFFICES ASSUME Init PROVE IInv
      OBVIOUS
    <2>1. InFlight = {} /\ At("reserved") = {}
      BY DEF Init, InFlight, At
    <2>2. CounterExact /\ RoomForReserved
      BY <2>1, FS_EmptySet, BudgetAssumption DEF Init, CounterExact, RoomForReserved
    <2> QED BY <2>2, TypeInit DEF IInv
  <1>2. IInv /\ [Next]_vars => IInv'
    BY TypeNext, CountNext DEF IInv
  <1> QED BY <1>1, <1>2, PTL DEF Spec

\* For any number of concurrent stages and any budget, a run never removes
\* more than MaxFileRemovalsPerRun files.
THEOREM BudgetAlwaysHolds == Spec => []BudgetHolds
  <1>1. IInv => BudgetHolds
    <2> SUFFICES ASSUME IInv PROVE BudgetHolds
      OBVIOUS
    <2>1. Cardinality(At("reserved")) \in Nat
      BY FiniteAt DEF At
    <2> QED BY <2>1, BudgetAssumption DEF IInv, TypeOK, RoomForReserved, BudgetHolds
  <1> QED BY <1>1, RemovalInvariant, PTL

\* The counter never leaks a charge, whatever fails, is refused or cancelled.
THEOREM CounterAlwaysExact == Spec => []CounterExact
  <1>1. IInv => CounterExact
    BY DEF IInv
  <1> QED BY <1>1, RemovalInvariant, PTL

\* The stages stay at the labels of removeWithBudget, rm's exit code is 0 or 1,
\* and the number of removals never becomes negative.
THEOREM TypeAlwaysOK == Spec => []TypeOK
  <1>1. IInv => TypeOK
    BY DEF IInv
  <1> QED BY <1>1, RemovalInvariant, PTL

----------------------------------------------------------------------------
\* The cardinality of the abstract budget is the cardinality of this module.
LEMMA SameCardinality == ASSUME NEW S PROVE Budget!Cardinality(S) = Cardinality(S)
  BY DEF Cardinality, Budget!Cardinality, IsFiniteSet, Budget!IsFiniteSet

\* A step that moves no stage to or from "reserved" and removes nothing is
\* invisible to the budget.
LEMMA Invisible ==
  ASSUME removed' = removed, At("reserved")' = At("reserved")
  PROVE  [Budget!Next]_<<removed, At("reserved")>>
  OBVIOUS

\* Every step of a run is a step of the shared budget or leaves it alone: the
\* Add(1) that stays within the limit takes a grant no other stage holds, the
\* unlink uses it or gives it back.
LEMMA StepIsBudgetStep == IInv /\ [Next]_vars => [Budget!Next]_<<removed, At("reserved")>>
  <1> SUFFICES ASSUME IInv, [Next]_vars
               PROVE  [Budget!Next]_<<removed, At("reserved")>>
    OBVIOUS
  <1> DEFINE Q == At("reserved")
  <1>1. /\ Q \in SUBSET Stages /\ Cardinality(Q) \in Nat
        /\ InFlight \in SUBSET Stages /\ Cardinality(InFlight) \in Nat
        /\ Q \subseteq InFlight
    BY FiniteAt DEF InFlight, At
  <1>2. Cardinality(Q) <= Cardinality(InFlight)
    BY <1>1, FiniteAt, FS_Subset
  <1>3. removed \in Nat /\ counter \in Int /\ MaxFileRemovalsPerRun \in Nat
    BY BudgetAssumption DEF IInv, TypeOK
  <1>4. pc \in [Stages -> PCs]
    BY DEF IInv, TypeOK
  <1>5. ASSUME NEW s \in Stages,
               FinishRm(s) \/ LstatOperand(s) \/ Refuse(s) \/ Refund(s)
        PROVE  removed' = removed /\ Q' = Q
    BY <1>4, <1>5 DEF FinishRm, EndRm, LstatOperand, Refuse, Refund, FailOperand, At, Goto
  <1>6. ASSUME NEW s \in Stages, NEW operands \in Operands, StartRm(s, operands)
        PROVE  removed' = removed /\ Q' = Q
    BY <1>4, <1>6 DEF StartRm, At, Goto
  <1>7. CASE Cancel \/ (\E f \in Files : Create(f)) \/ UNCHANGED vars
    <2>1. pc' = pc /\ removed' = removed
      BY <1>7 DEF Cancel, Create, vars
    <2> QED BY <2>1, Invisible DEF At
  <1>8. ASSUME NEW s \in Stages, Reserve(s), counter + 1 > MaxFileRemovalsPerRun
        PROVE  removed' = removed /\ Q' = Q
    BY <1>4, <1>8 DEF Reserve, ReserveUnless, At, Goto
  <1>9. ASSUME NEW s \in Stages, Reserve(s), ~(counter + 1 > MaxFileRemovalsPerRun)
        PROVE  Budget!Take(s)
    <2>1. removed' = removed /\ s \notin Q /\ Q' = Q \cup {s}
      BY <1>4, <1>9 DEF Reserve, ReserveUnless, At, Goto
    <2>2. counter = removed + Cardinality(InFlight)
      BY DEF IInv, CounterExact
    <2>3. removed + Cardinality(Q) < MaxFileRemovalsPerRun
      BY <1>1, <1>2, <1>3, <1>9, <2>2
    <2> QED BY <2>1, <2>3, SameCardinality DEF Budget!Take
  <1>10. ASSUME NEW s \in Stages, Unlink(s)
         PROVE  Budget!Use(s) \/ Budget!GiveBack(s)
    <2>1. s \in Q /\ Q' = Q \ {s}
      BY <1>4, <1>10 DEF Unlink, At, Goto
    <2>2. removed' = removed + 1 \/ removed' = removed
      BY <1>10 DEF Unlink
    <2> QED BY <2>1, <2>2 DEF Budget!Use, Budget!GiveBack
  <1> QED
    BY <1>5, <1>6, <1>7, <1>8, <1>9, <1>10, Invisible DEF Next, RmStep, Budget!Next

\* removeWithBudget implements the shared budget: for any number of stages and
\* any limit, what its separate Add(1), unlink and Add(-1) do is what a budget
\* that grants, uses and takes back in one step would do.
THEOREM ImplementsRunLimit == Spec => IsRunLimit
  <1>1. Init => Budget!Init
    BY DEF Init, Budget!Init, At
  <1>2. IInv /\ [Next]_vars => [Budget!Next]_<<removed, At("reserved")>>
    BY StepIsBudgetStep
  <1> QED BY <1>1, <1>2, RemovalInvariant, PTL DEF Spec, IsRunLimit, Budget!Spec
============================================================================
