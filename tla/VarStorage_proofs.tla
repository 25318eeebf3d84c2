------------------------- MODULE VarStorage_proofs -------------------------
(***************************************************************************)
(* The run-wide variable budget is exact, for any number of overlays,      *)
(* names and inline assignments and any caps.                              *)
(*                                                                         *)
(* Sums are stated as cardinalities of sets of units, one per charged      *)
(* byte: assigning replaces the units of one (overlay, name) cell, and     *)
(* releasing removes those of one overlay.  The inductive invariant adds   *)
(* that an overlay that is not in use owns nothing.                        *)
(***************************************************************************)
EXTENDS VarStorage, FiniteSetTheorems, TLAPS

FreeOwnsNothing == \A o \in Overlays : pc[o] = "free" => owned[o] = OwnsNothing

IInv == TypeOK /\ Accounting /\ FreeOwnsNothing

Cell(o, n, k) == {o} \X ({n} \X (1..k))

-----------------------------------------------------------------------------
\* The units of one cell are as many as its charge.
LEMMA CellSize ==
  ASSUME NEW o, NEW n, NEW k \in Nat
  PROVE  IsFiniteSet(Cell(o, n, k)) /\ Cardinality(Cell(o, n, k)) = k
<1>1. IsFiniteSet(1..k) /\ Cardinality(1..k) = k
  BY FS_Interval
<1>2. /\ IsFiniteSet({n}) /\ Cardinality({n}) = 1
      /\ IsFiniteSet({o}) /\ Cardinality({o}) = 1
  BY FS_Singleton
<1>0. 1 * k = k
  OBVIOUS
<1>3. IsFiniteSet({n} \X (1..k))
  BY <1>1, <1>2, FS_Product, Zenon
<1>4. Cardinality({n} \X (1..k)) = Cardinality({n}) * Cardinality(1..k)
  BY <1>1, <1>2, FS_Product
<1>5. Cardinality({n} \X (1..k)) = k
  BY <1>0, <1>1, <1>2, <1>4, Zenon
<1>6. IsFiniteSet(Cell(o, n, k))
  BY <1>2, <1>3, FS_Product DEF Cell
<1>7. Cardinality(Cell(o, n, k)) = Cardinality({o}) * Cardinality({n} \X (1..k))
  BY <1>2, <1>3, FS_Product DEF Cell
<1> QED
  BY <1>0, <1>2, <1>5, <1>6, <1>7, Zenon

\* Disjoint sets add up.
LEMMA DisjointUnion ==
  ASSUME NEW A, NEW B, NEW C, IsFiniteSet(B), IsFiniteSet(C), A = B \cup C, B \cap C = {}
  PROVE  Cardinality(A) = Cardinality(B) + Cardinality(C)
<1>1. Cardinality(A) = Cardinality(B) + Cardinality(C) - Cardinality(B \cap C)
  BY FS_Union
<1>2. Cardinality(B \cap C) = 0
  BY FS_EmptySet
<1>3. Cardinality(B) \in Nat /\ Cardinality(C) \in Nat
  BY FS_CardinalityType
<1> QED
  BY <1>1, <1>2, <1>3

\* There are finitely many units.
LEMMA UnitsFinite ==
  ASSUME NEW S \in SUBSET Overlays, NEW d \in Dims, NEW ow
  PROVE  IsFiniteSet(Units(ow, S, d)) /\ Cardinality(Units(ow, S, d)) \in Nat
<1>1. IsFiniteSet(S)
  BY StorageAssumption, FS_Subset
<1>2. IsFiniteSet(1..MaxCharge)
  BY StorageAssumption, FS_Interval
<1>3. IsFiniteSet(Names \X (1..MaxCharge))
  BY <1>2, StorageAssumption, FS_Product
<1>4. IsFiniteSet(S \X (Names \X (1..MaxCharge)))
  BY <1>1, <1>3, FS_Product
<1>5. IsFiniteSet(Units(ow, S, d))
  BY <1>4, FS_Subset DEF Units
<1> QED
  BY <1>5, FS_CardinalityType

Owned == [Overlays -> [Names -> Cost]]

\* Charging a cell of an overlay of S changes the number of S's units by the
\* difference of the two charges.
LEMMA ChargeCell ==
  ASSUME NEW S \in SUBSET Overlays, NEW d \in Dims, NEW ow \in Owned,
         NEW o \in S, NEW n \in Names, NEW cost \in Cost,
         NEW new \in Owned, new[o][n] = cost,
         \A p \in Overlays, q \in Names : p # o \/ q # n => new[p][q] = ow[p][q]
  PROVE  Cardinality(Units(new, S, d)) = Cardinality(Units(ow, S, d)) + (cost[d] - ow[o][n][d])
<1> DEFINE k == ow[o][n][d]
           m == cost[d]
           A == Units(ow, S, d)
           B == Units(new, S, d)
           rest == {u \in A : ~(u[1] = o /\ u[2][1] = n)}
<1>1. k \in 0..MaxCharge /\ m \in 0..MaxCharge /\ k \in Nat /\ m \in Nat
  BY StorageAssumption DEF Owned, Cost
<1>2. IsFiniteSet(A) /\ IsFiniteSet(rest)
  BY UnitsFinite, FS_Subset
<1>3. A = rest \cup Cell(o, n, k) /\ rest \cap Cell(o, n, k) = {}
  BY <1>1, StorageAssumption DEF Units, Cell
<1>4. B = rest \cup Cell(o, n, m) /\ rest \cap Cell(o, n, m) = {}
  <2>1. new[o][n][d] = m
    OBVIOUS
  <2>2. \A p \in Overlays, q \in Names : p # o \/ q # n => new[p][q] = ow[p][q]
    OBVIOUS
  <2>3. \A u \in S \X (Names \X (1..MaxCharge)) :
          u[2][2] <= new[u[1]][u[2][1]][d] <=> u \in rest \/ u \in Cell(o, n, m)
    BY <1>1, <2>1, <2>2, StorageAssumption DEF Units, Cell
  <2> QED
    BY <1>1, <2>3, StorageAssumption DEF Units, Cell
<1> HIDE DEF k, m, A, B, rest
<1>5. Cardinality(A) = Cardinality(rest) + k
  BY <1>1, <1>2, <1>3, CellSize, DisjointUnion
<1>6. Cardinality(B) = Cardinality(rest) + m
  BY <1>1, <1>2, <1>4, CellSize, DisjointUnion
<1>7. Cardinality(rest) \in Nat
  BY <1>2, FS_CardinalityType
<1> QED
  BY <1>1, <1>5, <1>6, <1>7 DEF k, m, A, B

-----------------------------------------------------------------------------
Budget == Accounting /\ FreeOwnsNothing

StorageType ==
  /\ owned \in [Overlays -> [Names -> Cost]]
  /\ charged \in [Overlays -> [Dims -> Nat]]
  /\ live \in [Dims -> Nat]

\* A step that charges nothing keeps the budget exact: the overlays it takes
\* into use own nothing yet.
LEMMA NothingCharged ==
  ASSUME IInv, UNCHANGED storage,
         \A o \in Overlays : pc'[o] = "free" => pc[o] = "free"
  PROVE  Budget' /\ StorageType'
<1>1. \A d \in Dims : Units(owned, Live, d)' = Units(owned, Live, d)
  BY DEF IInv, TypeOK, FreeOwnsNothing, Units, Live, storage, OwnsNothing, NoCost
<1>2. \A d \in Dims, o \in Overlays : Units(owned, {o}, d)' = Units(owned, {o}, d)
  BY DEF Units, storage
<1>3. StorageType' /\ FreeOwnsNothing'
  BY DEF IInv, TypeOK, StorageType, FreeOwnsNothing, storage
<1> QED
  BY <1>1, <1>2, <1>3 DEF Budget, IInv, Accounting, storage

\* own and restoreBinding: the cell of a live overlay is charged anew.
LEMMA CellCharged ==
  ASSUME IInv, NEW o \in Live, NEW n \in Names, NEW cost \in Cost,
         Own(o, n, cost), \A p \in Overlays : pc'[p] = "free" <=> pc[p] = "free"
  PROVE  Budget' /\ StorageType'
<1> USE DEF Own, Charge, After
<1>1. Live' = Live /\ Live \subseteq Overlays /\ o \in Overlays
  BY DEF Live
<1>2. owned' = [owned EXCEPT ![o][n] = cost] /\ owned' \in [Overlays -> [Names -> Cost]]
  BY <1>1 DEF IInv, TypeOK
<1>3. FreeOwnsNothing'
  BY <1>1, <1>2 DEF FreeOwnsNothing, IInv, TypeOK, Live
<1>a. /\ owned \in Owned /\ owned' \in Owned /\ Live \in SUBSET Overlays
      /\ owned'[o][n] = cost
      /\ \A p \in Overlays, q \in Names : p # o \/ q # n => owned'[p][q] = owned[p][q]
  BY <1>1, <1>2 DEF IInv, TypeOK, Owned
<1>4. ASSUME NEW d \in Dims
      PROVE  /\ live'[d] = Cardinality(Units(owned, Live, d)')
             /\ live'[d] \in Nat
  <2>1. Cardinality(Units(owned', Live, d)) = Cardinality(Units(owned, Live, d)) + (cost[d] - owned[o][n][d])
    BY ONLY <1>a, ChargeCell, o \in Live, n \in Names, cost \in Cost, d \in Dims
  <2>2. Units(owned, Live, d)' = Units(owned', Live, d)
    BY <1>1 DEF Units
  <2>3. live'[d] = live[d] + (cost[d] - owned[o][n][d])
    OBVIOUS
  <2>4. Cardinality(Units(owned', Live, d)) \in Nat
    BY <1>1, UnitsFinite
  <2> QED
    BY <2>1, <2>2, <2>3, <2>4 DEF IInv, Accounting
<1>5. ASSUME NEW d \in Dims, NEW p \in Overlays
      PROVE  /\ charged'[p][d] = Cardinality(Units(owned, {p}, d)')
             /\ charged'[p][d] \in Nat
  <2>1. CASE p = o
    <3>1. Cardinality(Units(owned', {p}, d)) = Cardinality(Units(owned, {p}, d)) + (cost[d] - owned[o][n][d])
      <4> DEFINE S == {p}
      <4>1. S \in SUBSET Overlays /\ o \in S
        BY <2>1
      <4> HIDE DEF S
      <4>2. Cardinality(Units(owned', S, d)) = Cardinality(Units(owned, S, d)) + (cost[d] - owned[o][n][d])
        BY ONLY <4>1, <1>a, ChargeCell, n \in Names, cost \in Cost, d \in Dims
      <4> QED
        BY <4>2 DEF S
    <3>2. charged'[p][d] = charged[p][d] + (cost[d] - owned[o][n][d])
      BY <2>1 DEF IInv, TypeOK
    <3>3. Cardinality(Units(owned', {p}, d)) \in Nat
      BY UnitsFinite
    <3> QED
      BY <3>1, <3>2, <3>3, Zenon DEF IInv, Accounting
  <2>2. CASE p # o
    <3>1. Units(owned, {p}, d)' = Units(owned, {p}, d)
      BY <2>2 DEF Units, IInv, TypeOK
    <3>2. charged'[p][d] = charged[p][d]
      BY <2>2 DEF IInv, TypeOK
    <3> QED
      BY <3>1, <3>2 DEF IInv, TypeOK, Accounting
  <2> QED
    BY <2>1, <2>2
<1>6. live' \in [Dims -> Nat] /\ charged' \in [Overlays -> [Dims -> Nat]]
  BY <1>4, <1>5, Zenon DEF IInv, TypeOK
<1> QED
  BY <1>2, <1>3, <1>4, <1>5, <1>6, Zenon DEF Budget, Accounting, StorageType

\* release: what a live overlay owned is returned.
LEMMA OverlayReleased ==
  ASSUME IInv, NEW t \in Live, Release(t),
         \A p \in Overlays \ {t} : pc'[p] = "free" => pc[p] = "free"
  PROVE  Budget' /\ StorageType'
<1> USE DEF Release, ReleaseCrediting
<1>1. t \in Overlays /\ Live \subseteq Overlays
  BY DEF Live
<1>2. OwnsNothing \in [Names -> Cost] /\ NoCost \in [Dims -> Nat]
  BY StorageAssumption DEF OwnsNothing, NoCost, Cost
<1>3. owned' \in Owned /\ FreeOwnsNothing'
  BY <1>1, <1>2 DEF FreeOwnsNothing, IInv, TypeOK, Owned
<1>4. ASSUME NEW d \in Dims
      PROVE  /\ live'[d] = Cardinality(Units(owned, Live, d)')
             /\ live'[d] \in Nat
  <2> DEFINE A == Units(owned, Live, d)
             B == Units(owned, {t}, d)
             C == Units(owned, Live, d)'
  <2>1. \A p \in Overlays, q \in Names :
          owned'[p][q][d] = IF p = t THEN 0 ELSE owned[p][q][d]
    BY <1>1 DEF IInv, TypeOK, OwnsNothing, NoCost
  <2>2. \A p \in Overlays, q \in Names : owned'[p][q][d] # 0 => p \in Live /\ p \in Live'
    BY <1>1, <2>1 DEF Live, IInv, FreeOwnsNothing, OwnsNothing, NoCost
  <2>3. A = C \cup B /\ C \cap B = {}
    <3>1. C = {u \in Live' \X (Names \X (1..MaxCharge)) : u[2][2] <= owned'[u[1]][u[2][1]][d]}
      BY DEF Units
    <3>2. \A u \in Overlays \X (Names \X (1..MaxCharge)) :
            /\ u \in C <=> u[2][2] <= owned[u[1]][u[2][1]][d] /\ u[1] # t
            /\ u \in B <=> u[2][2] <= owned[u[1]][u[2][1]][d] /\ u[1] = t
            /\ u \in A <=> u[2][2] <= owned[u[1]][u[2][1]][d]
      BY <1>1, <2>1, <2>2, <3>1, StorageAssumption
      DEF Units, Live, IInv, FreeOwnsNothing, OwnsNothing, NoCost
    <3>3. /\ A \subseteq Overlays \X (Names \X (1..MaxCharge))
          /\ B \subseteq Overlays \X (Names \X (1..MaxCharge))
          /\ C \subseteq Overlays \X (Names \X (1..MaxCharge))
      BY <1>1 DEF Units, Live
    <3> HIDE DEF A, B, C
    <3> QED
      BY <3>2, <3>3
  <2>4. IsFiniteSet(A) /\ IsFiniteSet(B) /\ IsFiniteSet(C)
    <3>1. IsFiniteSet(A) /\ IsFiniteSet(B)
      BY <1>1, UnitsFinite
    <3> QED
      BY <2>3, <3>1, FS_Subset, Zenon
  <2>5. live'[d] = live[d] - charged[t][d]
    OBVIOUS
  <2>6. live[d] = Cardinality(A) /\ charged[t][d] = Cardinality(B)
    BY <1>1 DEF IInv, Accounting
  <2> HIDE DEF A, B
  <2> HIDE DEF C
  <2>7. Cardinality(A) = Cardinality(C) + Cardinality(B)
    BY <2>3, <2>4, DisjointUnion
  <2>8. Cardinality(C) \in Nat /\ Cardinality(B) \in Nat
    BY <2>4, FS_CardinalityType
  <2> QED
    BY <2>5, <2>6, <2>7, <2>8 DEF C
<1>5. ASSUME NEW d \in Dims, NEW p \in Overlays
      PROVE  /\ charged'[p][d] = Cardinality(Units(owned, {p}, d)')
             /\ charged'[p][d] \in Nat
  <2>1. CASE p = t
    <3>1. charged'[p][d] = 0
      BY <1>1, <2>1 DEF IInv, TypeOK, NoCost
    <3>2. Units(owned, {p}, d)' = {}
      BY <1>1, <2>1 DEF Units, IInv, TypeOK, OwnsNothing, NoCost
    <3> QED
      <4>1. Cardinality({}) = 0
        BY FS_EmptySet
      <4>2. Cardinality(Units(owned, {p}, d)') = 0
        BY ONLY <3>2, <4>1, Zenon
      <4> QED
        BY ONLY <3>1, <4>2
  <2>2. CASE p # t
    <3>1. Units(owned, {p}, d)' = Units(owned, {p}, d)
      BY <2>2 DEF Units, IInv, TypeOK
    <3>2. charged'[p][d] = charged[p][d]
      BY <2>2 DEF IInv, TypeOK
    <3> QED
      BY <3>1, <3>2 DEF IInv, TypeOK, Accounting
  <2> QED
    BY <2>1, <2>2
<1>6. live' \in [Dims -> Nat] /\ charged' \in [Overlays -> [Dims -> Nat]]
  BY <1>2, <1>4, <1>5, Zenon DEF IInv, TypeOK
<1> QED
  BY <1>3, <1>4, <1>5, <1>6, Zenon DEF Budget, Accounting, StorageType, Owned

-----------------------------------------------------------------------------
\* What a declared variable is charged is a cost.
LEMMA VarCostType ==
  ASSUME NEW n \in Names, NEW len \in Lens
  PROVE  VarCost(n, len) \in Cost
BY StorageAssumption DEF VarCost, Cost, Lens, Dims

\* What an overlay shows, and what a new one starts with, is an environment.
LEMMA EnvType ==
  /\ NoEnv \in Env /\ NoCost \in Cost /\ OwnsNothing \in [Names -> Cost] /\ NoView \in View
  /\ TypeOK => \A o \in Overlays : Get(o) \in Env
<1>1. NoEnv \in Env
  BY DEF NoEnv, Env
<1>2. NoCost \in Cost /\ OwnsNothing \in [Names -> Cost]
  BY StorageAssumption DEF NoCost, OwnsNothing, Cost
<1>3. NoView \in View
  BY <1>1, <1>2 DEF NoView, View
<1>4. ASSUME TypeOK, NEW o \in Overlays
      PROVE  Get(o) \in Env
  BY <1>4 DEF TypeOK, Get, Env
<1> QED
  BY <1>1, <1>2, <1>3, <1>4

\* The inline assignments of a command form a sequence.
LEMMA AssignsType == Assigns \subseteq Seq(Names \X Lens)
BY StorageAssumption DEF Assigns

\* Set keeps the budget exact whether it admits or rejects.
LEMMA SetKeeps ==
  ASSUME IInv, NEW o \in Live, NEW n \in Names, NEW len \in Lens, Set(o, n, len),
         \A p \in Overlays : pc'[p] = "free" <=> pc[p] = "free"
  PROVE  /\ Budget' /\ StorageType'
         /\ values' \in [Overlays -> Env] /\ exiting' \in SUBSET Overlays
<1>0. o \in Overlays
  BY DEF Live
<1>1. CASE Rejects(o, n, VarCost(n, len))
  <2>1. UNCHANGED <<storage, values>> /\ exiting' = exiting \cup {o}
    BY <1>1 DEF Set
  <2> QED
    BY <1>0, <2>1, NothingCharged DEF IInv, TypeOK
<1>2. CASE ~Rejects(o, n, VarCost(n, len))
  <2>1. Own(o, n, VarCost(n, len)) /\ Store(o, n, len) /\ UNCHANGED exiting
    BY <1>2 DEF Set
  <2>2. values' \in [Overlays -> Env] /\ exiting' \in SUBSET Overlays
    BY <1>0, <2>1 DEF Store, IInv, TypeOK, Env
  <2>3. VarCost(n, len) \in Cost
    BY VarCostType
  <2> QED
    BY <2>1, <2>2, <2>3, CellCharged
<1> QED
  BY <1>1, <1>2

OtherType ==
  /\ pc \in [Overlays -> PCs]
  /\ parent \in [Overlays -> Overlays]
  /\ inherited \in [Overlays -> Env]
  /\ values \in [Overlays -> Env]
  /\ exiting \in SUBSET Overlays
  /\ call \in [Overlays -> Seq(Names \X Lens)]
  /\ at \in [Overlays -> Nat \ {0}]
  /\ snaps \in [Overlays -> Seq(Snapshot)]
  /\ prevOLDPWD \in [Overlays -> Lens \cup {Absent}]
  /\ before \in [Overlays -> View]

\* The initial state is typed and charges nothing.
LEMMA InitIInv == Init => IInv
<1> SUFFICES ASSUME Init PROVE IInv
  OBVIOUS
<1>1. StorageType
  BY EnvType, StorageAssumption DEF Init, StorageType, NoCost
<1>2. OtherType
  BY EnvType, StorageAssumption DEF Init, OtherType, PCs, Env
<1>3. FreeOwnsNothing
  BY DEF Init, FreeOwnsNothing
<1>4. \A S \in SUBSET Overlays, d \in Dims : Units(owned, S, d) = {}
  BY DEF Init, Units, OwnsNothing, NoCost
<1>5. \A o \in Overlays : {o} \in SUBSET Overlays
  OBVIOUS
<1>6. Live \in SUBSET Overlays
  BY DEF Live
<1>7. \A d \in Dims : live[d] = 0 /\ \A o \in Overlays : charged[o][d] = 0
  BY DEF Init, NoCost
<1>8. Cardinality({}) = 0
  BY FS_EmptySet
<1>9. Accounting
  BY <1>4, <1>5, <1>6, <1>7, <1>8 DEF Accounting
<1> QED
  BY <1>1, <1>2, <1>3, <1>9 DEF IInv, TypeOK, StorageType, OtherType

\* Every step keeps the variables typed and the budget exact.
LEMMA NextIInv == IInv /\ [Next]_vars => IInv'
<1> SUFFICES ASSUME IInv, [Next]_vars PROVE IInv'
  OBVIOUS
<1> DEFINE Good == Budget' /\ StorageType' /\ OtherType'
           SameLive == \A p \in Overlays : pc'[p] = "free" <=> pc[p] = "free"
<1>a. IInv => TypeOK /\ OtherType
  BY DEF IInv, TypeOK, OtherType
<1>b. Good => IInv'
  BY DEF IInv, TypeOK, Budget, StorageType, OtherType
<1>c. \A o \in Overlays : Get(o) \in Env
  BY <1>a, EnvType
<1>d. \A o \in Overlays : pc[o] # "free" => o \in Live
  BY DEF Live
<1>f. ASSUME NEW o \in Overlays, NEW as \in Seq(Names \X Lens)
      PROVE  [call EXCEPT ![o] = as] \in [Overlays -> Seq(Names \X Lens)]
  BY <1>a, Zenon DEF OtherType
<1>g. <<>> \in Seq(Names \X Lens) /\ 1 \in Nat \ {0}
  OBVIOUS
<1>1. ASSUME NEW o \in Overlays, NEW n \in Names, NEW len \in Lens, Assign(o, n, len)
      PROVE  Good
  <2>1. o \in Live /\ SameLive /\ Set(o, n, len)
    BY <1>1, <1>d DEF Assign
  <2>2. OtherType'
    BY <1>1, <1>a, <2>1, SetKeeps DEF Assign, OtherType, tree, locals
  <2> QED
    BY <2>1, <2>2, SetKeeps
<1>2. ASSUME NEW o \in Overlays, NEW c \in Overlays, Subshell(o, c)
      PROVE  Good
  <2>1. UNCHANGED storage /\ \A p \in Overlays : pc'[p] = "free" => pc[p] = "free"
    BY <1>2, <1>a DEF Subshell, Goto, OtherType
  <2>2. OtherType'
    BY <1>2, <1>a, <1>c DEF Subshell, Goto, OtherType, PCs, locals
  <2> QED
    BY <2>1, <2>2, NothingCharged
<1>3. ASSUME NEW o \in Overlays, NEW l \in Overlays, NEW r \in Overlays, Pipe(o, l, r)
      PROVE  Good
  <2>1. UNCHANGED storage /\ \A p \in Overlays : pc'[p] = "free" => pc[p] = "free"
    BY <1>3, <1>a DEF Pipe, OtherType
  <2>2. OtherType'
    BY <1>3, <1>a, <1>c, Zenon DEF Pipe, OtherType, PCs, locals
  <2> QED
    BY <2>1, <2>2, NothingCharged
<1>4. ASSUME NEW c \in Overlays, Finish(c)
      PROVE  Good
  <2>1. /\ c \in Live /\ Release(c)
        /\ \A p \in Overlays \ {c} : pc'[p] = "free" => pc[p] = "free"
    BY <1>4, <1>a, <1>d DEF Finish, Goto, OtherType
  <2>3. pc' \in [Overlays -> PCs] /\ exiting' \in SUBSET Overlays
    BY <1>4, <1>a DEF Finish, Goto, OtherType, PCs
  <2>4. parent' \in [Overlays -> Overlays] /\ inherited' \in [Overlays -> Env]
    BY <1>4, <1>a, EnvType, StorageAssumption DEF Finish, Detach, OtherType
  <2>5. values' \in [Overlays -> Env]
    BY <1>4, <1>a, EnvType DEF Finish, Release, ReleaseCrediting, OtherType
  <2>2. OtherType'
    BY <1>4, <1>a, <2>3, <2>4, <2>5 DEF Finish, OtherType, locals
  <2> QED
    BY <2>1, <2>2, OverlayReleased
<1>5. ASSUME NEW o \in Overlays, NEW t \in Overlays, NEW as \in Assigns, BeginCall(o, t, as)
      PROVE  Good
  <2>1. UNCHANGED storage /\ \A p \in Overlays : pc'[p] = "free" => pc[p] = "free"
    BY <1>5, <1>a DEF BeginCall, OtherType
  <2>2. call' \in [Overlays -> Seq(Names \X Lens)]
    BY <1>5, <1>f, AssignsType, Zenon DEF BeginCall
  <2>4. pc' \in [Overlays -> PCs] /\ parent' \in [Overlays -> Overlays]
    BY <1>5, <1>a, Zenon DEF BeginCall, OtherType, PCs
  <2>5. inherited' \in [Overlays -> Env] /\ at' \in [Overlays -> Nat \ {0}]
    BY <1>5, <1>a, <1>c, <1>g DEF BeginCall, OtherType
  <2>3. OtherType'
    BY <1>5, <1>a, <2>2, <2>4, <2>5, Zenon DEF BeginCall, OtherType
  <2> QED
    BY <2>1, <2>3, NothingCharged
<1>e. ASSUME NEW o \in Overlays, at[o] <= Len(call[o])
      PROVE  call[o][at[o]][1] \in Names /\ call[o][at[o]][2] \in Lens
  <2>1. call[o] \in Seq(Names \X Lens) /\ at[o] \in 1..Len(call[o])
    BY <1>e, <1>a DEF OtherType
  <2>2. call[o][at[o]] \in Names \X Lens
    BY <2>1
  <2> QED
    BY <2>2
<1>6. ASSUME NEW t \in Overlays, EvalInline(t)
      PROVE  Good
  <2> DEFINE o == parent[t]
  <2>1. /\ o \in Overlays /\ t \in Live /\ SameLive /\ at[o] <= Len(call[o])
        /\ Set(t, call[o][at[o]][1], call[o][at[o]][2])
    BY <1>6, <1>a, <1>d DEF EvalInline, OtherType
  <2>2. Budget' /\ StorageType' /\ values' \in [Overlays -> Env] /\ exiting' \in SUBSET Overlays
    BY <2>1, <1>e, SetKeeps
  <2>3. at' \in [Overlays -> Nat \ {0}]
    BY <1>6, <1>a DEF EvalInline, OtherType
  <2> QED
    BY <1>6, <1>a, <2>2, <2>3 DEF EvalInline, OtherType, tree
<1>7. ASSUME NEW t \in Overlays, EndInline(t)
      PROVE  Good
  <2>1. /\ t \in Live /\ Release(t)
        /\ \A p \in Overlays \ {t} : pc'[p] = "free" => pc[p] = "free"
    BY <1>7, <1>a, <1>d DEF EndInline, OtherType
  <2>2. parent[t] \in Overlays
    BY <1>a DEF OtherType
  <2>3. call' \in [Overlays -> Seq(Names \X Lens)]
    BY <1>7, <1>a, <1>f, <1>g, <2>2, ZenonT(40) DEF EndInline, Return, OtherType
  <2>4. pc' \in [Overlays -> PCs] /\ exiting' \in SUBSET Overlays
    BY <1>7, <1>a, <2>2, Zenon DEF EndInline, OtherType, PCs
  <2>5. OtherType'
    BY <1>7, <1>a, <1>g, <2>2, <2>3, <2>4, EnvType, StorageAssumption, Zenon
    DEF EndInline, Detach, Release, ReleaseCrediting, OtherType
  <2> QED
    BY <2>1, <2>5, OverlayReleased
<1>8. ASSUME NEW o \in Overlays, EndRedirs(o)
      PROVE  Good
  <2>1. UNCHANGED storage /\ \A p \in Overlays : pc'[p] = "free" => pc[p] = "free"
    BY <1>8, <1>a DEF EndRedirs, Goto, OtherType
  <2>2. [env |-> Get(o), owned |-> owned[o]] \in View
    BY <1>c DEF View, IInv, TypeOK
  <2>3. call' \in [Overlays -> Seq(Names \X Lens)]
    BY <1>8, <1>a, <1>f, <1>g, ZenonT(40) DEF EndRedirs, Return, OtherType
  <2>4. before' \in [Overlays -> View]
    BY <1>8, <1>a, <2>2, Zenon DEF EndRedirs, OtherType
  <2>6. pc' \in [Overlays -> PCs]
    BY <1>8, <1>a, ZenonT(40) DEF EndRedirs, Goto, OtherType, PCs
  <2>5. OtherType'
    BY <1>8, <1>a, <2>3, <2>4, <2>6 DEF EndRedirs, OtherType, tree
  <2> QED
    BY <2>1, <2>5, NothingCharged
<1>9. ASSUME NEW o \in Overlays, Install(o)
      PROVE  Good
  <2> DEFINE n == call[o][at[o]][1]
             len == call[o][at[o]][2]
  <2>1. o \in Live /\ SameLive /\ n \in Names /\ len \in Lens /\ Set(o, n, len)
    BY <1>9, <1>d, <1>e DEF Install
  <2>2. Budget' /\ StorageType' /\ values' \in [Overlays -> Env] /\ exiting' \in SUBSET Overlays
    BY <2>1, SetKeeps
  <2>3. Saved(o, n) \in Snapshot
    BY <2>1 DEF Saved, Snapshot, IInv, TypeOK, Env
  <2>4. snaps' \in [Overlays -> Seq(Snapshot)]
    <3>1. Append(snaps[o], Saved(o, n)) \in Seq(Snapshot) /\ snaps[o] \in Seq(Snapshot)
      BY <2>3, <1>a DEF OtherType
    <3> QED
      BY <1>9, <1>a, <3>1 DEF Install, SnapshotBinding, OtherType
  <2>5. at' \in [Overlays -> Nat \ {0}]
    BY <1>9, <1>a DEF Install, OtherType
  <2>6. UNCHANGED <<pc, parent, inherited, call, prevOLDPWD, before>>
    BY <1>9 DEF Install, tree
  <2> QED
    BY <1>a, <2>2, <2>4, <2>5, <2>6 DEF OtherType
<1>10. ASSUME NEW o \in Overlays, StartCommand(o) \/ EndCommand(o)
       PROVE  Good
  <2>1. UNCHANGED storage /\ \A p \in Overlays : pc'[p] = "free" => pc[p] = "free"
    BY <1>10, <1>a DEF StartCommand, EndCommand, Goto, OtherType
  <2>2. OtherType'
    BY <1>10, <1>a, Zenon DEF StartCommand, EndCommand, Goto, OtherType, PCs, tree, locals
  <2> QED
    BY <2>1, <2>2, NothingCharged
<1>11. ASSUME NEW o \in Overlays, NEW n \in Names, NEW len \in Lens \cup {Absent}, NEW cost \in Cost,
              o \in Live, Own(o, n, cost), Store(o, n, len), SameLive
       PROVE  Budget' /\ StorageType' /\ values' \in [Overlays -> Env]
  <2>1. values' \in [Overlays -> Env]
    BY <1>11, <1>a DEF Store, OtherType, Env
  <2> QED
    BY <1>11, <2>1, CellCharged
<1>h. PWD \in Names /\ OLDPWD \in Names
  BY StorageAssumption
<1>12. ASSUME NEW o \in Overlays, NEW dir \in Lens, CdOldPwd(o, dir)
       PROVE  Good
  <2>0. o \in Live /\ SameLive
    BY <1>12, <1>a, <1>d DEF CdOldPwd, Goto, OtherType
  <2>1. Get(o)[OLDPWD] \in Lens \cup {Absent}
    BY <1>c, <1>h DEF Env
  <2>2. /\ pc' \in [Overlays -> PCs] /\ prevOLDPWD' \in [Overlays -> Lens \cup {Absent}]
        /\ UNCHANGED <<tree, exiting, call, at, snaps, before>>
    <3>1. pc' \in [Overlays -> PCs]
      BY <1>12, <1>a DEF CdOldPwd, Goto, OtherType, PCs
    <3>2. prevOLDPWD' \in [Overlays -> Lens \cup {Absent}]
      BY <1>12, <1>a, <2>1 DEF CdOldPwd, OtherType
    <3> QED
      BY <1>12, <3>1, <3>2 DEF CdOldPwd
  <2>3. Budget' /\ StorageType' /\ values' \in [Overlays -> Env]
    <3>1. CASE UNCHANGED <<values, storage>>
      BY <3>1, <1>a, <2>0, NothingCharged DEF OtherType
    <3>2. CASE Own(o, OLDPWD, VarCost(OLDPWD, dir)) /\ Store(o, OLDPWD, dir)
      BY <3>2, <1>11, <1>h, <2>0, VarCostType
    <3> QED
      BY <1>12, <3>1, <3>2 DEF CdOldPwd
  <2> QED
    BY <1>a, <2>2, <2>3 DEF OtherType, tree
<1>13. ASSUME NEW o \in Overlays, NEW dir \in Lens, CdPwd(o, dir)
       PROVE  Good
  <2>0. o \in Live /\ SameLive
    BY <1>13, <1>a, <1>d DEF CdPwd, Goto, OtherType
  <2>2. pc' \in [Overlays -> PCs] /\ UNCHANGED <<tree, exiting, locals>>
    BY <1>13, <1>a, Zenon DEF CdPwd, Goto, OtherType, PCs
  <2>3. Budget' /\ StorageType' /\ values' \in [Overlays -> Env]
    <3>1. CASE UNCHANGED <<values, storage>>
      BY <3>1, <1>a, <2>0, NothingCharged DEF OtherType
    <3>2. CASE Own(o, PWD, VarCost(PWD, dir)) /\ Store(o, PWD, dir)
      BY <3>2, <1>11, <1>h, <2>0, VarCostType
    <3> QED
      BY <1>13, <3>1, <3>2 DEF CdPwd
  <2> QED
    BY <1>a, <2>2, <2>3 DEF OtherType, tree, locals
<1>14. ASSUME NEW o \in Overlays, CdUndo(o)
       PROVE  Good
  <2> DEFINE len == prevOLDPWD[o]
             cost == IF len = Absent THEN NoCost ELSE VarCost(OLDPWD, len)
  <2>1. o \in Live /\ SameLive /\ len \in Lens \cup {Absent}
    BY <1>14, <1>a, <1>d DEF CdUndo, Goto, OtherType
  <2>2. cost \in Cost
    BY <2>1, <1>h, VarCostType, EnvType
  <2>3. Own(o, OLDPWD, cost) /\ Store(o, OLDPWD, len)
    BY <1>14 DEF CdUndo, SetUncapped
  <2>4. Budget' /\ StorageType' /\ values' \in [Overlays -> Env]
    <3> HIDE DEF cost, len
    <3> QED
      BY <2>1, <2>2, <2>3, <1>11, <1>h
  <2> QED
    BY <1>14, <1>a, <2>4 DEF CdUndo, Goto, OtherType, PCs, tree, locals
<1>15. ASSUME NEW o \in Overlays, Restore(o)
       PROVE  Good
  <2> DEFINE snap == Head(snaps[o])
  <2>1. o \in Live /\ SameLive
    BY <1>15, <1>d DEF Restore
  <2>2. snap \in Snapshot /\ Tail(snaps[o]) \in Seq(Snapshot)
    BY <1>15, <1>a DEF Restore, OtherType
  <2>3. snap.name \in Names /\ snap.value \in Lens \cup {Absent} /\ snap.owned \in Cost
    BY <2>2 DEF Snapshot
  <2>4. Budget' /\ StorageType' /\ values' \in [Overlays -> Env]
    <3>1. CASE UNCHANGED <<values, storage>>
      BY <3>1, <1>a, <2>1, NothingCharged DEF OtherType
    <3>2. CASE Own(o, snap.name, snap.owned) /\ Store(o, snap.name, snap.value)
      BY <3>2, <1>11, <2>1, <2>3
    <3> QED
      BY <1>15, <3>1, <3>2, Zenon DEF Restore, RestoreBinding
  <2>5. snaps' \in [Overlays -> Seq(Snapshot)]
    BY <1>15, <1>a, <2>2 DEF Restore, OtherType
  <2> QED
    BY <1>15, <1>a, <2>4, <2>5 DEF Restore, OtherType, tree
<1>16. ASSUME NEW o \in Overlays, EndCall(o)
       PROVE  Good
  <2>1. UNCHANGED storage /\ \A p \in Overlays : pc'[p] = "free" => pc[p] = "free"
    BY <1>16, <1>a DEF EndCall, Goto, OtherType
  <2>2. call' \in [Overlays -> Seq(Names \X Lens)]
    BY <1>16, <1>f, <1>g, Zenon DEF EndCall, Return
  <2>3. OtherType'
    BY <1>16, <1>a, <1>g, <2>2, EnvType DEF EndCall, Goto, OtherType, PCs, tree
  <2> QED
    BY <2>1, <2>3, NothingCharged
<1>17. ASSUME UNCHANGED vars
       PROVE  Good
  <2>1. UNCHANGED storage /\ \A p \in Overlays : pc'[p] = "free" => pc[p] = "free"
    BY <1>17 DEF vars
  <2>2. OtherType'
    BY <1>17, <1>a DEF vars, OtherType, tree, locals
  <2> QED
    BY <2>1, <2>2, NothingCharged
<1> HIDE DEF Good
<1> QED
  BY <1>b, <1>1, <1>2, <1>3, <1>4, <1>5, <1>6, <1>7, <1>8, <1>9, <1>10, <1>12, <1>13,
     <1>14, <1>15, <1>16, <1>17 DEF Next

\* The variables keep their types and the run-wide budget is exact in every
\* reachable state: own, restoreBinding, setUncapped and release never let it
\* drift, whatever the interleaving of pipeline stages.
THEOREM StorageInvariant == Spec => []IInv
<1>1. Init => IInv
  BY InitIInv
<1>2. IInv /\ [Next]_vars => IInv'
  BY NextIInv
<1> QED
  BY <1>1, <1>2, PTL DEF Spec

\* The budget is always the sum of what live overlays own (varStorageBudget).
THEOREM AccountingAlwaysExact == Spec => []Accounting
<1>1. IInv => Accounting
  BY DEF IInv
<1> QED
  BY <1>1, StorageInvariant, PTL

-----------------------------------------------------------------------------
Undoes(o) == pc[o] \in {"cdUndo", "restore", "keepPwd"} /\ owned'[o] # owned[o]

Capped == \A d \in Dims : live'[d] > Caps[d] => live'[d] <= live[d] \/ \E o \in Overlays : Undoes(o)

\* Set and changeDir: a charge that is not rejected stays within the caps or
\* charges no more than before.
LEMMA AdmittedIsCapped ==
  ASSUME IInv, NEW o \in Overlays, NEW n \in Names, NEW cost \in Cost,
         ~Rejects(o, n, cost), Own(o, n, cost)
  PROVE  Capped
<1> SUFFICES ASSUME NEW d \in Dims, live'[d] > Caps[d]
             PROVE  live'[d] <= live[d]
  BY DEF Capped
<1>1. live' = After(o, n, cost) /\ live'[d] = live[d] + (cost[d] - owned[o][n][d])
  BY DEF Own, Charge, After
<1>2. ExceedsCaps(After(o, n, cost))
  BY <1>1 DEF ExceedsCaps
<1>3. ~(cost[d] > owned[o][n][d])
  BY <1>2 DEF Rejects, Grows
<1>4. live[d] \in Nat /\ cost[d] \in Int /\ owned[o][n][d] \in Int
  BY StorageAssumption DEF IInv, TypeOK, Cost
<1> QED
  BY <1>1, <1>3, <1>4

\* restoreBinding and setVarRestore: what raises the total changes what the
\* overlay that puts back owns.
LEMMA PutBackIsCapped ==
  ASSUME IInv, NEW o \in Overlays, NEW n \in Names, NEW cost \in Cost,
         pc[o] \in {"cdUndo", "restore", "keepPwd"}, Own(o, n, cost)
  PROVE  Capped
<1> SUFFICES ASSUME NEW d \in Dims, ~(live'[d] <= live[d])
             PROVE  Undoes(o)
  BY DEF Capped
<1>1. live'[d] = live[d] + (cost[d] - owned[o][n][d]) /\ owned' = [owned EXCEPT ![o][n] = cost]
  BY DEF Own, Charge, After
<1>2. live[d] \in Nat /\ cost[d] \in Int /\ owned[o][n][d] \in Int
  BY StorageAssumption DEF IInv, TypeOK, Cost
<1>3. cost[d] # owned[o][n][d]
  BY <1>1, <1>2
<1>4. owned'[o][n] = cost
  BY <1>1 DEF IInv, TypeOK
<1> QED
  BY <1>3, <1>4 DEF Undoes

\* Every step of the run respects the caps.
LEMMA StepIsCapped == IInv /\ [Next]_vars => Capped \/ UNCHANGED vars
<1> SUFFICES ASSUME IInv, Next PROVE Capped
  OBVIOUS
<1>0. /\ live \in [Dims -> Nat] /\ charged \in [Overlays -> [Dims -> Nat]]
      /\ parent \in [Overlays -> Overlays] /\ PWD \in Names /\ OLDPWD \in Names
      /\ \A d \in Dims : Caps[d] \in Nat
  BY StorageAssumption DEF IInv, TypeOK
<1>1. ASSUME UNCHANGED live PROVE Capped
  BY <1>0, <1>1 DEF Capped
<1>2. ASSUME NEW o \in Overlays, Release(o) PROVE Capped
  BY <1>0, <1>2 DEF Release, ReleaseCrediting, Capped
<1>3. ASSUME NEW o \in Overlays, NEW n \in Names, NEW len \in Lens, Set(o, n, len) PROVE Capped
  BY <1>1, <1>3, AdmittedIsCapped, VarCostType DEF Set, storage
<1>4. ASSUME NEW o \in Overlays, at[o] <= Len(call[o])
      PROVE  call[o][at[o]][1] \in Names /\ call[o][at[o]][2] \in Lens
  <2>1. call[o] \in Seq(Names \X Lens) /\ at[o] \in 1..Len(call[o])
    BY <1>4 DEF IInv, TypeOK
  <2>2. call[o][at[o]] \in Names \X Lens
    BY <2>1
  <2> QED
    BY <2>2
<1>5. ASSUME NEW o \in Overlays, NEW n \in Names, NEW len \in Lens, Assign(o, n, len) PROVE Capped
  BY <1>3, <1>5 DEF Assign
<1>6. ASSUME NEW o \in Overlays, Finish(o) \/ EndInline(o) PROVE Capped
  BY <1>2, <1>6 DEF Finish, EndInline
<1>7. ASSUME NEW o \in Overlays, EvalInline(o) \/ Install(o) PROVE Capped
  BY <1>0, <1>3, <1>4, <1>7 DEF EvalInline, Install
<1>8. ASSUME NEW o \in Overlays, NEW dir \in Lens, CdOldPwd(o, dir) \/ CdPwd(o, dir) PROVE Capped
  BY <1>0, <1>1, <1>8, AdmittedIsCapped, VarCostType DEF CdOldPwd, CdPwd, storage
<1>9. ASSUME NEW o \in Overlays, CdUndo(o) PROVE Capped
  <2>1. prevOLDPWD[o] \in Lens \cup {Absent}
    BY DEF IInv, TypeOK
  <2>2. (IF prevOLDPWD[o] = Absent THEN NoCost ELSE VarCost(OLDPWD, prevOLDPWD[o])) \in Cost
    BY <1>0, <2>1, VarCostType, EnvType
  <2> QED
    BY <1>0, <1>9, <2>2, PutBackIsCapped, Zenon DEF CdUndo, SetUncapped
<1>10. ASSUME NEW o \in Overlays, Restore(o) PROVE Capped
  <2>1. Head(snaps[o]) \in Snapshot
    BY <1>10 DEF Restore, IInv, TypeOK
  <2>2. Head(snaps[o]).name \in Names /\ Head(snaps[o]).owned \in Cost
    BY <2>1 DEF Snapshot
  <2>3. pc[o] \in {"cdUndo", "restore", "keepPwd"}
    BY <1>10 DEF Restore
  <2>4. CASE UNCHANGED <<values, storage>>
    BY <2>4, <1>1 DEF storage
  <2>5. CASE Own(o, Head(snaps[o]).name, Head(snaps[o]).owned)
    BY <2>2, <2>3, <2>5, PutBackIsCapped
  <2> QED
    BY <1>10, <2>4, <2>5 DEF Restore, RestoreBinding
<1>11. ASSUME NEW o \in Overlays, EndRedirs(o) \/ StartCommand(o) \/ EndCommand(o) \/ EndCall(o)
       PROVE  Capped
  BY <1>1, <1>11 DEF EndRedirs, StartCommand, EndCommand, EndCall, storage
<1>12. ASSUME NEW o \in Overlays, NEW c \in Overlays, Subshell(o, c) PROVE Capped
  BY <1>1, <1>12 DEF Subshell, storage
<1>13. ASSUME NEW o \in Overlays, NEW l \in Overlays, NEW r \in Overlays, Pipe(o, l, r) PROVE Capped
  BY <1>1, <1>13 DEF Pipe, storage
<1>14. ASSUME NEW o \in Overlays, NEW t \in Overlays, NEW as \in Assigns, BeginCall(o, t, as) PROVE Capped
  BY <1>1, <1>14 DEF BeginCall, storage
<1> HIDE DEF Capped
<1> QED
  BY <1>5, <1>6, <1>7, <1>8, <1>9, <1>10, <1>11, <1>12, <1>13, <1>14 DEF Next

\* Whatever the stages of a run assign concurrently, only putting back what was
\* there before raises the run-wide total above a cap (exceedsCaps).
THEOREM CapAlwaysEnforced == Spec => CapEnforced
<1>1. IInv /\ [Next]_vars =>
        [\A d \in Dims :
           live'[d] > Caps[d] =>
             \/ live'[d] <= live[d]
             \/ \E o \in Overlays :
                  pc[o] \in {"cdUndo", "restore", "keepPwd"} /\ owned'[o] # owned[o]]_vars
  BY StepIsCapped DEF Capped, Undoes
<1> QED
  BY <1>1, StorageInvariant, PTL DEF Spec, CapEnforced

=============================================================================
