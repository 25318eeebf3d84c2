---------------------------- MODULE MCVarStorage ----------------------------
(* VarStorage for model checking.                                          *)
EXTENDS VarStorage, TLC

CONSTANTS o0, o1, o2, pwd, oldpwd

MCThreeOverlays == {o0, o1, o2}
SymThree == Permutations({o1, o2})
MCNames == {pwd, oldpwd}
AnyEnv == [MCNames -> {Absent, 1}]
MCNameCost == [n \in MCNames |-> 1]
MCCaps == [d \in Dims |-> IF d = "values" THEN 1 ELSE 2]

=============================================================================
