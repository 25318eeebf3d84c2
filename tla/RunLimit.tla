------------------------------ MODULE RunLimit ------------------------------
(***************************************************************************)
(* What a budget that the stages of a run share promises: a stage holds at *)
(* most one grant at a time, uses it or gives it back, and the grants used *)
(* and held together never exceed the limit.                               *)
(***************************************************************************)
EXTENDS Integers, FiniteSets

CONSTANTS Stages, Limit
VARIABLES used,   \* grants used so far
          held    \* stages that hold a grant

Init == used = 0 /\ held = {}

Take(s) ==
  /\ s \notin held
  /\ used + Cardinality(held) < Limit
  /\ held' = held \cup {s}
  /\ UNCHANGED used

Use(s) ==
  /\ s \in held
  /\ held' = held \ {s}
  /\ used' = used + 1

GiveBack(s) ==
  /\ s \in held
  /\ held' = held \ {s}
  /\ UNCHANGED used

Next == \E s \in Stages : Take(s) \/ Use(s) \/ GiveBack(s)

Spec == Init /\ [][Next]_<<used, held>>
=============================================================================
