-------------------------------- MODULE Call --------------------------------
(***************************************************************************)
(* One call of a part of the shell: what is called, which never changes,   *)
(* and how far it is.                                                      *)
(***************************************************************************)
EXTENDS Integers, Sequences, SequencesExt, FiniteSets, TLC, Values

VARIABLES call,   \* [tool, ...]: the call and the surroundings it finds
          run     \* the state of the call, a record with the field pc

(***************************************************************************)
(* The size of a replacement, charged before the result is built           *)
(* (builtins/internal/boundedreplace).  Used by xargs -I, find -exec and   *)
(* sed's s command.                                                        *)
(***************************************************************************)
\* strings.ReplaceAll and strings.Count; old is not empty.
RECURSIVE Substitute(_, _, _)
Substitute(s, old, new) ==
  IF s = <<>> THEN <<>>
  ELSE IF IsPrefix(old, s) THEN new \o Substitute(SubSeq(s, Len(old) + 1, Len(s)), old, new)
  ELSE <<Head(s)>> \o Substitute(Tail(s), old, new)

RECURSIVE CountOf(_, _)
CountOf(s, old) ==
  IF s = <<>> THEN 0
  ELSE IF IsPrefix(old, s) THEN 1 + CountOf(SubSeq(s, Len(old) + 1, Len(s)), old)
  ELSE CountOf(Tail(s), old)

NewBudget(limit) == [remaining |-> limit, exceeded |-> limit < 0]

Add(b, n) ==
  IF b.exceeded \/ n <= 0 THEN b
  ELSE IF n > b.remaining THEN [b EXCEPT !.exceeded = TRUE]
  ELSE [b EXCEPT !.remaining = @ - n]

AddMul(b, count, n) ==
  IF b.exceeded \/ count <= 0 \/ n <= 0 THEN b
  ELSE IF count > b.remaining \div n THEN [b EXCEPT !.exceeded = TRUE]
  ELSE Add(b, count * n)

AddReplaceAll(b, s, old, new) ==
  LET count == CountOf(s, old)
  IN  IF Len(new) <= Len(old) THEN Add(b, Len(s) - count * (Len(old) - Len(new)))
      ELSE AddMul(Add(b, Len(s)), count, Len(new) - Len(old))

\* A command line with old replaced in each word, each word with its terminator.
RECURSIVE AddLine(_, _, _, _)
AddLine(b, line, old, new) ==
  IF line = <<>> THEN b
  ELSE AddLine(Add(AddReplaceAll(b, Head(line), old, new), 1), Tail(line), old, new)
=============================================================================
