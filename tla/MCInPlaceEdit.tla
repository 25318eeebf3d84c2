--------------------------- MODULE MCInPlaceEdit ---------------------------
(* InPlaceEdit for model checking: the operands of the commands.           *)
EXTENDS InPlaceEdit, TLC

CONSTANTS e1, f1

OneEditor == {e1}
\* sed -i SCRIPT f f
SameFileTwice == e1 :> <<f1, f1>>
\* A shorter file, and one of the old length.
SomeLengths == {1, 2}

=============================================================================
