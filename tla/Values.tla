------------------------------- MODULE Values -------------------------------
(* A value computed once and used in several places of an expression.        *)

Once(v, Op(_)) == Op(v)
=============================================================================
