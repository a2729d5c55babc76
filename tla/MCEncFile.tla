----------------------------- MODULE MCEncFile -----------------------------
(* EncFile on small instances. *)
EXTENDS EncFile

CONSTANTS k1, k2, x   \* model values

MCKeys  == {k1, k2}
MCTexts == {x}
=============================================================================
