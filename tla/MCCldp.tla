------------------------------- MODULE MCCldp -------------------------------
(* Cldp on small instances. *)
EXTENDS Cldp, TLC

CONSTANTS s1, s2, s3   \* model values

MCThree   == {s1, s2, s3}
Symmetric == Permutations(Servers)
=============================================================================
