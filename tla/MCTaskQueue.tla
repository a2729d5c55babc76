---------------------------- MODULE MCTaskQueue ----------------------------
(* TaskQueue on small instances. *)
EXTENDS TaskQueue, TLC

CONSTANTS c1, c2, nobody   \* model values

MCClients == {c1, c2}
MCNoOne   == {}
MCOne     == {c1}
Symmetric == Permutations(MCClients)
=============================================================================
