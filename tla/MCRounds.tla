------------------------------ MODULE MCRounds ------------------------------
(* Rounds on small instances. *)
EXTENDS Rounds

CONSTANTS c1, c2, c3   \* model values

MCClients == {c1, c2, c3}

(* The clients differ in nothing but their names, and accept takes the     *)
(* connections in the order in which they were made: behaviours in which   *)
(* the first to connect is c1, the next c2 and the last c3 are all there   *)
(* is, up to a renaming.                                                   *)
InOrder ==
  /\ link[c2] # "none" => link[c1] # "none"
  /\ link[c3] # "none" => link[c2] # "none"
  /\ clientsockfd = SubSeq(<<c1, c2, c3>>, 1, numclient)
=============================================================================
