------------------------------- MODULE MCKtp -------------------------------
(* Ktp on small instances. *)
EXTENDS Ktp

CONSTANTS user1, user2   \* model values: the sending and the receiving program

MCUser1 == {user1}
MCUser2 == {user2}
MCBoth  == {user1, user2}
=============================================================================
