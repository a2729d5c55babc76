---------------------------- MODULE NumberRounds ----------------------------
(***************************************************************************)
(* What the chat server of LT1 (set B) promises its clients: in every      *)
(* round each member gives one number, a round is over when all members,   *)
(* two at least, have given theirs, and its result is the largest of the   *)
(* numbers with a member who gave it.                                      *)
(***************************************************************************)
EXTENDS Integers

CONSTANTS
  Players,   \* who may take part
  Numbers,   \* what may be given
  NoNumber   \* nothing given yet

VARIABLES members,   \* who takes part
          given,     \* player -> the number given in this round, or NoNumber
          result     \* winner and number of the round that has just ended, if any

roundVars == <<members, given, result>>

RoundInit ==
  /\ members = {}
  /\ given = [p \in Players |-> NoNumber]
  /\ result = <<>>

Join(p) ==
  /\ p \notin members
  /\ members' = members \union {p}
  /\ result' = <<>>
  /\ UNCHANGED given

Give(p, n) ==
  /\ p \in members /\ given[p] = NoNumber
  /\ members # {p}
  /\ given' = [given EXCEPT ![p] = n]
  /\ result' = <<>>
  /\ UNCHANGED members

Finish ==
  /\ \A p \in members : given[p] # NoNumber
  /\ \E p, q \in members : p # q
  /\ \E p \in members :
       /\ \A q \in members : given[q] <= given[p]
       /\ result' = <<p, given[p]>>
  /\ given' = [p \in Players |-> NoNumber]
  /\ UNCHANGED members

RoundNext ==
  \/ \E p \in Players : Join(p) \/ \E n \in Numbers : Give(p, n)
  \/ Finish

RoundSpec == RoundInit /\ [][RoundNext]_roundVars
=============================================================================
