------------------------------- MODULE MCSmtp -------------------------------
(* Smtp on small instances. *)
EXTENDS Smtp, TLC

CONSTANTS c1, c2, d1, d2, r1, other, none, torn   \* model values

MCOne     == {c1}
MCClients == {c1, c2}
MCDomain  == {d1}
MCDomains == {d1, d2}
MCBoxes   == {r1}
MCOthers  == {other}
Symmetric == Permutations(MCClients)

(* What the next steps and the properties depend on.  Left out is what is  *)
(* overwritten before it is read again: client_socket when no thread has   *)
(* still to read it, a sender before the first granted MAIL FROM of a      *)
(* message, a recipient before its RCPT TO; and which answer a client      *)
(* gets, since it does the same with each.                                 *)
Live ==
  <<files, open, thread, state, cpc, cmd, apc,
    IF apc = "create" \/ \E t \in Clients : pc[t] = "start" THEN client_socket ELSE None,
    [t \in Clients |-> IF state[t] >= 1 THEN email_domain[t] ELSE None],
    [t \in Clients |-> IF state[t] >= 2 THEN <<sender[t], refused[t]>> ELSE <<>>],
    [t \in Clients |-> IF state[t] = 3 THEN recipient[t] ELSE None],
    [c \in Clients |-> reply[c] # NoReply]>>
=============================================================================
