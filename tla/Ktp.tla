--------------------------------- MODULE Ktp ---------------------------------
(***************************************************************************)
(* The KTP library of LA4.0 (stop and wait over UDP) between two sockets,  *)
(* and the programs user1 and user2 that move a file with it.  A datagram  *)
(* can be lost, duplicated and reordered.  A packet carries its sequence   *)
(* number in one char of the header while the sockets count in ints.       *)
(***************************************************************************)
EXTENDS Integers, Sequences

CONSTANTS
  A, B,        \* the endpoints, each with one bound KTP socket: user1 and user2
  Senders,     \* endpoints whose program calls k_sendto
  Receivers,   \* endpoints whose program calls k_recvfrom
  MaxChunks,   \* bound on the packets of a file, the final "#" included
  CharMax      \* CHAR_MAX, 127 on the machines where char is signed

Endpoints == {A, B}

ASSUME EndpointsAssumption == A # B /\ Senders \subseteq Endpoints
                                    /\ Receivers \subseteq Endpoints
ASSUME NumbersAssumption == MaxChunks \in Nat \ {0} /\ CharMax \in Nat \ {0}

Peer(e) == IF e = A THEN B ELSE A

(* A chunk of a file is known by its position. *)
Chunks  == [i \in 1..MaxChunks |-> i]
NoChunk == 0

(* The file a program transfers: the number of its packets, the last one   *)
(* being the "#", and the first of them that contains a "#".               *)
Files == {f \in [len : 1..MaxChunks, hash : 1..MaxChunks] : f.hash <= f.len}

(* pkt[0] = seqno: the int becomes a signed char.                          *)
Char == -(CharMax + 1)..CharMax
Half == CharMax + 1
HeaderUnsigned(n) == n % (2 * Half)           \* mutant: unsigned char
Header(n) == ((n + Half) % (2 * Half)) - Half

Packets == [to : Endpoints, seq : Char, kind : {"DATA", "ACK"}, chunk : 0..MaxChunks]

VARIABLES
  file,       \* the file read by the senders, fixed throughout
  next_seqno, last_ackno, exp_seqno,  \* the fields of the ktp_socket
  mode,       \* the call the program of an endpoint is in
  received,   \* the chunks k_recvfrom has returned to the program
  net         \* datagrams in flight or waiting in a socket buffer

sock == <<next_seqno, last_ackno, exp_seqno>>
vars == <<file, sock, mode, received, net>>

Modes == {"idle", "sending", "receiving", "closed"}
-----------------------------------------------------------------------------
(* Both programs have created and bound their socket. *)
Init ==
  /\ file \in Files
  /\ next_seqno = [e \in Endpoints |-> 1]
  /\ last_ackno = [e \in Endpoints |-> 0]
  /\ exp_seqno = [e \in Endpoints |-> 1]
  /\ mode = [e \in Endpoints |-> "idle"]
  /\ received = [e \in Endpoints |-> <<>>]
  /\ net = {}

(* The packet the current k_sendto of e transmits: chunk i of the file is  *)
(* sent by the i-th call.                                                  *)
DataPacket(e) == [to |-> Peer(e), seq |-> Header(next_seqno[e]), kind |-> "DATA",
                  chunk |-> next_seqno[e]]
AckPacket(e, s) == [to |-> Peer(e), seq |-> s, kind |-> "ACK", chunk |-> NoChunk]

Inbox(e) == {m \in net : m.to = e}

(* A datagram that is received may have a copy still on its way. *)
Taken(m) == {net \ {m}, net}
-----------------------------------------------------------------------------
(* k_sendto. *)

SentAll(e) == next_seqno[e] > file.len

CallSend(e) ==
  /\ e \in Senders /\ mode[e] = "idle" /\ ~SentAll(e)
  /\ mode' = [mode EXCEPT ![e] = "sending"]
  /\ net' = net \union {DataPacket(e)}
  /\ UNCHANGED <<file, sock, received>>

(* select returns 0 and the loop starts over with sendto. *)
ResendNothing(e) == FALSE /\ UNCHANGED vars  \* mutant: select waits without a timeout
Resend(e) ==
  /\ mode[e] = "sending"
  /\ net' = net \union {DataPacket(e)}
  /\ UNCHANGED <<file, sock, mode, received>>

MatchesAnyAck(e, m) == m.kind = "ACK"         \* mutant: next_seqno is not compared
Matches(e, m) == m.seq = next_seqno[e] /\ m.kind = "ACK"

SendAccepts(e, m) ==
  /\ mode[e] = "sending"
  /\ m \in Inbox(e) /\ Matches(e, m)
  /\ net' \in Taken(m)
  /\ last_ackno' = [last_ackno EXCEPT ![e] = next_seqno[e]]
  /\ next_seqno' = [next_seqno EXCEPT ![e] = @ + 1]
  /\ mode' = [mode EXCEPT ![e] = "idle"]
  /\ UNCHANGED <<file, exp_seqno, received>>

(* The datagram is dropped by dropMessage or is not the ack it waits for:  *)
(* the loop transmits again at once.                                       *)
SendIgnores(e, m) ==
  /\ mode[e] = "sending"
  /\ m \in Inbox(e)
  /\ \E left \in Taken(m) : net' = left \union {DataPacket(e)}
  /\ UNCHANGED <<file, sock, mode, received>>
-----------------------------------------------------------------------------
(* k_recvfrom.  Its timeout only starts another wait. *)

GotLast(e) == received[e] # <<>> /\ received[e][Len(received[e])] = file.hash

CallRecv(e) ==
  /\ e \in Receivers /\ mode[e] = "idle" /\ ~GotLast(e)
  /\ mode' = [mode EXCEPT ![e] = "receiving"]
  /\ UNCHANGED <<file, sock, received, net>>

RecvDrops(e, m) ==
  /\ mode[e] = "receiving"
  /\ m \in Inbox(e)
  /\ net' \in Taken(m)
  /\ UNCHANGED <<file, sock, mode, received>>

ExpectedAny(e, m) == m.kind = "DATA"              \* mutant: exp_seqno is not compared
Expected(e, m) == m.seq = exp_seqno[e] /\ m.kind = "DATA"

(* Everything that is not dropped is acknowledged with its own number,     *)
(* whatever it is; the expected data packet is also returned.  user2 stops *)
(* at the first chunk that contains a "#".                                 *)
RecvAccepts(e, m) ==
  /\ mode[e] = "receiving"
  /\ m \in Inbox(e) /\ Expected(e, m)
  /\ \E left \in Taken(m) : net' = left \union {AckPacket(e, m.seq)}
  /\ received' = [received EXCEPT ![e] = Append(@, m.chunk)]
  /\ exp_seqno' = [exp_seqno EXCEPT ![e] = @ + 1]
  /\ mode' = [mode EXCEPT ![e] = "idle"]
  /\ UNCHANGED <<file, next_seqno, last_ackno>>

RecvAcks(e, m) ==
  /\ mode[e] = "receiving"
  /\ m \in Inbox(e) /\ ~Expected(e, m)
  /\ \E left \in Taken(m) : net' = left \union {AckPacket(e, m.seq)}
  /\ UNCHANGED <<file, sock, mode, received>>
-----------------------------------------------------------------------------
(* k_close: user1 when the "#" packet is acknowledged, user2 at a "#".     *)
Finished(e) ==
  /\ e \in Senders => SentAll(e)
  /\ e \in Receivers => GotLast(e)

Close(e) ==
  /\ mode[e] = "idle" /\ Finished(e)
  /\ mode' = [mode EXCEPT ![e] = "closed"]
  /\ UNCHANGED <<file, sock, received, net>>

(* UDP loses a datagram. *)
Lose(m) ==
  /\ net' = net \ {m}
  /\ UNCHANGED <<file, sock, mode, received>>

Next ==
  \/ \E e \in Endpoints : CallSend(e) \/ Resend(e) \/ CallRecv(e) \/ Close(e)
  \/ \E e \in Endpoints, m \in net :
       \/ SendAccepts(e, m) \/ SendIgnores(e, m)
       \/ RecvDrops(e, m) \/ RecvAccepts(e, m) \/ RecvAcks(e, m)
  \/ \E m \in net : Lose(m)

Spec == Init /\ [][Next]_vars

(* The programs and the timeouts run on (weak fairness).  Neither the      *)
(* network nor dropMessage discards every copy of a packet that is sent    *)
(* again and again (strong fairness for the handling of each packet).      *)
Fairness ==
  \A e \in Endpoints :
    /\ WF_vars(CallSend(e) \/ Resend(e) \/ CallRecv(e) \/ Close(e))
    /\ SF_vars(\E m \in net : SendAccepts(e, m))
    /\ SF_vars(\E m \in net : RecvAccepts(e, m))
    /\ \A i \in 1..MaxChunks :
         SF_vars(\E m \in net : m.kind = "DATA" /\ m.chunk = i /\ RecvAcks(e, m))

FairSpec == Spec /\ Fairness
-----------------------------------------------------------------------------
(* Every variable keeps its type; a header byte is a char (ksocket.c:141,  *)
(* 264).                                                                   *)
TypeOK ==
  /\ file \in Files
  /\ next_seqno \in [Endpoints -> 1..(MaxChunks + 1)]
  /\ last_ackno \in [Endpoints -> 0..MaxChunks]
  /\ exp_seqno \in [Endpoints -> Nat]
  /\ mode \in [Endpoints -> Modes]
  /\ received \in [Endpoints -> Seq(1..MaxChunks)]
  /\ net \subseteq Packets

(* When k_sendto returns for packet n, the peer's k_recvfrom has returned  *)
(* it: "if ack is not received, resend the packet" (ksocket.c:189-195).    *)
AckMeansDelivered == \A e \in Endpoints : last_ackno[e] <= Len(received[Peer(e)])

(* Stop and wait: the receiver is at the packet being sent or one past it, *)
(* and past it only while its ack is outstanding (ksocket.c:189-193, 270). *)
InStep(s) ==
  \/ exp_seqno[Peer(s)] = next_seqno[s]
  \/ exp_seqno[Peer(s)] = next_seqno[s] + 1 /\ mode[s] = "sending"
StopAndWait == \A s \in Senders : InStep(s)

(* The header byte cannot carry a number above CHAR_MAX: the pair compares *)
(* it with an int, so nothing beyond packet CHAR_MAX is ever delivered or  *)
(* acknowledged (ksocket.c:141, 189, 264, 270).                            *)
CharLimit ==
  \A e \in Endpoints :
    /\ Len(received[e]) <= CharMax /\ last_ackno[e] <= CharMax

(* The direction from user1 to user2 as a reliable transfer of the file.   *)
Transfer == INSTANCE ReliableTransfer WITH
              received <- received[B], returned <- last_ackno[A]

(* user1 and user2 move the file chunk by chunk, each exactly once, in     *)
(* order, whatever the network does (ksocket.c:113-282).                   *)
ImplementsTransfer == Transfer!TransferSpec

(* user2 receives every packet up to the first that contains a "#", or up  *)
(* to packet CHAR_MAX if that comes first, and only in the former case     *)
(* closes; user1 may then send to a closed socket for ever if its last ack *)
(* was lost (ksocket.c:155-196, 239-278, user2.c:65-89).                   *)
TransferCompletes ==
  <>[](IF file.hash <= CharMax
         THEN Len(received[B]) = file.hash /\ mode[B] = "closed"
         ELSE Len(received[B]) = CharMax /\ mode[B] = "receiving")
=============================================================================
