------------------------------ MODULE KtpProof ------------------------------
(***************************************************************************)
(* Proofs about Ktp for one file from A to B, for every length of the file *)
(* and every CHAR_MAX.                                                     *)
(***************************************************************************)
EXTENDS Ktp, TLAPS

(* The two programs: user1 only sends, user2 only receives. *)
OneWay == Senders = {A} /\ Receivers = {B}
-----------------------------------------------------------------------------
(* What is in the network: data packets carry a chunk the sender has come  *)
(* to under the char of its number; that of the packet now being sent is   *)
(* there only during the call; an ack of it only once it is delivered.     *)
DataOK(m) == /\ m.kind = "DATA" /\ m.to = B
             /\ m.chunk \in 1..file.len
             /\ \/ m.chunk < next_seqno[A]
                \/ m.chunk = next_seqno[A] /\ mode[A] = "sending"
             /\ m.seq = Header(m.chunk)
AckOK(m)  == /\ m.kind = "ACK" /\ m.to = A
             /\ m.seq <= next_seqno[A]
             /\ m.seq = next_seqno[A] => exp_seqno[B] = next_seqno[A] + 1
NetInv == \A m \in net : DataOK(m) \/ AckOK(m)

(* The sender: what k_sendto has counted, and that a call stays within the *)
(* file.                                                                   *)
SenderInv ==
  /\ last_ackno[A] = next_seqno[A] - 1
  /\ mode[A] # "receiving"
  /\ mode[A] = "sending" => next_seqno[A] <= file.len

(* The receiver: what k_recvfrom has returned is the beginning of the file.*)
ReceiverInv ==
  /\ mode[B] # "sending"
  /\ Len(received[B]) = exp_seqno[B] - 1
  /\ \A i \in 1..Len(received[B]) : received[B][i] = i

(* The other half of each socket is not used. *)
UnusedInv ==
  next_seqno[B] = 1 /\ last_ackno[B] = 0 /\ exp_seqno[A] = 1 /\ received[A] = <<>>

LimitInv == next_seqno[A] <= CharMax + 1 /\ exp_seqno[B] <= CharMax + 1

IInv == /\ TypeOK /\ NetInv /\ SenderInv /\ ReceiverInv /\ UnusedInv /\ LimitInv
        /\ InStep(A)
-----------------------------------------------------------------------------
(* The cast of a sequence number to a signed char yields a char, and never *)
(* a greater number (ksocket.c:141).                                       *)
LEMMA HeaderBound == \A n \in Nat : Header(n) \in Char /\ Header(n) <= n
<1> SUFFICES ASSUME NEW n \in Nat PROVE Header(n) \in Char /\ Header(n) <= n
  OBVIOUS
<1> DEFINE K == 2 * Half
           x == n + Half
<1>1. Half \in Nat /\ Half > 0 /\ K \in Nat /\ K > 0 /\ x \in Nat
  BY NumbersAssumption DEF Half
<1>2. x % K \in 0..(K - 1)
  BY <1>1
<1>3. x % K <= x
  <2>1. CASE x < K
    BY <2>1, <1>1
  <2>2. CASE x >= K
    BY <2>2, <1>1, <1>2
  <2> QED BY <2>1, <2>2, <1>1
<1>4. Header(n) = (x % K) - Half
  BY DEF Header
<1>5. x = n + Half /\ K = 2 * Half
  OBVIOUS
<1> DEFINE r == x % K
<1>6. r \in 0..(K - 1) /\ r <= x /\ Header(n) = r - Half
  BY <1>2, <1>3, <1>4
<1> HIDE DEF K, x, r
<1>7. Header(n) \in -Half..(Half - 1) /\ Header(n) <= n
  BY <1>1, <1>5, <1>6
<1>8. Half - 1 = CharMax
  BY NumbersAssumption DEF Half
<1> QED BY <1>7, <1>8 DEF Char, Half

(* The two endpoints are each other's peer, and the file fits the bound.   *)
LEMMA Ends ==
  /\ A # B /\ Endpoints = {A, B} /\ Peer(A) = B /\ Peer(B) = A
  /\ MaxChunks \in Nat /\ CharMax \in Nat /\ MaxChunks > 0 /\ CharMax > 0
  /\ \A f \in Files : f.len \in 1..MaxChunks /\ f.hash \in 1..MaxChunks
BY EndpointsAssumption, NumbersAssumption DEF Endpoints, Peer, Files

(* The initial state satisfies the invariant. *)
LEMMA InitInv == ASSUME Init PROVE IInv
<1> USE Ends DEF Init
<1>1. TypeOK
  BY DEF TypeOK, Modes
<1>2. NetInv
  BY DEF NetInv
<1>3. SenderInv /\ ReceiverInv /\ UnusedInv /\ LimitInv /\ InStep(A)
  BY DEF SenderInv, ReceiverInv, UnusedInv, LimitInv, InStep
<1> QED BY <1>1, <1>2, <1>3 DEF IInv

(* What the invariant says, in one place. *)
LEMMA Known ==
  ASSUME OneWay, IInv
  PROVE  /\ file.len \in 1..MaxChunks
         /\ next_seqno \in [{A, B} -> 1..(MaxChunks + 1)]
         /\ last_ackno \in [{A, B} -> 0..MaxChunks]
         /\ exp_seqno \in [{A, B} -> Nat]
         /\ mode \in [{A, B} -> Modes]
         /\ received \in [{A, B} -> Seq(1..MaxChunks)]
         /\ net \subseteq Packets
         /\ mode[A] # "receiving" /\ mode[B] # "sending"
         /\ \/ exp_seqno[B] = next_seqno[A]
            \/ exp_seqno[B] = next_seqno[A] + 1 /\ mode[A] = "sending"
BY Ends DEF IInv, TypeOK, SenderInv, ReceiverInv, InStep

(* The datagram of the call in progress is one the invariant allows. *)
LEMMA DataPacketOK ==
  ASSUME OneWay, IInv, next_seqno[A] <= file.len
  PROVE  /\ DataPacket(A) \in Packets
         /\ DataPacket(A).kind = "DATA" /\ DataPacket(A).to = B
         /\ DataPacket(A).chunk = next_seqno[A]
         /\ DataPacket(A).seq = Header(next_seqno[A])
<1>1. Header(next_seqno[A]) \in Char
  BY Known, HeaderBound
<1> QED BY <1>1, Known, Ends DEF DataPacket, Packets

-----------------------------------------------------------------------------
(* k_sendto: the first transmission and the repeated ones. *)
LEMMA TransmitInv ==
  ASSUME OneWay, IInv,
         next_seqno[A] <= file.len,
         mode' = [mode EXCEPT ![A] = "sending"],
         net' \subseteq net \union {DataPacket(A)},
         UNCHANGED <<file, sock, received>>
  PROVE  IInv'
<1> USE Ends, Known DEF sock
<1>1. TypeOK'
  BY DataPacketOK DEF IInv, TypeOK, Modes
<1>2. NetInv'
  <2> SUFFICES ASSUME NEW m \in net' PROVE DataOK(m)' \/ AckOK(m)'
    BY DEF NetInv
  <2>0. mode'[A] = "sending"
    OBVIOUS
  <2>1. CASE m \in net
    BY <2>0, <2>1 DEF IInv, NetInv, DataOK, AckOK
  <2>2. CASE m = DataPacket(A)
    BY <2>0, <2>2, DataPacketOK DEF DataOK
  <2> QED BY <2>1, <2>2
<1>3. SenderInv' /\ ReceiverInv' /\ UnusedInv' /\ LimitInv'
  BY DEF IInv, SenderInv, ReceiverInv, UnusedInv, LimitInv
<1>4. InStep(A)'
  BY DEF InStep
<1> QED BY <1>1, <1>2, <1>3, <1>4 DEF IInv

(* Steps that move no number and send nothing: calls, returns without a    *)
(* result, datagrams dropped or lost.                                      *)
LEMMA QuietInv ==
  ASSUME OneWay, IInv,
         mode' \in [Endpoints -> Modes],
         mode'[A] # "receiving", mode'[B] # "sending",
         mode'[A] = "sending" <=> mode[A] = "sending",
         net' \subseteq net,
         UNCHANGED <<file, sock, received>>
  PROVE  IInv'
<1> USE Ends, Known DEF sock
<1>1. TypeOK'
  BY DEF IInv, TypeOK
<1>2. NetInv'
  <2> SUFFICES ASSUME NEW m \in net PROVE DataOK(m)' \/ AckOK(m)'
    BY DEF NetInv
  <2> QED BY DEF IInv, NetInv, DataOK, AckOK
<1>3. SenderInv' /\ ReceiverInv' /\ UnusedInv' /\ LimitInv'
  BY DEF IInv, SenderInv, ReceiverInv, UnusedInv, LimitInv
<1>4. InStep(A)'
  BY DEF InStep
<1> QED BY <1>1, <1>2, <1>3, <1>4 DEF IInv

(* k_sendto returns: the ack it accepts proves that the packet has been    *)
(* delivered, so the two sockets are at the same packet again.             *)
LEMMA SendAcceptsInv ==
  ASSUME OneWay, IInv, NEW m \in net, SendAccepts(A, m)
  PROVE  IInv' /\ exp_seqno[B] = next_seqno[A] + 1
<1> USE Ends, Known DEF sock
<1>1. AckOK(m) /\ m.seq = next_seqno[A] /\ m.seq \in Char
  BY DEF SendAccepts, Matches, Inbox, IInv, NetInv, DataOK, AckOK, Packets
<1>2. exp_seqno[B] = next_seqno[A] + 1
  BY <1>1 DEF AckOK
<1>3. next_seqno[A] <= CharMax /\ next_seqno[A] <= file.len
  BY <1>1 DEF Char, SendAccepts, IInv, SenderInv
<1>4. /\ net' \subseteq net
      /\ next_seqno'[A] = next_seqno[A] + 1 /\ last_ackno'[A] = next_seqno[A]
      /\ next_seqno'[B] = next_seqno[B] /\ last_ackno'[B] = last_ackno[B]
      /\ mode'[A] = "idle" /\ mode'[B] = mode[B]
      /\ UNCHANGED <<file, exp_seqno, received>>
  BY DEF SendAccepts, Taken
<1>5. TypeOK'
  BY <1>3, <1>4 DEF IInv, TypeOK, SendAccepts, Modes
<1>6. NetInv'
  <2> SUFFICES ASSUME NEW q \in net PROVE DataOK(q)' \/ AckOK(q)'
    BY <1>4 DEF NetInv
  <2>1. CASE DataOK(q)
    BY <1>4, <2>1 DEF DataOK
  <2>2. CASE AckOK(q)
    <3>1. q.seq \in Int
      BY DEF Packets, Char
    <3> QED BY <1>4, <2>2, <3>1 DEF AckOK
  <2> QED BY <2>1, <2>2 DEF IInv, NetInv
<1>7. SenderInv' /\ ReceiverInv' /\ UnusedInv' /\ LimitInv'
  BY <1>3, <1>4 DEF IInv, SenderInv, ReceiverInv, UnusedInv, LimitInv
<1>8. InStep(A)'
  BY <1>2, <1>4 DEF InStep
<1> QED BY <1>2, <1>5, <1>6, <1>7, <1>8 DEF IInv
-----------------------------------------------------------------------------
(* k_recvfrom: a datagram for B is a data packet, and its number is at     *)
(* most that of the packet being sent.                                     *)
LEMMA InboxB ==
  ASSUME OneWay, IInv, NEW m \in Inbox(B)
  PROVE  /\ m \in net /\ DataOK(m)
         /\ m.seq \in Char /\ m.seq <= m.chunk /\ m.chunk \in 1..MaxChunks
         /\ m.chunk <= next_seqno[A]
         /\ m.chunk = next_seqno[A] => mode[A] = "sending"
<1>1. m \in net /\ DataOK(m) /\ m.seq \in Char
  BY Ends, Known DEF Inbox, IInv, NetInv, DataOK, AckOK, Packets
<1>2. m.chunk \in 1..file.len /\ m.seq = Header(m.chunk)
  BY <1>1 DEF DataOK
<1>3. m.seq <= m.chunk
  BY <1>2, HeaderBound, Known
<1> QED BY <1>1, <1>2, <1>3, Known, Ends DEF DataOK

(* The packet k_recvfrom accepts is the one being sent. *)
LEMMA AcceptedIsNext ==
  ASSUME OneWay, IInv, NEW m \in net, RecvAccepts(B, m)
  PROVE  /\ m \in Inbox(B)
         /\ m.chunk = next_seqno[A] /\ m.seq = next_seqno[A]
         /\ exp_seqno[B] = next_seqno[A] /\ mode[A] = "sending"
<1>1. m \in Inbox(B) /\ m.seq = exp_seqno[B]
  BY DEF RecvAccepts, Expected
<1>2. exp_seqno[B] <= m.chunk /\ m.chunk <= next_seqno[A] /\ m.chunk \in Nat
  BY <1>1, InboxB, Ends
<1>3. exp_seqno[B] = next_seqno[A] /\ m.chunk = next_seqno[A]
  BY <1>2, Known, Ends
<1> QED BY <1>1, <1>3, InboxB

LEMMA RecvAcceptsInv ==
  ASSUME OneWay, IInv, NEW m \in net, RecvAccepts(B, m)
  PROVE  IInv'
<1> USE Ends, Known DEF sock
<1>1. /\ m \in Inbox(B) /\ m.seq \in Char
      /\ m.chunk = next_seqno[A] /\ m.seq = next_seqno[A]
      /\ exp_seqno[B] = next_seqno[A] /\ mode[A] = "sending"
      /\ m.chunk \in 1..MaxChunks /\ next_seqno[A] <= CharMax
  BY AcceptedIsNext, InboxB DEF Char
<1>2. /\ net' \subseteq net \union {AckPacket(B, m.seq)}
      /\ exp_seqno'[B] = exp_seqno[B] + 1 /\ exp_seqno'[A] = exp_seqno[A]
      /\ received'[B] = Append(received[B], m.chunk) /\ received'[A] = received[A]
      /\ mode'[A] = mode[A] /\ mode'[B] = "idle"
      /\ UNCHANGED <<file, next_seqno, last_ackno>>
  BY DEF RecvAccepts, Taken
<1>3. AckPacket(B, m.seq) \in Packets
  BY <1>1 DEF AckPacket, NoChunk, Packets
<1>4. TypeOK'
  BY <1>1, <1>2, <1>3 DEF IInv, TypeOK, RecvAccepts, Modes
<1>5. NetInv'
  <2> SUFFICES ASSUME NEW q \in net' PROVE DataOK(q)' \/ AckOK(q)'
    BY DEF NetInv
  <2>1. CASE q \in net
    BY <1>1, <1>2, <2>1 DEF IInv, NetInv, DataOK, AckOK
  <2>2. CASE q = AckPacket(B, m.seq)
    BY <1>1, <1>2, <2>2 DEF AckOK, AckPacket
  <2> QED BY <1>2, <2>1, <2>2
<1>6. SenderInv' /\ UnusedInv' /\ LimitInv'
  BY <1>1, <1>2 DEF IInv, SenderInv, UnusedInv, LimitInv
<1>7. ReceiverInv'
  <2>1. Len(received'[B]) = Len(received[B]) + 1
    BY <1>1, <1>2
  <2>2. \A i \in 1..Len(received'[B]) : received'[B][i] = i
    BY <1>1, <1>2, <2>1 DEF IInv, ReceiverInv
  <2>3. Len(received'[B]) = exp_seqno'[B] - 1
    BY <1>1, <1>2, <2>1 DEF IInv, ReceiverInv
  <2> QED BY <1>2, <2>2, <2>3 DEF ReceiverInv
<1>8. InStep(A)'
  BY <1>1, <1>2 DEF InStep
<1> QED BY <1>4, <1>5, <1>6, <1>7, <1>8 DEF IInv

(* A packet k_recvfrom does not expect is acknowledged all the same, and   *)
(* the ack is none of a packet still to be delivered.                      *)
LEMMA RecvAcksInv ==
  ASSUME OneWay, IInv, NEW m \in net, RecvAcks(B, m)
  PROVE  IInv'
<1> USE Ends, Known DEF sock
<1>0. m \in Inbox(B)
  BY DEF RecvAcks
<1>1. m.seq \in Char /\ m.seq <= next_seqno[A] /\ m.seq # exp_seqno[B]
  <2>1. m.kind = "DATA" /\ m.seq \in Char /\ m.seq <= m.chunk
        /\ m.chunk \in 1..MaxChunks /\ m.chunk <= next_seqno[A]
    BY <1>0, InboxB DEF DataOK
  <2>2. m.seq # exp_seqno[B]
    BY <2>1 DEF RecvAcks, Expected
  <2>3. m.seq <= next_seqno[A]
    BY <2>1 DEF Char
  <2> QED BY <2>1, <2>2, <2>3
<1>2. /\ net' \subseteq net \union {AckPacket(B, m.seq)}
      /\ UNCHANGED <<file, sock, mode, received>>
  BY DEF RecvAcks, Taken
<1>3. AckPacket(B, m.seq) \in Packets
  BY <1>1 DEF AckPacket, NoChunk, Packets
<1>4. TypeOK'
  BY <1>2, <1>3 DEF IInv, TypeOK
<1>5. NetInv'
  <2> SUFFICES ASSUME NEW q \in net' PROVE DataOK(q)' \/ AckOK(q)'
    BY DEF NetInv
  <2>1. CASE q \in net
    BY <1>2, <2>1 DEF IInv, NetInv, DataOK, AckOK
  <2>2. CASE q = AckPacket(B, m.seq)
    BY <1>1, <1>2, <2>2 DEF AckOK, AckPacket
  <2> QED BY <1>2, <2>1, <2>2
<1>6. SenderInv' /\ ReceiverInv' /\ UnusedInv' /\ LimitInv' /\ InStep(A)'
  BY <1>2 DEF IInv, SenderInv, ReceiverInv, UnusedInv, LimitInv, InStep
<1> QED BY <1>4, <1>5, <1>6 DEF IInv
-----------------------------------------------------------------------------
LEMMA CallSendInv ==
  ASSUME OneWay, IInv, NEW e \in Endpoints, CallSend(e)
  PROVE  IInv'
<1>1. e = A /\ next_seqno[A] <= file.len
  BY Ends, Known DEF OneWay, CallSend, SentAll
<1> QED BY <1>1, TransmitInv DEF CallSend

LEMMA ResendInv ==
  ASSUME OneWay, IInv, NEW e \in Endpoints, Resend(e)
  PROVE  IInv'
<1>1. e = A /\ mode[A] = "sending" /\ next_seqno[A] <= file.len
  BY Ends, Known DEF Resend, IInv, SenderInv
<1>2. mode' = [mode EXCEPT ![A] = "sending"]
  BY <1>1, Ends, Known DEF Resend
<1> QED BY <1>1, <1>2, TransmitInv DEF Resend

LEMMA SendIgnoresInv ==
  ASSUME OneWay, IInv, NEW e \in Endpoints, NEW m \in net, SendIgnores(e, m)
  PROVE  IInv'
<1>1. e = A /\ mode[A] = "sending" /\ next_seqno[A] <= file.len
  BY Ends, Known DEF SendIgnores, IInv, SenderInv
<1>2. mode' = [mode EXCEPT ![A] = "sending"]
  BY <1>1, Ends, Known DEF SendIgnores
<1>3. net' \subseteq net \union {DataPacket(A)}
  BY <1>1 DEF SendIgnores, Taken
<1> QED BY <1>1, <1>2, <1>3, TransmitInv DEF SendIgnores

LEMMA CallRecvInv ==
  ASSUME OneWay, IInv, NEW e \in Endpoints, CallRecv(e)
  PROVE  IInv'
<1>1. e = B
  BY DEF OneWay, CallRecv
<1>2. mode' \in [Endpoints -> Modes] /\ mode'[A] = mode[A] /\ mode'[B] = "receiving"
  BY <1>1, Ends, Known DEF CallRecv, Modes
<1> QED BY <1>1, <1>2, Known, QuietInv DEF CallRecv

LEMMA CloseInv ==
  ASSUME OneWay, IInv, NEW e \in Endpoints, Close(e)
  PROVE  IInv'
<1>1. /\ mode' \in [Endpoints -> Modes]
      /\ mode'[A] # "receiving" /\ mode'[B] # "sending"
      /\ mode'[A] = "sending" <=> mode[A] = "sending"
  BY Ends, Known DEF Close, Modes
<1> QED BY <1>1, QuietInv DEF Close

LEMMA RecvDropsInv ==
  ASSUME OneWay, IInv, NEW e \in Endpoints, NEW m \in net, RecvDrops(e, m)
  PROVE  IInv'
<1>1. mode' \in [Endpoints -> Modes] /\ mode' = mode /\ net' \subseteq net
  BY Ends, Known DEF RecvDrops, Taken
<1> QED BY <1>1, Known, QuietInv DEF RecvDrops

LEMMA LoseInv ==
  ASSUME OneWay, IInv, NEW m \in net, Lose(m)
  PROVE  IInv'
<1>1. mode' \in [Endpoints -> Modes] /\ mode' = mode /\ net' \subseteq net
  BY Ends, Known DEF Lose
<1> QED BY <1>1, Known, QuietInv DEF Lose

(* A program is in a call only if it makes that kind of call. *)
LEMMA WhoseCall ==
  ASSUME OneWay, IInv, NEW e \in Endpoints
  PROVE  (mode[e] = "sending" => e = A) /\ (mode[e] = "receiving" => e = B)
BY Ends, Known

LEMMA StepInv == ASSUME OneWay, IInv, [Next]_vars PROVE IInv'
<1>1. ASSUME NEW e \in Endpoints, CallSend(e) \/ Resend(e) \/ CallRecv(e) \/ Close(e)
      PROVE  IInv'
  BY <1>1, CallSendInv, ResendInv, CallRecvInv, CloseInv
<1>2. ASSUME NEW e \in Endpoints, NEW m \in net, SendAccepts(e, m) \/ SendIgnores(e, m)
      PROVE  IInv'
  <2>1. e = A
    BY <1>2, WhoseCall DEF SendAccepts, SendIgnores
  <2> QED BY <1>2, <2>1, SendAcceptsInv, SendIgnoresInv
<1>3. ASSUME NEW e \in Endpoints, NEW m \in net,
             RecvDrops(e, m) \/ RecvAccepts(e, m) \/ RecvAcks(e, m)
      PROVE  IInv'
  <2>1. e = B
    BY <1>3, WhoseCall DEF RecvDrops, RecvAccepts, RecvAcks
  <2> QED BY <1>3, <2>1, RecvDropsInv, RecvAcceptsInv, RecvAcksInv
<1>4. ASSUME NEW m \in net, Lose(m) PROVE IInv'
  BY <1>4, LoseInv
<1>5. CASE UNCHANGED vars
  <2>1. UNCHANGED <<file, sock, received, net, mode>>
    BY <1>5 DEF vars
  <2> QED BY <2>1, Known, Ends, QuietInv
<1> QED BY <1>1, <1>2, <1>3, <1>4, <1>5 DEF Next

(* The invariant holds in every reachable state, for every file length and *)
(* every CHAR_MAX.                                                         *)
THEOREM Invariance == OneWay /\ Spec => []IInv
<1>1. OneWay /\ Init => OneWay /\ IInv
  BY InitInv
<1>2. OneWay /\ IInv /\ [Next]_vars => (OneWay /\ IInv)'
  BY StepInv DEF OneWay
<1> QED BY <1>1, <1>2, PTL DEF Spec

(* Every variable keeps its type: in particular every header byte is a     *)
(* char.                                                                   *)
THEOREM Types == OneWay /\ Spec => []TypeOK
<1>1. IInv => TypeOK
  BY DEF IInv
<1> QED BY <1>1, Invariance, PTL

(* The receiver is at the packet being sent, or one past it while its ack  *)
(* is outstanding, whatever is lost, duplicated, reordered or late.        *)
THEOREM InStepAlways == OneWay /\ Spec => []StopAndWait
<1>1. OneWay /\ IInv => StopAndWait
  BY DEF OneWay, StopAndWait, IInv
<1>2. OneWay => OneWay'
  BY DEF OneWay
<1> QED BY <1>1, <1>2, Invariance, PTL

(* When k_sendto has returned for a packet, k_recvfrom has returned it.    *)
THEOREM SentIsDelivered == OneWay /\ Spec => []AckMeansDelivered
<1>1. OneWay /\ IInv => AckMeansDelivered
  <2> SUFFICES ASSUME OneWay, IInv, NEW e \in Endpoints
               PROVE  last_ackno[e] <= Len(received[Peer(e)])
    BY DEF AckMeansDelivered
  <2>1. last_ackno[A] <= Len(received[B])
    BY Known DEF IInv, SenderInv, ReceiverInv
  <2>2. last_ackno[B] <= Len(received[A])
    <3>1. last_ackno[B] = 0 /\ received[A] = <<>>
      BY DEF IInv, UnusedInv
    <3> QED BY <3>1
  <2> QED BY <2>1, <2>2, Ends
<1>2. OneWay => OneWay'
  BY DEF OneWay
<1> QED BY <1>1, <1>2, Invariance, PTL

(* The char of the header ends every transfer at packet CHAR_MAX.          *)
THEOREM NoMoreThanCharMax == OneWay /\ Spec => []CharLimit
<1>1. OneWay /\ IInv => CharLimit
  <2> SUFFICES ASSUME OneWay, IInv, NEW e \in Endpoints
               PROVE  Len(received[e]) <= CharMax /\ last_ackno[e] <= CharMax
    BY DEF CharLimit
  <2>1. Len(received[B]) <= CharMax /\ last_ackno[A] <= CharMax
    BY Known, Ends DEF IInv, SenderInv, ReceiverInv, LimitInv
  <2>2. Len(received[A]) <= CharMax /\ last_ackno[B] <= CharMax
    <3>1. last_ackno[B] = 0 /\ received[A] = <<>>
      BY DEF IInv, UnusedInv
    <3> QED BY <3>1, Ends
  <2> QED BY <2>1, <2>2, Ends
<1>2. OneWay => OneWay'
  BY DEF OneWay
<1> QED BY <1>1, <1>2, Invariance, PTL
-----------------------------------------------------------------------------
(* The refinement of ReliableTransfer.  Its Chunks are the parameter that  *)
(* Ktp instantiates by the positions 1..MaxChunks.                         *)

LEMMA RecvAcceptsDelivers ==
  ASSUME OneWay, IInv, NEW m \in net, RecvAccepts(B, m)
  PROVE  Transfer!Deliver
<1>1. /\ m.chunk = next_seqno[A] /\ exp_seqno[B] = next_seqno[A]
      /\ m.chunk \in 1..MaxChunks
  BY AcceptedIsNext, InboxB
<1>2. /\ Len(received[B]) = last_ackno[A]
      /\ m.chunk = last_ackno[A] + 1 /\ last_ackno[A] \in Nat
  BY <1>1, Known, Ends DEF IInv, ReceiverInv, SenderInv
<1>3. /\ received'[B] = Append(received[B], m.chunk)
      /\ last_ackno'[A] = last_ackno[A]
  BY Known, Ends DEF RecvAccepts
<1>4. Len(Chunks) = MaxChunks /\ Chunks[m.chunk] = m.chunk
  BY <1>1, Ends DEF Chunks
<1>5. last_ackno[A] < Len(Chunks)
  BY <1>1, <1>2, <1>4, Ends
<1>6. Chunks[last_ackno[A] + 1] = m.chunk
  BY <1>2, <1>4
<1> QED BY <1>2, <1>3, <1>5, <1>6 DEF Transfer!Deliver

LEMMA SendAcceptsReturns ==
  ASSUME OneWay, IInv, NEW m \in net, SendAccepts(A, m)
  PROVE  Transfer!SendReturns
<1>1. exp_seqno[B] = next_seqno[A] + 1
  BY SendAcceptsInv
<1>2. Len(received[B]) = last_ackno[A] + 1
  BY <1>1, Known, Ends DEF IInv, ReceiverInv, SenderInv
<1>3. last_ackno'[A] = next_seqno[A] /\ received' = received
  BY Known, Ends DEF SendAccepts
<1>4. last_ackno'[A] = last_ackno[A] + 1
  BY <1>3, Known, Ends DEF IInv, SenderInv
<1> QED BY <1>2, <1>3, <1>4 DEF Transfer!SendReturns

(* The transfer from user1 to user2 is reliable: each chunk is delivered   *)
(* once, in order, and before the k_sendto that carries it returns.        *)
THEOREM Refinement == OneWay /\ Spec => ImplementsTransfer
<1> DEFINE aStep == [Transfer!Deliver \/ Transfer!SendReturns]_(Transfer!transferVars)
<1>1. Init => Transfer!TransferInit
  BY Ends DEF Init, Transfer!TransferInit
<1>2. OneWay /\ IInv /\ [Next]_vars => aStep
  <2> SUFFICES ASSUME OneWay, IInv, [Next]_vars PROVE aStep
    OBVIOUS
  <2>1. CASE UNCHANGED <<received, last_ackno>>
    BY <2>1 DEF Transfer!transferVars
  <2>2. ASSUME NEW e \in Endpoints, NEW m \in net, RecvAccepts(e, m) PROVE aStep
    <3>1. e = B
      BY <2>2, WhoseCall DEF RecvAccepts
    <3> QED BY <2>2, <3>1, RecvAcceptsDelivers
  <2>3. ASSUME NEW e \in Endpoints, NEW m \in net, SendAccepts(e, m) PROVE aStep
    <3>1. e = A
      BY <2>3, WhoseCall DEF SendAccepts
    <3> QED BY <2>3, <3>1, SendAcceptsReturns
  <2>4. \/ UNCHANGED <<received, last_ackno>>
        \/ \E e \in Endpoints, m \in net : RecvAccepts(e, m) \/ SendAccepts(e, m)
    BY DEF Next, vars, sock, CallSend, Resend, CallRecv, Close, SendIgnores,
           RecvDrops, RecvAcks, Lose
  <2> QED BY <2>1, <2>2, <2>3, <2>4
<1>3. OneWay => OneWay'
  BY DEF OneWay
<1> HIDE DEF aStep
<1>4. OneWay /\ Spec =>
        /\ Transfer!TransferInit
        /\ [][Transfer!Deliver \/ Transfer!SendReturns]_(Transfer!transferVars)
  BY <1>1, <1>2, <1>3, Invariance, PTL DEF Spec, aStep
<1> QED BY <1>4 DEF ImplementsTransfer, Transfer!TransferSpec
=============================================================================
