---------------------------- MODULE RoundsProof ----------------------------
(***************************************************************************)
(* Proofs about Rounds for any clients, any numbers and any size of the    *)
(* table.                                                                  *)
(***************************************************************************)
EXTENDS Rounds, TLAPS

(* The table: a client is in it once and has connected; the positions not  *)
(* in use hold no number; a number is there only if two clients are.       *)
TableInv ==
  /\ \A i, j \in 1..numclient : clientsockfd[i] = clientsockfd[j] => i = j
  /\ \A i \in 1..numclient : link[clientsockfd[i]] # "none"
  /\ \A i \in 1..MAX_CL : max_received[i] # INT_MIN => i <= numclient /\ numclient >= 2

(* What is on its way was typed, and a connection select found readable    *)
(* still has something to read unless its client has left.                 *)
InboxInv ==
  /\ \A c \in Clients : link[c] \in {"none", "open"} =>
                          \A k \in 1..Len(inbox[c]) : inbox[c][k] \in typed[c]
  /\ \A c \in curfds : link[c] = "open" => AtHand(c)

IInv == TypeOK /\ TableInv /\ InboxInv /\ CountedWasSent
-----------------------------------------------------------------------------
(* What the types say of the table, in one place. *)
LEMMA Typed ==
  ASSUME TypeOK
  PROVE  /\ numclient \in Nat /\ numclient <= MAX_CL
         /\ \A i \in 1..numclient : clientsockfd[i] \in Clients /\ i \in 1..MAX_CL
         /\ Accepted \subseteq Clients
         /\ \A i \in 1..MAX_CL : max_received[i] \in Garbage
         /\ MAX_CL \in Nat /\ INT_MIN \in Int
         /\ Garbage \subseteq Int /\ INT_MIN \notin Numbers
         /\ \A n \in Garbage : n # INT_MIN => n \in Numbers
         /\ \A c \in Clients : inbox[c] \in Seq(Numbers)
         /\ inbox \in [Clients -> Seq(Numbers)]
         /\ link \in [Clients -> {"none", "open", "left", "reset", "dead"}]
BY NumbersAssumption, SizeAssumption DEF TypeOK, numclient, Accepted, Garbage

(* Append leaves the elements where they are and adds one. *)
LEMMA AppendFacts ==
  ASSUME NEW S, NEW s \in Seq(S), NEW e \in S
  PROVE  /\ Append(s, e) \in Seq(S) /\ Append(s, e) # <<>>
         /\ Len(Append(s, e)) = Len(s) + 1
         /\ Append(s, e)[Len(s) + 1] = e
         /\ \A k \in 1..Len(s) : Append(s, e)[k] = s[k]
<1>1. Len(Append(s, e)) = Len(s) + 1 /\ Len(s) \in Nat
  OBVIOUS
<1>2. Len(<<>>) = 0
  OBVIOUS
<1>3. Append(s, e) # <<>>
  BY <1>1, <1>2
<1> QED BY <1>1, <1>3

(* The initial state satisfies the invariant. *)
LEMMA InitInv == ASSUME Init PROVE IInv
<1>1. TypeOK
  BY NumbersAssumption, SizeAssumption DEF Init, TypeOK, numclient, Accepted, Garbage
<1>2. TableInv /\ InboxInv /\ CountedWasSent
  BY SizeAssumption DEF Init, TableInv, InboxInv, CountedWasSent, numclient
<1> QED BY <1>1, <1>2 DEF IInv
-----------------------------------------------------------------------------
(* An accept appends a new client and keeps the others where they are. *)
LEMMA AcceptAppends ==
  ASSUME TypeOK, NEW c \in Pending, accept(c)
  PROVE  /\ c \in Clients /\ c \notin Accepted /\ link[c] # "none"
         /\ numclient' = numclient + 1 /\ numclient + 1 <= MAX_CL
         /\ clientsockfd' \in Seq(Clients)
         /\ \A i \in 1..numclient : clientsockfd'[i] = clientsockfd[i]
         /\ clientsockfd'[numclient + 1] = c
         /\ Accepted' = Accepted \union {c}
         /\ link' = [link EXCEPT ![c] = AfterSend(link[c])]
         /\ AfterSend(link[c]) \in {"open", "dead"}
         /\ AfterSend(link[c]) = "open" => link[c] = "open"
         /\ printed' = <<>>
<1>1. c \in Clients /\ c \notin Accepted /\ link[c] # "none"
  BY DEF Pending
<1>2. /\ clientsockfd' = Append(clientsockfd, c) /\ clientsockfd \in Seq(Clients)
      /\ numclient < MAX_CL
  BY DEF accept, TypeOK
<1>3. /\ numclient' = numclient + 1 /\ clientsockfd' \in Seq(Clients)
      /\ \A i \in 1..numclient : clientsockfd'[i] = clientsockfd[i]
      /\ clientsockfd'[numclient + 1] = c
  BY <1>1, <1>2 DEF numclient
<1>4. numclient \in Nat
  BY Typed
<1>5. Accepted' = Accepted \union {c}
  <2>1. Accepted' = {clientsockfd'[i] : i \in 1..(numclient + 1)}
    BY <1>3 DEF Accepted
  <2>2. 1..(numclient + 1) = (1..numclient) \union {numclient + 1}
    BY <1>4
  <2> QED BY <2>1, <2>2, <1>3 DEF Accepted
<1>6. numclient + 1 <= MAX_CL
  BY <1>2, <1>4, SizeAssumption
<1>7. /\ link' = [link EXCEPT ![c] = AfterSend(link[c])] /\ printed' = <<>>
      /\ AfterSend(link[c]) \in {"open", "dead"}
      /\ AfterSend(link[c]) = "open" => link[c] = "open"
  BY DEF accept, AfterSend
<1> QED BY <1>1, <1>3, <1>5, <1>6, <1>7

(* What a recv does to the stream it reads, and what sscanf makes of it: a *)
(* number the client sent, unless it begins with a part or is nothing.     *)
LEMMA RecvShrinks ==
  ASSUME TypeOK, InboxInv, NEW c \in Clients,
         NEW k \in 0..Len(inbox[c]), NEW cuts \in BOOLEAN, Recv(c, k, cuts)
  PROVE  /\ inbox' \in [Clients -> Seq(Numbers)] /\ rest' \subseteq Clients
         /\ \A d \in Clients \ {c} : inbox'[d] = inbox[d] /\ (d \in rest <=> d \in rest')
         /\ link[c] \in {"none", "open"} =>
              \A m \in 1..Len(inbox'[c]) : inbox'[c][m] \in typed[c]
         /\ nn(c, k) \subseteq Garbage
         /\ WholeFirst(c, k) /\ link[c] = "open" => nn(c, k) \subseteq typed[c]
<1> USE Typed
<1> DEFINE o == k + (IF cuts THEN 2 ELSE 1)
           tail == SubSeq(inbox[c], o, Len(inbox[c]))
<1>1. /\ inbox[c] \in Seq(Numbers) /\ Len(inbox[c]) \in Nat /\ k \in Nat
      /\ inbox' = [inbox EXCEPT ![c] = tail]
      /\ rest' = IF cuts THEN rest \union {c} ELSE rest \ {c}
      /\ cuts => k < Len(inbox[c])
  BY DEF Recv
<1>2. o \in 1..(Len(inbox[c]) + 1)
  BY <1>1
<1>3. /\ tail \in Seq(Numbers)
      /\ \A m \in 1..Len(tail) : m + o - 1 \in 1..Len(inbox[c]) /\ tail[m] = inbox[c][m + o - 1]
  <2> HIDE DEF o
  <2> QED BY <1>1, <1>2
<1> HIDE DEF o, tail
<1>4. inbox'[c] = tail
  BY <1>1
<1>5. ASSUME link[c] \in {"none", "open"}
      PROVE  \A m \in 1..Len(inbox'[c]) : inbox'[c][m] \in typed[c]
  BY <1>5, <1>3, <1>4 DEF InboxInv
<1>6. ASSUME WholeFirst(c, k)
      PROVE  /\ nn(c, k) = {inbox[c][1]} /\ inbox[c][1] \in Numbers
             /\ link[c] = "open" => inbox[c][1] \in typed[c]
  <2>1. 1 \in 1..Len(inbox[c])
    BY <1>1, <1>6 DEF WholeFirst
  <2> QED BY <1>1, <1>6, <2>1 DEF nn, InboxInv
<1>7. /\ nn(c, k) \subseteq Garbage
      /\ WholeFirst(c, k) /\ link[c] = "open" => nn(c, k) \subseteq typed[c]
  BY <1>6 DEF nn, Garbage
<1>8. rest' \subseteq Clients /\ \A d \in Clients \ {c} : d \in rest <=> d \in rest'
  BY <1>1 DEF TypeOK
<1> QED BY <1>1, <1>3, <1>5, <1>7, <1>8

(* Whatever recv and the answer met, the connection of c stays open only   *)
(* if it was.                                                              *)
LEMMA LinkStep ==
  ASSUME TypeOK, NEW c \in Clients, NEW l \in AfterRecv(c), link[c] # "none",
         \/ Respond(c, l)
         \/ link' = [link EXCEPT ![c] = l] /\ UNCHANGED alive
  PROVE  /\ link' \in [Clients -> {"none", "open", "left", "reset", "dead"}]
         /\ \A d \in Clients : (link'[d] = "open" => link[d] = "open")
                               /\ (link'[d] = "none" => link[d] = "none")
         /\ alive = TRUE => alive' \in BOOLEAN
BY Typed DEF AfterRecv, Respond, AfterSend, TypeOK
-----------------------------------------------------------------------------
(* select and accept preserve the invariant. *)
LEMMA SelectInv == ASSUME IInv, SelectReturns PROVE IInv'
<1> USE Typed DEF IInv
<1>0. UNCHANGED <<max_received, alive, stream, client, cut>> /\ curfds' = Readable
  BY DEF SelectReturns
<1>r. Readable \subseteq Accepted /\ \A c \in Readable : link[c] = "open" => AtHand(c)
  BY DEF Readable
<1>1. CASE UNCHANGED <<clientsockfd, link, printed>>
  <2>1. TypeOK'
    BY <1>0, <1>r, <1>1 DEF TypeOK, stream, client, numclient, Accepted
  <2>2. TableInv' /\ InboxInv' /\ CountedWasSent'
    BY <1>0, <1>r, <1>1 DEF TableInv, InboxInv, CountedWasSent, AtHand, numclient, stream, client
  <2> QED BY <2>1, <2>2
<1>2. ASSUME NEW c \in Pending, accept(c) PROVE IInv'
  <2> USE <1>2, AcceptAppends
  <2>0. c \in Clients /\ c \notin Accepted
    OBVIOUS
  <2>1. TypeOK'
    <3>1. clientsockfd' \in Seq(Clients) /\ numclient' <= MAX_CL /\ printed' = <<>>
      OBVIOUS
    <3>2. link' \in [Clients -> {"none", "open", "left", "reset", "dead"}]
      BY <2>0
    <3>3. curfds' \subseteq Accepted'
      BY <1>0, <1>r
    <3> QED BY <1>0, <3>1, <3>2, <3>3 DEF TypeOK, stream, client
  <2>2. TableInv'
    <3>1. ASSUME NEW i \in 1..(numclient + 1), NEW j \in 1..(numclient + 1),
                 clientsockfd'[i] = clientsockfd'[j]
          PROVE  i = j
      <4>1. \A k \in 1..numclient : clientsockfd'[k] = clientsockfd[k] /\ clientsockfd[k] # c
        BY DEF Accepted
      <4>2. \A k \in 1..(numclient + 1) : k \in 1..numclient \/ k = numclient + 1
        OBVIOUS
      <4>3. clientsockfd'[numclient + 1] = c
        OBVIOUS
      <4>4. CASE i \in 1..numclient /\ j \in 1..numclient
        <5>1. clientsockfd[i] = clientsockfd[j]
          BY <3>1, <4>1, <4>4
        <5> QED BY <4>4, <5>1 DEF TableInv
      <4>5. CASE i = numclient + 1 \/ j = numclient + 1
        <5>1. i \notin 1..numclient /\ j \notin 1..numclient
          BY <3>1, <4>1, <4>3, <4>5
        <5> QED BY <4>2, <5>1
      <4> QED BY <4>2, <4>4, <4>5
    <3>2. ASSUME NEW i \in 1..(numclient + 1) PROVE link'[clientsockfd'[i]] # "none"
      <4>1. CASE i \in 1..numclient
        <5>1. clientsockfd'[i] = clientsockfd[i] /\ clientsockfd[i] # c
          BY <4>1 DEF Accepted
        <5>2. link'[clientsockfd[i]] = link[clientsockfd[i]]
          BY <4>1, <5>1
        <5> QED BY <4>1, <5>1, <5>2 DEF TableInv
      <4>2. CASE i = numclient + 1
        <5>1. clientsockfd'[i] = c /\ link'[c] = AfterSend(link[c])
          BY <2>0, <4>2
        <5> QED BY <5>1
      <4> QED BY <4>1, <4>2
    <3>3. ASSUME NEW i \in 1..MAX_CL, max_received'[i] # INT_MIN
          PROVE  i <= numclient' /\ numclient' >= 2
      BY <3>3, <1>0 DEF TableInv
    <3> QED BY <3>1, <3>2, <3>3 DEF TableInv
  <2>3. InboxInv'
    <3>1. \A d \in Clients : (link'[d] = "open" => link[d] = "open")
                            /\ (link'[d] = "none" => link[d] = "none")
      BY <2>0 DEF TypeOK
    <3>2. UNCHANGED <<inbox, rest, typed>>
      BY <1>0 DEF stream, client
    <3>3. \A d \in Clients : link'[d] \in {"none", "open"} => link[d] \in {"none", "open"}
      BY <3>1
    <3>4. \A d \in curfds' : link'[d] = "open" => AtHand(d)'
      BY <1>0, <1>r, <3>1, <3>2 DEF AtHand
    <3> QED BY <3>2, <3>3, <3>4 DEF InboxInv
  <2>4. CountedWasSent'
    <3> SUFFICES ASSUME NEW i \in 1..(numclient + 1),
                        max_received'[i] # INT_MIN, link'[clientsockfd'[i]] = "open",
                        clientsockfd'[i] \notin cut'
                 PROVE  max_received'[i] \in typed'[clientsockfd'[i]]
      BY DEF CountedWasSent
    <3>1. i \in 1..numclient
      BY <1>0 DEF TableInv
    <3>2. clientsockfd'[i] = clientsockfd[i] /\ clientsockfd[i] # c /\ clientsockfd[i] \in Clients
      BY <3>1 DEF Accepted
    <3>3. link[clientsockfd[i]] = "open"
      BY <3>2
    <3> QED BY <1>0, <3>1, <3>2, <3>3 DEF CountedWasSent, client
  <2> QED BY <2>1, <2>2, <2>3, <2>4
<1> QED BY <1>1, <1>2 DEF SelectReturns

(* Reading a client preserves the invariant. *)
LEMMA ReadInv ==
  ASSUME IInv, NEW i \in 1..numclient, ReadsClient(i)
  PROVE  IInv'
<1> USE Typed DEF IInv
<1> DEFINE c == clientsockfd[i]
<1>0. /\ c \in Clients /\ c \in curfds /\ curfds' = curfds \ {c} /\ alive
      /\ UNCHANGED <<clientsockfd, client>>
  BY DEF ReadsClient, IsNext
<1>n. link[c] # "none"
  BY DEF TableInv
<1>1. PICK k \in 0..Len(inbox[c]), cuts \in BOOLEAN, l \in AfterRecv(c) :
        /\ Recv(c, k, cuts)
        /\ IF Insufficient \/ max_received[i] # INT_MIN
             THEN Respond(c, l) /\ UNCHANGED <<max_received, printed, cut>>
             ELSE /\ \E n \in nn(c, k) :
                       /\ max_received' = [max_received EXCEPT ![i] = n]
                       /\ printed' = IF n = INT_MIN THEN printed ELSE <<>>
                  /\ cut' = IF AtHand(c) /\ ~WholeFirst(c, k) THEN cut \union {c} ELSE cut
                  /\ link' = [link EXCEPT ![c] = l]
                  /\ UNCHANGED alive
  BY DEF ReadsClient
<1>2. /\ inbox' \in [Clients -> Seq(Numbers)] /\ rest' \subseteq Clients
      /\ \A d \in Clients \ {c} : inbox'[d] = inbox[d] /\ (d \in rest <=> d \in rest')
      /\ link[c] \in {"none", "open"} =>
           \A m \in 1..Len(inbox'[c]) : inbox'[c][m] \in typed[c]
      /\ nn(c, k) \subseteq Garbage
      /\ WholeFirst(c, k) /\ link[c] = "open" => nn(c, k) \subseteq typed[c]
  BY <1>0, <1>1, RecvShrinks
<1>3. /\ link' \in [Clients -> {"none", "open", "left", "reset", "dead"}]
      /\ \A d \in Clients : (link'[d] = "open" => link[d] = "open")
                            /\ (link'[d] = "none" => link[d] = "none")
      /\ alive' \in BOOLEAN
  BY <1>0, <1>1, <1>n, LinkStep
<1>4. \/ UNCHANGED <<max_received, printed, cut>>
      \/ /\ numclient >= 2 /\ max_received[i] = INT_MIN
         /\ cut' = IF AtHand(c) /\ ~WholeFirst(c, k) THEN cut \union {c} ELSE cut
         /\ \E n \in nn(c, k) : /\ max_received' = [max_received EXCEPT ![i] = n]
                                /\ printed' \in {printed, <<>>}
  BY <1>1 DEF Insufficient
<1>5. TypeOK'
  <2>1. max_received' \in [1..MAX_CL -> Garbage]
    BY <1>2, <1>4 DEF TypeOK
  <2>2. printed' \in (Clients \X Numbers) \union {<<>>}
    BY <1>4 DEF TypeOK
  <2>3. cut' \subseteq Clients
    BY <1>0, <1>4 DEF TypeOK
  <2>4. clientsockfd' \in Seq(Clients) /\ numclient' <= MAX_CL /\ curfds' \subseteq Accepted'
    BY <1>0 DEF TypeOK, numclient, Accepted
  <2>5. typed' \in [Clients -> SUBSET Numbers] /\ sends' \in 0..MaxSends
    BY <1>0 DEF TypeOK, client
  <2> QED BY <1>2, <1>3, <2>1, <2>2, <2>3, <2>4, <2>5 DEF TypeOK
<1>6. TableInv'
  <2>1. \A j \in 1..numclient : link'[clientsockfd[j]] # "none"
    BY <1>3 DEF TableInv
  <2>2. ASSUME NEW j \in 1..MAX_CL, max_received'[j] # INT_MIN
        PROVE  j <= numclient /\ numclient >= 2
    BY <1>4, <2>2 DEF TableInv, TypeOK
  <2> QED BY <1>0, <2>1, <2>2 DEF TableInv, numclient
<1>7. InboxInv'
  <2>1. ASSUME NEW d \in Clients, link'[d] \in {"none", "open"}, NEW m \in 1..Len(inbox'[d])
        PROVE  inbox'[d][m] \in typed[d]
    <3>1. link[d] \in {"none", "open"}
      BY <1>3, <2>1
    <3> QED BY <1>0, <1>2, <2>1, <3>1 DEF InboxInv
  <2>2. ASSUME NEW d \in curfds', link'[d] = "open" PROVE AtHand(d)'
    BY <1>0, <1>2, <1>3, <2>2 DEF InboxInv, AtHand, TypeOK
  <2> QED BY <1>0, <2>1, <2>2 DEF InboxInv, client
<1>8. CountedWasSent'
  <2> SUFFICES ASSUME NEW j \in 1..numclient, max_received'[j] # INT_MIN,
                      link'[clientsockfd[j]] = "open", clientsockfd[j] \notin cut'
               PROVE  max_received'[j] \in typed[clientsockfd[j]]
    BY <1>0 DEF CountedWasSent, numclient, client
  <2>1. link[clientsockfd[j]] = "open" /\ clientsockfd[j] \notin cut
    BY <1>3, <1>4
  <2>2. CASE max_received'[j] = max_received[j]
    BY <2>1, <2>2 DEF CountedWasSent
  <2>3. CASE max_received'[j] # max_received[j]
    <3>1. /\ j = i /\ max_received'[i] \in nn(c, k)
          /\ cut' = IF AtHand(c) /\ ~WholeFirst(c, k) THEN cut \union {c} ELSE cut
      BY <1>4, <2>3 DEF TypeOK
    <3>2. AtHand(c)
      BY <1>0, <2>1, <3>1 DEF InboxInv
    <3>3. WholeFirst(c, k)
      BY <3>1, <3>2
    <3> QED BY <1>2, <2>1, <3>1, <3>3
  <2> QED BY <2>2, <2>3
<1> QED BY <1>5, <1>6, <1>7, <1>8

(* The end of a round preserves the invariant. *)
LEMMA EndInv == ASSUME IInv, EndsRound PROVE IInv'
<1> USE Typed DEF IInv
<1>1. PICK i \in 1..numclient : printed' = <<clientsockfd[i], max_received[i]>>
  BY DEF EndsRound
<1>2. max_received[i] \in Numbers /\ clientsockfd[i] \in Clients
  BY DEF EndsRound, RoundComplete
<1>3. /\ max_received' = [k \in 1..MAX_CL |-> INT_MIN]
      /\ UNCHANGED <<clientsockfd, curfds, stream, client>> /\ alive' \in BOOLEAN
      /\ cut' = {}
  BY DEF EndsRound
<1>4. /\ link' \in [Clients -> {"none", "open", "left", "reset", "dead"}]
      /\ \A d \in Clients : (link'[d] = "open" => link[d] = "open")
                            /\ (link'[d] = "none" => link[d] = "none")
  BY DEF EndsRound, AfterSend
<1>5. TypeOK'
  BY <1>1, <1>2, <1>3, <1>4 DEF TypeOK, stream, client, numclient, Accepted, Garbage
<1>6. TableInv'
  BY <1>3, <1>4 DEF TableInv, numclient
<1>7. InboxInv'
  <2>1. \A d \in Clients : link'[d] \in {"none", "open"} => link[d] \in {"none", "open"}
    BY <1>4
  <2>2. \A d \in curfds' : link'[d] = "open" => AtHand(d)'
    BY <1>3, <1>4 DEF InboxInv, AtHand, stream, TypeOK
  <2> QED BY <1>3, <2>1, <2>2 DEF InboxInv, stream, client
<1>8. CountedWasSent'
  BY <1>3 DEF CountedWasSent, numclient
<1> QED BY <1>5, <1>6, <1>7, <1>8

(* So does whatever a client does. *)
LEMMA ClientInv ==
  ASSUME IInv, NEW c \in Clients, Client(c)
  PROVE  IInv'
<1> USE Typed DEF IInv
<1>1. ASSUME Connects(c) \/ Leaves(c) PROVE IInv'
  <2>0. /\ UNCHANGED <<table, server, stream, sends, cut>>
        /\ typed' = typed \/ (link[c] = "open" /\ typed' = [typed EXCEPT ![c] = {}])
    BY <1>1 DEF Connects, Leaves, client
  <2>1. PICK l \in {"open", "left", "reset"} : link' = [link EXCEPT ![c] = l]
    BY <1>1 DEF Connects, Leaves
  <2>2. l = "open" => link[c] = "none" /\ typed' = typed
    BY <1>1, <2>1 DEF Connects, Leaves, client
  <2>7. ASSUME NEW d \in Clients, link'[d] \in {"none", "open"}
        PROVE  link[d] \in {"none", "open"} /\ typed'[d] = typed[d]
    BY <2>0, <2>1, <2>2, <2>7 DEF TypeOK
  <2>3. \A d \in Accepted : link'[d] # "none" /\ (link'[d] = "open" => link[d] = "open")
    BY <2>1, <2>2 DEF TableInv, Accepted
  <2>4. TypeOK'
    <3>1. typed' \in [Clients -> SUBSET Numbers]
      BY <2>0 DEF TypeOK
    <3>2. link' \in [Clients -> {"none", "open", "left", "reset", "dead"}]
      BY <2>1 DEF TypeOK
    <3> QED BY <2>0, <3>1, <3>2 DEF TypeOK, table, server, stream, numclient, Accepted
  <2>5. TableInv' /\ CountedWasSent'
    BY <2>0, <2>3, <2>7 DEF TableInv, CountedWasSent, table, numclient, Accepted
  <2>6. InboxInv'
    BY <2>0, <2>3, <2>7 DEF InboxInv, AtHand, server, stream, TypeOK
  <2> QED BY <2>4, <2>5, <2>6
<1>2. ASSUME NEW n \in Numbers, Sends(c, n) PROVE IInv'
  <2>0. /\ UNCHANGED <<table, server, link, rest, cut>> /\ sends' = sends + 1 /\ sends < MaxSends
        /\ typed' = [typed EXCEPT ![c] = @ \union {n}]
        /\ inbox' = [inbox EXCEPT ![c] = Append(@, n)]
    BY <1>2 DEF Sends
  <2>1. inbox' \in [Clients -> Seq(Numbers)]
    BY <2>0
  <2>2. typed' \in [Clients -> SUBSET Numbers] /\ \A d \in Clients : typed[d] \subseteq typed'[d]
    BY <2>0 DEF TypeOK
  <2>3. TypeOK'
    BY <2>0, <2>1, <2>2, SizeAssumption DEF TypeOK, table, server, numclient, Accepted
  <2>4. TableInv'
    BY <2>0 DEF TableInv, table, numclient
  <2>5. InboxInv'
    <3>1. ASSUME NEW d \in Clients, NEW k \in 1..Len(inbox'[d])
          PROVE  link[d] \in {"none", "open"} => inbox'[d][k] \in typed'[d]
      <4>1. CASE d # c
        BY <2>0, <2>2, <3>1, <4>1 DEF InboxInv
      <4>2. CASE d = c
        <5>1. inbox'[c] = Append(inbox[c], n) /\ inbox[c] \in Seq(Numbers)
          BY <2>0
        <5>2. n \in typed'[c]
          BY <2>0 DEF TypeOK
        <5>3. CASE k = Len(inbox[c]) + 1
          BY <4>2, <5>1, <5>2, <5>3
        <5>4. CASE k \in 1..Len(inbox[c])
          <6>1. inbox'[c][k] = inbox[c][k]
            BY <5>1, <5>4, AppendFacts
          <6>2. inbox[c][k] \in typed[c]
            BY <5>4, <1>2 DEF InboxInv, Sends
          <6> QED BY <2>2, <4>2, <6>1, <6>2
        <5> QED BY <4>2, <5>1, <5>3, <5>4
      <4> QED BY <4>1, <4>2
    <3>2. ASSUME NEW d \in curfds, link[d] = "open" PROVE AtHand(d)'
      <4>1. d \in Clients /\ AtHand(d)
        BY <3>2 DEF InboxInv, TypeOK
      <4>2. CASE d = c
        <5>1. inbox'[c] = Append(inbox[c], n) /\ inbox[c] \in Seq(Numbers)
          BY <2>0
        <5>2. Append(inbox[c], n) # <<>>
          BY <5>1, AppendFacts
        <5> QED BY <4>2, <5>1, <5>2 DEF AtHand
      <4>3. CASE d # c
        BY <2>0, <4>1, <4>3 DEF AtHand
      <4> QED BY <4>2, <4>3
    <3> QED BY <2>0, <3>1, <3>2 DEF InboxInv, server
  <2>6. CountedWasSent'
    BY <2>0, <2>2 DEF CountedWasSent, table, numclient
  <2> QED BY <2>3, <2>4, <2>5, <2>6
<1> QED BY <1>1, <1>2 DEF Client
-----------------------------------------------------------------------------
LEMMA StutterInv == ASSUME IInv, UNCHANGED vars PROVE IInv'
<1>0. /\ UNCHANGED <<clientsockfd, max_received, alive, curfds, printed, link>>
      /\ UNCHANGED <<inbox, rest, typed, sends, cut>>
  BY DEF vars, table, server, stream, client
<1>1. TypeOK'
  BY <1>0 DEF IInv, TypeOK, numclient, Accepted
<1>2. TableInv' /\ InboxInv'
  BY <1>0 DEF IInv, TableInv, InboxInv, AtHand, numclient
<1>3. CountedWasSent'
  BY <1>0 DEF IInv, CountedWasSent, numclient
<1> QED BY <1>1, <1>2, <1>3 DEF IInv

(* The inductive invariant holds in every behaviour. *)
THEOREM Invariance == Spec => []IInv
<1>1. Init => IInv
  BY InitInv
<1>2. IInv /\ [Next]_vars => IInv'
  <2> SUFFICES ASSUME IInv, [Next]_vars PROVE IInv'
    OBVIOUS
  <2>1. CASE UNCHANGED vars
    BY <2>1, StutterInv
  <2>2. CASE Server
    BY <2>2, SelectInv, ReadInv, EndInv DEF Server
  <2>3. CASE \E c \in Clients : Client(c)
    BY <2>3, ClientInv
  <2> QED BY <2>1, <2>2, <2>3 DEF Next
<1> QED BY <1>1, <1>2, PTL DEF Spec

(* Every variable keeps its type and the table is never overrun, for any   *)
(* number of clients and any MAX_CL (chatserver.c:51, 59, 67).             *)
THEOREM Types == Spec => []TypeOK
<1>1. IInv => TypeOK
  BY DEF IInv
<1> QED BY <1>1, Invariance, PTL

(* What is counted for a client that is still connected was sent by it,    *)
(* unless a part of a number cut by recv was read as its number of this    *)
(* round (chatserver.c:77-79, 95-97, 126).                                 *)
THEOREM CountsWhatWasSent == Spec => []CountedWasSent
<1>1. IInv => CountedWasSent
  BY DEF IInv
<1> QED BY <1>1, Invariance, PTL
-----------------------------------------------------------------------------
(* The number of the client at a position is the one at that position,     *)
(* whatever position CHOOSE finds it at.                                   *)
LEMMA Lookup ==
  ASSUME NEW s, NEW m, NEW n \in Nat, NEW i \in 1..n,
         \A j, k \in 1..n : s[j] = s[k] => j = k
  PROVE  /\ {j \in 1..n : s[j] = s[i]} # {}
         /\ m[CHOOSE j \in {k \in 1..n : s[k] = s[i]} : TRUE] = m[i]
<1>1. {j \in 1..n : s[j] = s[i]} = {i}
  OBVIOUS
<1> QED BY <1>1

LEMMA GivenAt ==
  ASSUME TypeOK, TableInv
  PROVE  /\ \A i \in 1..numclient : Given(clientsockfd[i]) = max_received[i]
         /\ \A c \in Clients \ Accepted : Given(c) = INT_MIN
<1>1. ASSUME NEW i \in 1..numclient PROVE Given(clientsockfd[i]) = max_received[i]
  BY Typed, Lookup DEF TableInv, Given
<1>2. ASSUME NEW c \in Clients \ Accepted PROVE Given(c) = INT_MIN
  BY DEF Given, Accepted
<1> QED BY <1>1, <1>2

(* A step that leaves the table and the result alone is a stutter. *)
LEMMA Stutters ==
  ASSUME UNCHANGED <<clientsockfd, max_received, printed>>
  PROVE  UNCHANGED Abstract!roundVars
BY DEF Abstract!roundVars, Given, Accepted, numclient

(* An accept is a Join. *)
LEMMA AcceptJoins ==
  ASSUME IInv, SelectReturns, NEW c \in Pending, accept(c)
  PROVE  c \in Clients /\ Abstract!Join(c)
<1> USE DEF IInv
<1>1. /\ c \in Clients /\ c \notin Accepted /\ Accepted' = Accepted \union {c} /\ printed' = <<>>
      /\ numclient' = numclient + 1
      /\ \A i \in 1..numclient : clientsockfd'[i] = clientsockfd[i]
      /\ clientsockfd'[numclient + 1] = c
      /\ numclient \in Nat /\ numclient + 1 \in 1..MAX_CL
  BY AcceptAppends, Typed
<1>2. max_received' = max_received
  BY DEF SelectReturns
<1>3. ASSUME NEW d \in Clients PROVE Given(d)' = Given(d)
  <2>1. CASE d # c
    <3> DEFINE I == {i \in 1..numclient : clientsockfd[i] = d}
               J == {i \in 1..numclient' : clientsockfd'[i] = d}
    <3>1. J = I
      BY <1>1, <2>1
    <3>2. Given(d) = IF I = {} THEN INT_MIN ELSE max_received[CHOOSE i \in I : TRUE]
      BY DEF Given
    <3>3. Given(d)' = IF J = {} THEN INT_MIN ELSE max_received'[CHOOSE i \in J : TRUE]
      BY DEF Given
    <3> HIDE DEF I, J
    <3> QED BY <1>2, <3>1, <3>2, <3>3
  <2>2. CASE d = c
    <3>1. Given(d) = INT_MIN
      BY <1>1, <2>2, GivenAt
    <3>2. {i \in 1..(numclient + 1) : clientsockfd'[i] = d} = {numclient + 1}
      <4>1. \A i \in 1..numclient : clientsockfd'[i] # c
        BY <1>1 DEF Accepted
      <4> QED BY <1>1, <2>2, <4>1
    <3>3. max_received[numclient + 1] = INT_MIN
      BY <1>1 DEF TableInv
    <3> QED BY <1>1, <1>2, <3>1, <3>2, <3>3 DEF Given
  <2> QED BY <2>1, <2>2
<1>4. [d \in Clients |-> Given(d)]' = [d \in Clients |-> Given(d)]
  BY <1>3
<1> QED BY <1>1, <1>4 DEF Abstract!Join

(* A number that is counted is given by a member of a round of two or      *)
(* more; one that is not leaves everything as it is.                       *)
LEMMA ReadGives ==
  ASSUME IInv, NEW i \in 1..numclient, ReadsClient(i)
  PROVE  \/ UNCHANGED Abstract!roundVars
         \/ \E n \in Numbers : Abstract!Give(clientsockfd[i], n)
<1> USE Typed DEF IInv
<1> DEFINE c == clientsockfd[i]
<1>0. c \in Clients /\ UNCHANGED clientsockfd
  BY DEF ReadsClient
<1>1. CASE UNCHANGED <<max_received, printed>>
  BY <1>0, <1>1, Stutters
<1>2. ASSUME NEW n \in Garbage,
             numclient >= 2, max_received[i] = INT_MIN,
             max_received' = [max_received EXCEPT ![i] = n],
             printed' = IF n = INT_MIN THEN printed ELSE <<>>
      PROVE  \/ UNCHANGED Abstract!roundVars
             \/ \E m \in Numbers : Abstract!Give(c, m)
  <2>1. CASE n = INT_MIN
    <3>1. max_received' = max_received /\ printed' = printed
      BY <1>2, <2>1 DEF TypeOK
    <3> QED BY <1>0, <3>1, Stutters
  <2>2. CASE n # INT_MIN
    <3>1. n \in Numbers /\ printed' = <<>>
      BY <1>2, <2>2
    <3>2. c \in Accepted /\ Accepted' = Accepted /\ numclient' = numclient
      BY <1>0 DEF Accepted, numclient
    <3>3. Given(c) = INT_MIN
      BY <1>2, GivenAt
    <3>4. Accepted # {c}
      <4>1. PICK j \in 1..numclient : j # i
        BY <1>2
      <4> QED BY <4>1 DEF TableInv, Accepted
    <3>5. \A j, k \in 1..numclient : clientsockfd[j] = clientsockfd[k] => j = k
      BY DEF TableInv
    <3>6. ASSUME NEW d \in Clients
          PROVE  Given(d)' = IF d = c THEN n ELSE Given(d)
      <4>1. CASE d \notin Accepted
        BY <1>0, <3>2, <4>1 DEF Given, Accepted
      <4>2. ASSUME NEW j \in 1..numclient, d = clientsockfd[j]
            PROVE  Given(d)' = IF d = c THEN n ELSE Given(d)
        <5>1. Given(d) = max_received[j]
          BY <4>2, GivenAt
        <5>2. Given(d)' = max_received'[j]
          BY <1>0, <3>2, <3>5, <4>2, Lookup DEF Given
        <5>3. d = c <=> j = i
          BY <3>5, <4>2
        <5>4. j \in 1..MAX_CL /\ max_received \in [1..MAX_CL -> Garbage]
          BY DEF TypeOK
        <5> QED BY <1>2, <5>1, <5>2, <5>3, <5>4
      <4> QED BY <4>1, <4>2 DEF Accepted
    <3>7. [d \in Clients |-> Given(d)]' = [[d \in Clients |-> Given(d)] EXCEPT ![c] = n]
      BY <1>0, <3>6
    <3> QED BY <1>0, <3>1, <3>2, <3>3, <3>4, <3>7 DEF Abstract!Give
  <2> QED BY <2>1, <2>2
<1>3. PICK k \in 0..Len(inbox[c]), cuts \in BOOLEAN, l \in AfterRecv(c) :
        /\ Recv(c, k, cuts)
        /\ IF Insufficient \/ max_received[i] # INT_MIN
             THEN Respond(c, l) /\ UNCHANGED <<max_received, printed, cut>>
             ELSE /\ \E n \in nn(c, k) :
                       /\ max_received' = [max_received EXCEPT ![i] = n]
                       /\ printed' = IF n = INT_MIN THEN printed ELSE <<>>
                  /\ cut' = IF AtHand(c) /\ ~WholeFirst(c, k) THEN cut \union {c} ELSE cut
                  /\ link' = [link EXCEPT ![c] = l]
                  /\ UNCHANGED alive
  BY DEF ReadsClient
<1>n. nn(c, k) \subseteq Garbage
  BY <1>0, <1>3, RecvShrinks
<1>4. \/ UNCHANGED <<max_received, printed>>
      \/ \E n \in Garbage :
           /\ numclient >= 2 /\ max_received[i] = INT_MIN
           /\ max_received' = [max_received EXCEPT ![i] = n]
           /\ printed' = IF n = INT_MIN THEN printed ELSE <<>>
  BY <1>3, <1>n DEF Insufficient
<1> QED BY <1>1, <1>2, <1>4

(* The end of a round is a Finish. *)
LEMMA EndFinishes == ASSUME IInv, EndsRound PROVE Abstract!Finish
<1> USE Typed DEF IInv
<1>1. PICK i \in 1..numclient : IsWinner(i) /\ printed' = <<clientsockfd[i], max_received[i]>>
  BY DEF EndsRound
<1>2. /\ RoundComplete /\ max_received' = [k \in 1..MAX_CL |-> INT_MIN]
      /\ UNCHANGED clientsockfd
  BY DEF EndsRound
<1>3. \A j \in 1..numclient : Given(clientsockfd[j]) = max_received[j]
  BY GivenAt
<1>4. \A p \in Accepted : Given(p) # INT_MIN
  BY <1>2, <1>3 DEF RoundComplete, Accepted
<1>5. \E p, q \in Accepted : p # q
  <2>1. numclient >= 2
    BY <1>1, <1>2 DEF RoundComplete, TableInv
  <2>2. 1 \in 1..numclient /\ 2 \in 1..numclient
    BY <2>1
  <2>3. clientsockfd[1] # clientsockfd[2]
    BY <2>2 DEF TableInv
  <2> QED BY <2>2, <2>3 DEF Accepted
<1>6. clientsockfd[i] \in Accepted /\ Accepted \subseteq Clients
  BY DEF Accepted
<1>7. \A q \in Accepted : Given(q) <= Given(clientsockfd[i])
  BY <1>1, <1>3 DEF IsWinner, Accepted
<1>8. printed' = <<clientsockfd[i], Given(clientsockfd[i])>>
  BY <1>1, <1>3
<1>9. \A c \in Clients : Given(c)' = INT_MIN
  <2> SUFFICES ASSUME NEW c \in Clients PROVE Given(c)' = INT_MIN
    OBVIOUS
  <2>1. CASE {j \in 1..numclient : clientsockfd[j] = c} = {}
    BY <1>2, <2>1 DEF Given, numclient
  <2>2. CASE {j \in 1..numclient : clientsockfd[j] = c} # {}
    <3> DEFINE k == CHOOSE j \in {j \in 1..numclient : clientsockfd[j] = c} : TRUE
    <3>1. k \in 1..MAX_CL
      BY <2>2
    <3> QED BY <1>2, <2>2, <3>1 DEF Given, numclient
  <2> QED BY <2>1, <2>2
<1>10. [c \in Clients |-> Given(c)]' = [c \in Clients |-> INT_MIN]
  BY <1>9
<1>11. Accepted' = Accepted
  BY <1>2 DEF Accepted, numclient
<1> QED BY <1>4, <1>5, <1>6, <1>7, <1>8, <1>10, <1>11 DEF Abstract!Finish

(* The server implements the abstract rounds: for any clients and any size *)
(* of the table each round counts one number per member, ends when all     *)
(* members, two at least, have given theirs, and prints the largest        *)
(* (chatserver.c:57-133).                                                  *)
THEOREM Refinement == Spec => ImplementsRounds
<1>1. Init => Abstract!RoundInit
  BY DEF Init, Abstract!RoundInit, Given, Accepted, numclient
<1>2. IInv /\ [Next]_vars => [Abstract!RoundNext]_(Abstract!roundVars)
  <2> SUFFICES ASSUME IInv, [Next]_vars
               PROVE  Abstract!RoundNext \/ UNCHANGED Abstract!roundVars
    OBVIOUS
  <2>1. CASE UNCHANGED <<clientsockfd, max_received, printed>>
    BY <2>1, Stutters
  <2>2. CASE SelectReturns
    <3>1. ASSUME NEW c \in Pending, accept(c)
          PROVE  Abstract!RoundNext
      BY <2>2, <3>1, AcceptJoins DEF Abstract!RoundNext
    <3> QED BY <2>1, <2>2, <3>1 DEF SelectReturns
  <2>3. ASSUME NEW i \in 1..numclient, ReadsClient(i)
        PROVE  Abstract!RoundNext \/ UNCHANGED Abstract!roundVars
    <3>1. clientsockfd[i] \in Clients
      BY Typed DEF IInv
    <3> QED BY <2>3, <3>1, ReadGives DEF Abstract!RoundNext
  <2>4. CASE EndsRound
    BY <2>4, EndFinishes DEF Abstract!RoundNext
  <2>5. \/ UNCHANGED <<clientsockfd, max_received, printed>>
        \/ Server
    BY DEF Next, vars, table, server, Client, Connects, Sends, Leaves
  <2> QED BY <2>1, <2>2, <2>3, <2>4, <2>5 DEF Server
<1> QED BY <1>1, <1>2, Invariance, PTL
        DEF Spec, ImplementsRounds, Abstract!RoundSpec
=============================================================================
