------------------------------- MODULE Rounds -------------------------------
(***************************************************************************)
(* The chat server of LT1 (set B): a single process that waits in select   *)
(* for connections and for one number per client and round, announces the  *)
(* largest, and starts the next round; and its clients, which type numbers *)
(* whenever they like and may leave.  A client, its connection and its     *)
(* descriptor share one name.                                              *)
(***************************************************************************)
EXTENDS Integers, Sequences, FiniteSets

CONSTANTS
  Clients,     \* clients that may connect, once each
  MAX_CL,      \* size of the table of clients
  Numbers,     \* numbers a client may type
  INT_MIN,     \* no number yet in this round
  MaxSends     \* bound on the numbers the clients send in all

ASSUME NumbersAssumption ==
  /\ INT_MIN \in Int /\ Numbers \subseteq Int
  /\ \A n \in Numbers : n > INT_MIN
ASSUME SizeAssumption == MAX_CL \in Nat /\ MaxSends \in Nat

VARIABLES
  clientsockfd,   \* the accepted connections, in the order of acceptance
  max_received,   \* position in clientsockfd -> number given in this round
  alive,          \* the server has not been killed by SIGPIPE
  curfds,         \* server: what select found readable and is still to be read
  printed,        \* the result of the round that has just ended, client and number
  link,           \* state of a connection as the server's socket sees it
  inbox,          \* numbers sent by a client of which nothing is received yet
  rest,           \* clients of which a number is received but for its end
  typed,          \* history: the numbers a client has sent, until it leaves
  cut,            \* history: clients for whom a part of a number was read as
                  \* their number of this round
  sends           \* count of all numbers sent, for the bound

table  == <<clientsockfd, max_received>>
server == <<alive, curfds, printed>>
stream == <<inbox, rest>>
client == <<typed, sends>>
vars   == <<table, server, link, stream, client, cut>>

numclient == Len(clientsockfd)
Accepted  == {clientsockfd[i] : i \in 1..numclient}
Pending   == {c \in Clients : link[c] # "none"} \ Accepted
-----------------------------------------------------------------------------
Init ==
  /\ clientsockfd = <<>>
  /\ max_received = [i \in 1..MAX_CL |-> INT_MIN]
  /\ alive = TRUE /\ curfds = {}
  /\ printed = <<>>
  /\ link = [c \in Clients |-> "none"]
  /\ inbox = [c \in Clients |-> <<>>] /\ rest = {}
  /\ typed = [c \in Clients |-> {}] /\ sends = 0 /\ cut = {}
-----------------------------------------------------------------------------
(* The connection.  A client that has left has closed its end ("left") or, *)
(* with data unread, reset the connection ("reset").  A close is followed  *)
(* by a reset sooner or later: in answer to the next send, and then before *)
(* the send after that one.  A reset connection fails the next recv or     *)
(* send and is dead then, one that was closed is dead with the reset, and  *)
(* a send on a dead one raises SIGPIPE, which ends the server.             *)

AfterSend(l) == IF l = "open" THEN "open" ELSE "dead"

AtHand(c) == c \in rest \/ inbox[c] # <<>>

(* Mutant: select over maxfd instead of maxfd + 1 descriptors, which       *)
(* leaves out the last.                                                    *)
ReadableBelowMax == {c \in {clientsockfd[i] : i \in 1..(numclient - 1)} :
                       AtHand(c) \/ link[c] # "open"}
Readable == {c \in Accepted : AtHand(c) \/ link[c] # "open"}

(* recv: bytes from the front of the stream, as many as the buffer and the *)
(* segments of TCP allow: the end of a number cut before, k whole numbers, *)
(* and perhaps a part of the one behind them.                              *)
Recv(c, k, cuts) ==
  /\ cuts => k < Len(inbox[c])
  /\ AtHand(c) => c \in rest \/ k > 0 \/ cuts
  /\ inbox' = [inbox EXCEPT ![c] = SubSeq(@, k + (IF cuts THEN 2 ELSE 1), Len(@))]
  /\ rest' = IF cuts THEN rest \union {c} ELSE rest \ {c}

(* sscanf reads the first number in the buffer.  Of a part it reads what   *)
(* its digits say; where there is no digit, or nothing at hand and the     *)
(* client gone, it assigns nothing and nn is whatever is on the stack.     *)
Garbage == Numbers \union {INT_MIN}
WholeFirst(c, k) == c \notin rest /\ k > 0
nnUnread(c, k) == Garbage                      \* mutant: the buffer is not read
nn(c, k) == IF WholeFirst(c, k) THEN {Head(inbox[c])} ELSE Garbage

AfterRecv(c) ==
  IF AtHand(c) THEN {link[c]}
  ELSE IF link[c] = "left" THEN {"left", "dead"} ELSE {"dead"}

Respond(c, l) ==
  IF l = "dead"
    THEN alive' = FALSE /\ UNCHANGED link
    ELSE link' = [link EXCEPT ![c] = AfterSend(l)] /\ UNCHANGED alive
-----------------------------------------------------------------------------
(* The server.  With the table full and a connection pending the loop      *)
(* returns to select at once and changes nothing; so does an accept that   *)
(* fails.                                                                  *)

acceptBeyond(c) ==                             \* mutant: a full table is not seen
  /\ clientsockfd' = Append(clientsockfd, c)
  /\ link' = [link EXCEPT ![c] = AfterSend(@)]
  /\ printed' = <<>>
accept(c) ==
  /\ numclient < MAX_CL
  /\ clientsockfd' = Append(clientsockfd, c)
  /\ link' = [link EXCEPT ![c] = AfterSend(@)]
  /\ printed' = <<>>

RoundComplete == \A i \in 1..numclient : max_received[i] # INT_MIN

(* The check for a complete round comes before each select but the first;  *)
(* nothing happens in between that it could notice.                        *)
SelectReturns ==
  /\ alive /\ curfds = {}
  /\ numclient > 0 => ~RoundComplete
  /\ \/ Pending = {} /\ Readable # {} /\ UNCHANGED <<clientsockfd, link, printed>>
     \/ \E c \in Pending : accept(c)
  /\ curfds' = Readable
  /\ UNCHANGED <<max_received, alive, stream, client, cut>>

(* The next client of the loop over those that select found readable. *)
IsNext(i) ==
  /\ clientsockfd[i] \in curfds
  /\ \A j \in 1..(i - 1) : clientsockfd[j] \notin curfds

FewerThanOne == numclient < 1                  \* mutants: off by one
FewerThanThree == numclient < 3
Insufficient == numclient < 2

ReadsClient(i) ==
  LET c == clientsockfd[i] IN
  /\ alive /\ IsNext(i)
  /\ curfds' = curfds \ {c}
  /\ \E k \in 0..Len(inbox[c]), cuts \in BOOLEAN, l \in AfterRecv(c) :
       /\ Recv(c, k, cuts)
       /\ IF Insufficient \/ max_received[i] # INT_MIN
            THEN Respond(c, l) /\ UNCHANGED <<max_received, printed, cut>>
            ELSE /\ \E n \in nn(c, k) :
                      /\ max_received' = [max_received EXCEPT ![i] = n]
                      /\ printed' = IF n = INT_MIN THEN printed ELSE <<>>
                 /\ cut' = IF AtHand(c) /\ ~WholeFirst(c, k) THEN cut \union {c} ELSE cut
                 /\ link' = [link EXCEPT ![c] = l]
                 /\ UNCHANGED alive
  /\ UNCHANGED <<clientsockfd, client>>

IsWinner(i) ==
  /\ \A j \in 1..numclient : max_received[j] <= max_received[i]
  /\ \A j \in 1..(i - 1) : max_received[j] < max_received[i]

(* The end of an iteration in which the round has become complete. *)
EndsRound ==
  /\ alive /\ curfds = {} /\ numclient > 0
  /\ RoundComplete
  /\ \E i \in 1..numclient :
       /\ IsWinner(i)
       /\ printed' = <<clientsockfd[i], max_received[i]>>
  /\ max_received' = [i \in 1..MAX_CL |-> INT_MIN]
  /\ link' = [c \in Clients |-> IF c \in Accepted THEN AfterSend(link[c]) ELSE link[c]]
  /\ alive' = \A c \in Accepted : link[c] # "dead"
  /\ cut' = {}
  /\ UNCHANGED <<clientsockfd, curfds, stream, client>>

Server == \/ SelectReturns
          \/ \E i \in 1..numclient : ReadsClient(i)
          \/ EndsRound
-----------------------------------------------------------------------------
(* A client.  What clients do once the server is gone is not followed. *)

Connects(c) ==
  /\ link[c] = "none"
  /\ link' = [link EXCEPT ![c] = "open"]
  /\ UNCHANGED <<table, server, stream, client, cut>>

Sends(c, n) ==
  /\ link[c] = "open"
  /\ sends < MaxSends /\ sends' = sends + 1
  /\ typed' = [typed EXCEPT ![c] = @ \union {n}]
  /\ inbox' = [inbox EXCEPT ![c] = Append(@, n)]
  /\ UNCHANGED <<table, server, link, rest, cut>>

Leaves(c) ==
  /\ link[c] = "open"
  /\ \E l \in {"left"} \union (IF c \in Accepted THEN {"reset"} ELSE {}) :
       link' = [link EXCEPT ![c] = l]
  /\ typed' = [typed EXCEPT ![c] = {}]
  /\ UNCHANGED <<table, server, stream, sends, cut>>

Client(c) == /\ alive
             /\ Connects(c) \/ Leaves(c) \/ \E n \in Numbers : Sends(c, n)
-----------------------------------------------------------------------------
Next == Server \/ \E c \in Clients : Client(c)

Spec == Init /\ [][Next]_vars

(* The server is one loop that always goes on; nothing is assumed of the   *)
(* clients.                                                                *)
FairSpec == Spec /\ WF_vars(Server)
-----------------------------------------------------------------------------
(* Every variable keeps its type, and the table is not overrun             *)
(* (chatserver.c:25, 51, 67, 97).                                          *)
TypeOK ==
  /\ clientsockfd \in Seq(Clients) /\ numclient <= MAX_CL
  /\ max_received \in [1..MAX_CL -> Garbage]
  /\ alive \in BOOLEAN
  /\ curfds \subseteq Accepted
  /\ printed \in (Clients \X Numbers) \union {<<>>}
  /\ link \in [Clients -> {"none", "open", "left", "reset", "dead"}]
  /\ inbox \in [Clients -> Seq(Numbers)] /\ rest \subseteq Clients /\ cut \subseteq Clients
  /\ typed \in [Clients -> SUBSET Numbers] /\ sends \in 0..MaxSends

Given(c) == LET I == {i \in 1..numclient : clientsockfd[i] = c}
            IN IF I = {} THEN INT_MIN ELSE max_received[CHOOSE i \in I : TRUE]

Abstract == INSTANCE NumberRounds WITH
              Players <- Clients, NoNumber <- INT_MIN, members <- Accepted,
              given <- [c \in Clients |-> Given(c)], result <- printed

(* A round counts one number per client, the first one received, takes no  *)
(* notice of duplicates, of numbers sent to a lonely server and of clients *)
(* that join, and prints their maximum (chatserver.c:75-133).              *)
ImplementsRounds == Abstract!RoundSpec

(* A number counted for a client that is still connected was sent by that  *)
(* client, unless it is one recv has cut in two: then this round, and no   *)
(* later one but that of its other part, may count a number nobody sent.   *)
(* For a client that has left the server counts an int it never received   *)
(* (chatserver.c:77-79, 95-97, 126).                                       *)
CountedWasSent ==
  \A i \in 1..numclient :
    LET c == clientsockfd[i] IN
    max_received[i] # INT_MIN /\ link[c] = "open" /\ c \notin cut
      => max_received[i] \in typed[c]

(* A pending connection that finds the table full keeps the server from    *)
(* reading its clients (chatserver.c:57-59).                               *)
Starving == Pending # {} /\ numclient = MAX_CL

(* A number that was sent is received, unless the server starves or was    *)
(* killed by the departure of a client: one client's silence or endless    *)
(* duplicates do not shut out the others (chatserver.c:53-100).            *)
NumbersAreRead ==
  \A c \in Clients :
    (c \in Accepted /\ AtHand(c)) ~> (~AtHand(c) \/ Starving \/ ~alive)

(* When every client has given its number or has sent one, the round ends  *)
(* with a result, unless another client joins or a number is cut in two,   *)
(* of which perhaps no part can be read: duplicates, numbers lost with     *)
(* them and silence after that do not hold it up (chatserver.c:84-133).    *)
AllIn == \A i \in 1..numclient : max_received[i] # INT_MIN \/ AtHand(clientsockfd[i])
RoundEnds ==
  \A n \in 2..MAX_CL :
    (AllIn /\ numclient = n)
      ~> (printed # <<>> \/ numclient > n \/ cut # {} \/ Starving \/ ~alive)
=============================================================================
