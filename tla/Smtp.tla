-------------------------------- MODULE Smtp --------------------------------
(***************************************************************************)
(* The mail server of LA6: an accept loop that starts one thread per       *)
(* connection, the session each thread runs over the socket it was handed, *)
(* and the mailbox files all threads append to and read.  The client sends *)
(* one command and waits for the response.  A descriptor is named by the   *)
(* connection it was opened for, a thread by the accept it was created for.*)
(***************************************************************************)
EXTENDS Integers, Sequences, FiniteSets

CONSTANTS
  Clients,     \* the clients, their connections and the threads
  Domains,     \* mail domains of HELO
  Others,      \* what other addresses have for a domain: none, or one of no HELO
  Boxes,       \* recipients, one mailbox file each
  MaxMails,    \* bound on the mails for each mailbox
  MaxFails,    \* bound on the writes that fail, for each mailbox
  None,        \* no domain, no sender, no recipient, no socket
  Torn         \* in a mailbox: a piece of a message that was not written whole

ASSUME NoneAssumption == None \notin Domains \union Boxes \union Clients \union Others
ASSUME TornAssumption == Torn \notin Domains \union Others
ASSUME BoundsAssumption == MaxMails \in Nat /\ MaxFails \in Nat
ASSUME ClientsAssumption == IsFiniteSet(Clients)

(* A sender is known by the domain of its address. *)
Senders == Domains \union Others
Command(v, a, n) == [verb |-> v, arg |-> a, id |-> n]
NoCommand == Command("none", None, 0)
Commands == {Command("HELO", d, 0) : d \in Domains}
              \union {Command("MAIL", d, 0) : d \in Senders}
              \union {Command(v, r, 0) : v \in {"RCPT", "LIST"}, r \in Boxes}
              \union {Command("GET_MAIL", r, n) : r \in Boxes, n \in 1..MaxMails}
              \union {Command(v, None, 0) : v \in {"DATA", "QUIT", "bad"}}

VARIABLES
  box,           \* recipient -> what its file holds, each message by its sender
  exists,        \* the mailbox files that exist
  acked,         \* history: recipient -> number of DATA commands answered 200
  failed,        \* history: recipient -> number of writes that failed
  apc, client_socket,  \* accept loop: control point and its local variable
  open,          \* sockets open in the server
  pc, socket,    \* thread: control point; its copy of the descriptor
  state, email_domain, sender, recipient,  \* thread: the locals of the session
  refused,       \* thread: history, a MAIL FROM was refused since the last granted
                 \* MAIL FROM, HELO or DATA
  cpc,           \* client: control point
  cmd, reply     \* connection: command, and response code, in flight

files   == <<box, exists, acked, failed>>
accepts == <<apc, client_socket>>
session == <<state, email_domain, sender, recipient, refused>>
thread  == <<pc, socket>>
vars == <<files, accepts, open, thread, session, cpc, cmd, reply>>

(* The codes 400, 401, 403 and 500 are one: nobody acts on the difference. *)
NoReply == 0
Success == 200
Failure == 400
-----------------------------------------------------------------------------
Init ==
  /\ box = [r \in Boxes |-> <<>>] /\ exists = {}
  /\ acked = [r \in Boxes |-> 0] /\ failed = [r \in Boxes |-> 0]
  /\ apc = "accept" /\ client_socket = None
  /\ open = {}
  /\ pc = [t \in Clients |-> "none"]
  /\ socket = [t \in Clients |-> None]
  /\ state = [t \in Clients |-> 0]
  /\ email_domain = [t \in Clients |-> None]
  /\ sender = [t \in Clients |-> None]
  /\ recipient = [t \in Clients |-> None]
  /\ refused = [t \in Clients |-> FALSE]
  /\ cpc = [c \in Clients |-> "start"]
  /\ cmd = [c \in Clients |-> NoCommand]
  /\ reply = [c \in Clients |-> NoReply]
-----------------------------------------------------------------------------
(* The accept loop.  The new thread is given the address of client_socket, *)
(* a local variable that the next accept overwrites.                       *)

Accept(c) ==
  /\ apc = "accept" /\ cpc[c] = "connecting"
  /\ cpc' = [cpc EXCEPT ![c] = "ready"]
  /\ open' = open \union {c}
  /\ client_socket' = c
  /\ apc' = "create"
  /\ UNCHANGED <<files, thread, session, cmd, reply>>

AcceptFails ==
  /\ apc = "accept" /\ \E c \in Clients : cpc[c] = "connecting"
  /\ client_socket' = None
  /\ UNCHANGED <<files, apc, open, thread, session, cpc, cmd, reply>>

CreateThread ==
  /\ apc = "create"
  /\ apc' = "accept"
  /\ \/ pc' = [pc EXCEPT ![client_socket] = "start"] /\ UNCHANGED open
     \/ open' = open \ {client_socket} /\ UNCHANGED pc
  /\ UNCHANGED <<files, client_socket, socket, session, cpc, cmd, reply>>

ThreadStarts(t) ==
  /\ pc[t] = "start"
  /\ socket' = [socket EXCEPT ![t] = client_socket]
  /\ pc' = [pc EXCEPT ![t] = "recv"]
  /\ UNCHANGED <<files, accepts, open, session, cpc, cmd, reply>>
-----------------------------------------------------------------------------
(* handle_client: a thread receives a command and carries it out. *)

Peeks(t, v) ==                                 \* mutant: the command is not consumed
  /\ pc[t] = "recv" /\ socket[t] \in open
  /\ cmd[socket[t]].verb = v
  /\ UNCHANGED cmd
Receives(t, v) ==
  /\ pc[t] = "recv" /\ socket[t] \in open
  /\ cmd[socket[t]].verb = v
  /\ cmd' = [cmd EXCEPT ![socket[t]] = NoCommand]
arg(t) == cmd[socket[t]].arg

Goto(t, p) == pc' = [pc EXCEPT ![t] = p]

(* recv returns 0 or an error: the client is gone, or the descriptor was   *)
(* closed by another thread or never valid.                                *)
Return(t) ==                                   \* close, and the locals are gone
  /\ open' = open \ {socket[t]}
  /\ Goto(t, "done")
  /\ socket' = [socket EXCEPT ![t] = None]
  /\ state' = [state EXCEPT ![t] = 0]
  /\ email_domain' = [email_domain EXCEPT ![t] = None]
  /\ sender' = [sender EXCEPT ![t] = None]
  /\ recipient' = [recipient EXCEPT ![t] = None]
  /\ refused' = [refused EXCEPT ![t] = FALSE]

ThreadEnds(t) ==
  /\ pc[t] = "recv"
  /\ socket[t] \in open => cpc[socket[t]] = "gone" /\ cmd[socket[t]] = NoCommand
  /\ Return(t)
  /\ UNCHANGED <<files, accepts, cpc, cmd, reply>>

Respond(t, code) ==                            \* send_response
  reply' = IF socket[t] \in open /\ cpc[socket[t]] # "gone"
             THEN [reply EXCEPT ![socket[t]] = code] ELSE reply

Advance(t, k) == state' = [state EXCEPT ![t] = @ + 1]   \* mutant: state++
Enter(t, k)   == state' = [state EXCEPT ![t] = k]

HELO(t) ==
  /\ Receives(t, "HELO")
  /\ email_domain' = [email_domain EXCEPT ![t] = arg(t)]
  /\ Enter(t, 1)
  /\ refused' = [refused EXCEPT ![t] = FALSE]
  /\ Respond(t, Success)
  /\ UNCHANGED <<files, accepts, open, thread, sender, recipient, cpc>>

(* The address is stored before its domain is compared, and a refusal      *)
(* leaves the state as it was.                                             *)
AnyDomain(t)     == TRUE                        \* mutant: no comparison
DomainMatches(t) == arg(t) = email_domain[t]
MailFrom(t) ==
  /\ Receives(t, "MAIL") /\ state[t] >= 1
  /\ sender' = [sender EXCEPT ![t] = arg(t)]
  /\ IF DomainMatches(t)
       THEN /\ Enter(t, 2)
            /\ refused' = [refused EXCEPT ![t] = FALSE]
            /\ Respond(t, Success)
       ELSE /\ refused' = [refused EXCEPT ![t] = TRUE]
            /\ Respond(t, Failure)
            /\ UNCHANGED state
  /\ UNCHANGED <<files, accepts, open, thread, email_domain, recipient, cpc>>

RcptTo(t) ==
  /\ Receives(t, "RCPT") /\ state[t] >= 2
  /\ recipient' = [recipient EXCEPT ![t] = arg(t)]
  /\ Enter(t, 3)
  /\ Respond(t, Success)
  /\ UNCHANGED <<files, accepts, open, thread, email_domain, sender, refused, cpc>>

(* A command that comes too early (403) or cannot be parsed (400). *)
Refuse(t) ==
  /\ \/ Receives(t, "MAIL") /\ state[t] < 1 /\ Respond(t, Failure)
     \/ Receives(t, "RCPT") /\ state[t] < 2 /\ Respond(t, Failure)
     \/ Receives(t, "DATA") /\ state[t] < 3 /\ Respond(t, Failure)
     \/ Receives(t, "bad") /\ Respond(t, Failure)
  /\ UNCHANGED <<files, accepts, open, thread, session, cpc>>

(* DATA: store_email opens the file for appending, which creates it, and   *)
(* writes the message when it closes it; then the session starts afresh.   *)
(* The results of fprintf and fclose are ignored: on a full disk nothing,  *)
(* or a piece of the message, is in the file, and the answer is still 200. *)
OpensMailbox(t) ==
  /\ Receives(t, "DATA") /\ state[t] >= 3
  /\ exists' = exists \union {recipient[t]}
  /\ Goto(t, "write")
  /\ UNCHANGED <<box, acked, failed, accepts, open, socket, session, cpc, reply>>

Truncates(t) == box' = [box EXCEPT ![recipient[t]] = <<sender[t]>>]  \* mutant: "w"
Appends(t)   == box' = [box EXCEPT ![recipient[t]] = Append(@, sender[t])]

WriteFails(t) ==
  /\ failed[recipient[t]] < MaxFails
  /\ \/ UNCHANGED box
     \/ box' = [box EXCEPT ![recipient[t]] = Append(@, Torn)]
  /\ failed' = [failed EXCEPT ![recipient[t]] = @ + 1]

WritesMessage(t) ==
  /\ pc[t] = "write"
  /\ \/ Appends(t) /\ UNCHANGED failed
     \/ WriteFails(t)
  /\ Goto(t, "stored")
  /\ UNCHANGED <<exists, acked, accepts, open, socket, session, cpc, cmd, reply>>

DataAnswered(t, code) ==
  /\ Enter(t, 0)
  /\ refused' = [refused EXCEPT ![t] = FALSE]
  /\ Respond(t, code)
  /\ UNCHANGED <<box, exists, failed, accepts, open, socket>>
  /\ UNCHANGED <<email_domain, sender, recipient, cpc>>

AnswersStored(t) ==
  /\ pc[t] = "stored"
  /\ acked' = [acked EXCEPT ![recipient[t]] = @ + 1]
  /\ DataAnswered(t, Success)
  /\ Goto(t, "recv") /\ UNCHANGED cmd

AnswersFailed(t) ==
  /\ Receives(t, "DATA") /\ state[t] >= 3
  /\ DataAnswered(t, Failure)
  /\ UNCHANGED <<pc, acked>>

(* LIST and GET_MAIL are served in every state.  A message is found by its *)
(* first line; behind a torn one this need not be the beginning of a line, *)
(* and a torn one may have a first line of its own.                        *)
Whole(r)  == {k \in 1..Len(box[r]) : box[r][k] # Torn}
Intact(r) == {k \in Whole(r) : k = 1 \/ k - 1 \in Whole(r)}

ListMails(t) ==
  /\ Receives(t, "LIST")
  /\ Respond(t, IF arg(t) \in exists THEN Success ELSE Failure)
  /\ UNCHANGED <<files, accepts, open, thread, session, cpc>>

GetMail(t) ==
  /\ Receives(t, "GET_MAIL")
  /\ \E n \in Cardinality(Intact(arg(t)))..Len(box[arg(t)]) :
       Respond(t, IF arg(t) \in exists /\ cmd[socket[t]].id <= n THEN Success ELSE Failure)
  /\ UNCHANGED <<files, accepts, open, thread, session, cpc>>

Quit(t) ==
  /\ Receives(t, "QUIT")
  /\ Respond(t, Success)
  /\ Return(t)
  /\ UNCHANGED <<files, accepts, cpc>>

Thread(t) ==
  \/ ThreadStarts(t) \/ ThreadEnds(t)
  \/ HELO(t) \/ MailFrom(t) \/ RcptTo(t) \/ Refuse(t)
  \/ OpensMailbox(t) \/ WritesMessage(t) \/ AnswersStored(t) \/ AnswersFailed(t)
  \/ ListMails(t) \/ GetMail(t) \/ Quit(t)

(* The server process is killed, at any point, and started again: the      *)
(* mailbox files stay, everything in memory and the message being written  *)
(* are lost, and the clients find their connections reset.                 *)
Restart ==
  /\ \E t \in Clients : pc[t] \notin {"none", "done"}
  /\ apc' = "accept" /\ client_socket' = None /\ open' = {}
  /\ pc' = [t \in Clients |-> IF pc[t] = "none" THEN "none" ELSE "done"]
  /\ socket' = [t \in Clients |-> None]
  /\ state' = [t \in Clients |-> 0]
  /\ email_domain' = [t \in Clients |-> None]
  /\ sender' = [t \in Clients |-> None]
  /\ recipient' = [t \in Clients |-> None]
  /\ refused' = [t \in Clients |-> FALSE]
  /\ cpc' = [c \in Clients |-> IF cpc[c] = "start" THEN "start" ELSE "gone"]
  /\ cmd' = [c \in Clients |-> NoCommand]
  /\ reply' = [c \in Clients |-> NoReply]
  /\ UNCHANGED files
-----------------------------------------------------------------------------
(* The client: one command at a time. *)

Connect(c) ==
  /\ cpc[c] = "start"
  /\ cpc' = [cpc EXCEPT ![c] = "connecting"]
  /\ UNCHANGED <<files, accepts, open, thread, session, cmd, reply>>

(* MaxMails bounds the messages that were to be stored or are on their way.*)
Writers == {t \in Clients : pc[t] \in {"write", "stored"}}
Under(q) ==
  q.verb = "DATA" =>
    \A r \in Boxes : Cardinality(Whole(r)) + failed[r] + Cardinality(Writers)
                     + Cardinality({c \in Clients : cmd[c].verb = "DATA"}) < MaxMails

SendCommand(c) ==
  /\ cpc[c] = "ready"
  /\ \E q \in Commands :
       /\ Under(q)
       /\ cmd' = [cmd EXCEPT ![c] = q]
       /\ cpc' = [cpc EXCEPT ![c] = IF q.verb = "QUIT" THEN "quit" ELSE "wait"]
  /\ UNCHANGED <<files, accepts, open, thread, session, reply>>

ReceiveResponse(c) ==
  /\ cpc[c] \in {"wait", "quit"} /\ reply[c] # NoReply
  /\ cpc' = [cpc EXCEPT ![c] = IF cpc[c] = "quit" THEN "gone" ELSE "ready"]
  /\ reply' = [reply EXCEPT ![c] = NoReply]
  /\ UNCHANGED <<files, accepts, open, thread, session, cmd>>

(* End of input, a failed call or a crash. *)
Leave(c) ==
  /\ cpc[c] \in {"ready", "wait", "quit"}
  /\ cpc' = [cpc EXCEPT ![c] = "gone"]
  /\ reply' = [reply EXCEPT ![c] = NoReply]
  /\ UNCHANGED <<files, accepts, open, thread, session, cmd>>

Client(c) == Connect(c) \/ SendCommand(c) \/ ReceiveResponse(c) \/ Leave(c)
-----------------------------------------------------------------------------
Next ==
  \/ AcceptFails \/ CreateThread \/ Restart
  \/ \E c \in Clients : Accept(c) \/ Thread(c) \/ Client(c)

Spec == Init /\ [][Next]_vars
-----------------------------------------------------------------------------
(* Every variable keeps its type. *)
TypeOK ==
  /\ box \in [Boxes -> Seq(Senders \union {Torn})] /\ exists \subseteq Boxes
  /\ acked \in [Boxes -> Nat] /\ failed \in [Boxes -> Nat]
  /\ apc \in {"accept", "create"} /\ client_socket \in Clients \union {None}
  /\ open \subseteq Clients
  /\ pc \in [Clients -> {"none", "start", "recv", "write", "stored", "done"}]
  /\ socket \in [Clients -> Clients \union {None}]
  /\ state \in [Clients -> 0..3]
  /\ email_domain \in [Clients -> Domains \union {None}]
  /\ sender \in [Clients -> Senders \union {None}]
  /\ recipient \in [Clients -> Boxes \union {None}]
  /\ refused \in [Clients -> BOOLEAN]
  /\ cpc \in [Clients -> {"start", "connecting", "ready", "wait", "quit", "gone"}]
  /\ cmd \in [Clients -> Commands \union {NoCommand}]
  /\ reply \in [Clients -> {NoReply, Success, Failure}]

(* A message goes into a mailbox only with a sender of the HELO domain, or *)
(* after a MAIL FROM that was refused: re-identification, repeated MAIL    *)
(* FROM and RCPT TO in any order open no other way (mysmtp_server.c:150-   *)
(* 205).                                                                   *)
SenderChecked ==
  \A t \in Clients : t \in Writers =>
                       sender[t] = email_domain[t] \/ refused[t]

(* A message answered with 200 is in the mailbox unless the write itself   *)
(* failed: neither other threads that store into the same file nor a kill  *)
(* of the server cost one that was acknowledged, and a failed write costs  *)
(* no message but its own (mysmtp_server.c:189-205, 244-267).              *)
AckedIsStored == \A r \in Boxes : acked[r] <= Cardinality(Whole(r)) + failed[r]

(* What is in a mailbox keeps its place, whatever is stored or fails to be *)
(* stored behind it: the number by which GET_MAIL finds a message never    *)
(* changes (mysmtp_server.c:248, 259-265, 330-336).                        *)
IdsStable == [][\A r \in Boxes : SubSeq(box'[r], 1, Len(box[r])) = box[r]]_vars

(* Where the command of a client is: under way, in the hands of a thread,  *)
(* or answered.                                                            *)
Holders(c) == {t \in Writers : socket[t] = c}
Places(c) == Cardinality(Holders(c)) + (IF cmd[c] # NoCommand THEN 1 ELSE 0)
                                     + (IF reply[c] # NoReply THEN 1 ELSE 0)

(* No command is answered twice, and none is lost as long as its           *)
(* connection is open in the server: it is in exactly one place until the  *)
(* client has its answer, even when two threads read the same socket.      *)
(* (When pthread_create fails the accept loop closes a socket that another *)
(* thread may be serving, and the command in its hands is not answered.)   *)
(* mysmtp_server.c:114-117, 130, 140, 237-242.                             *)
OnePlace ==
  \A c \in Clients :
    /\ Places(c) <= 1
    /\ cpc[c] \in {"wait", "quit"} /\ c \in open => Places(c) = 1
    /\ cpc[c] = "ready" => Places(c) = 0

(* Readme, "a dedicated thread is spawned to handle communication for that *)
(* client": no two threads work on one socket (mysmtp_server.c:104-130).   *)
DedicatedThread ==
  \A t, u \in Clients : socket[t] = socket[u] /\ socket[t] \in open => t = u

(* Readme, MAIL FROM: "the domain must match the one given in HELO".       *)
DomainMustMatch ==
  \A t \in Clients : t \in Writers => sender[t] = email_domain[t]
=============================================================================
