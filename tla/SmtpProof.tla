----------------------------- MODULE SmtpProof -----------------------------
(***************************************************************************)
(* Proofs about Smtp for any number of clients, domains and mailboxes and  *)
(* any bound on the mails.                                                 *)
(***************************************************************************)
EXTENDS Smtp, FiniteSetTheorems, TLAPS

Early   == {"start", "connecting"}
Idle    == Early \union {"ready"}

(* Who has a descriptor: only connections that were accepted, and the one  *)
(* a thread is about to be created for has no thread yet.                  *)
SocketInv ==
  /\ \A t \in Clients : socket[t] # None => cpc[socket[t]] \notin Early
  /\ client_socket # None => cpc[client_socket] \notin Early
  /\ apc = "create" => client_socket # None /\ pc[client_socket] = "none"
  /\ \A c \in Clients : cpc[c] \in Early => pc[c] = "none"

(* Where a command is: with the client, under way, in the hands of one     *)
(* thread, or answered - in one of them only.                              *)
CommandInv ==
  /\ \A t \in Writers : /\ socket[t] # None /\ cpc[socket[t]] \notin Idle
                        /\ cmd[socket[t]] = NoCommand /\ reply[socket[t]] = NoReply
  /\ \A t, u \in Writers : socket[t] = socket[u] => t = u
  /\ \A c \in Clients : cmd[c] # NoCommand => reply[c] = NoReply /\ cpc[c] \notin Idle
  /\ \A c \in Clients : reply[c] # NoReply => cpc[c] \in {"wait", "quit"}

(* And it is somewhere as long as the server has the connection open. *)
Somewhere(c) == \/ cmd[c] # NoCommand \/ reply[c] # NoReply
                \/ \E t \in Writers : socket[t] = c
NoneLost == \A c \in open : cpc[c] \in {"wait", "quit"} => Somewhere(c)

(* What the state of a session promises of its locals. *)
SessionInv ==
  \A t \in Clients :
    /\ state[t] >= 2 => /\ sender[t] \in Senders
                        /\ sender[t] = email_domain[t] \/ refused[t]
    /\ state[t] >= 3 => recipient[t] \in Boxes
    /\ t \in Writers => state[t] >= 3

(* A mailbox, with the writes that failed, accounts for what was           *)
(* acknowledged and for what is stored and will be.                        *)
Stored(r) == {t \in Clients : pc[t] = "stored" /\ recipient[t] = r}
StoreInv ==
  \A r \in Boxes :
    acked[r] + Cardinality(Stored(r)) <= Cardinality(Whole(r)) + failed[r]

(* The types, by who has the variables. *)
FileTypes ==
  /\ box \in [Boxes -> Seq(Senders \union {Torn})] /\ exists \subseteq Boxes
  /\ acked \in [Boxes -> Nat] /\ failed \in [Boxes -> Nat]
ServerTypes ==
  /\ apc \in {"accept", "create"} /\ client_socket \in Clients \union {None}
  /\ open \subseteq Clients
  /\ pc \in [Clients -> {"none", "start", "recv", "write", "stored", "done"}]
  /\ socket \in [Clients -> Clients \union {None}]
SessionTypes ==
  /\ state \in [Clients -> 0..3]
  /\ email_domain \in [Clients -> Domains \union {None}]
  /\ sender \in [Clients -> Senders \union {None}]
  /\ recipient \in [Clients -> Boxes \union {None}]
  /\ refused \in [Clients -> BOOLEAN]
WireTypes ==
  /\ cpc \in [Clients -> {"start", "connecting", "ready", "wait", "quit", "gone"}]
  /\ cmd \in [Clients -> Commands \union {NoCommand}]
  /\ reply \in [Clients -> {NoReply, Success, Failure}]

IInv == TypeOK /\ SocketInv /\ CommandInv /\ NoneLost /\ SessionInv /\ StoreInv
-----------------------------------------------------------------------------
LEMMA TypeParts == TypeOK <=> FileTypes /\ ServerTypes /\ SessionTypes /\ WireTypes
BY DEF TypeOK, FileTypes, ServerTypes, SessionTypes, WireTypes

LEMMA TypePartsNext == TypeOK' <=> FileTypes' /\ ServerTypes' /\ SessionTypes' /\ WireTypes'
BY DEF TypeOK, FileTypes, ServerTypes, SessionTypes, WireTypes

(* What a command carries. *)
LEMMA CommandFacts ==
  /\ NoCommand.verb = "none"
  /\ \A q \in Commands :
       /\ q # NoCommand
       /\ q.verb \in {"HELO", "MAIL", "RCPT", "LIST", "GET_MAIL", "DATA", "QUIT", "bad"}
       /\ q.verb = "HELO" => q.arg \in Domains
       /\ q.verb = "MAIL" => q.arg \in Senders
       /\ q.verb = "RCPT" => q.arg \in Boxes
BY DEF NoCommand, Command, Commands, Senders

LEMMA CodeFacts ==
  /\ NoReply # Success /\ NoReply # Failure
  /\ None \notin Clients /\ None \notin Boxes
  /\ Torn \notin Senders
BY NoneAssumption, TornAssumption DEF NoReply, Success, Failure, Senders

(* The whole messages of a mailbox, and what one more piece makes of them. *)
LEMMA WholeFinite ==
  ASSUME TypeOK, NEW r \in Boxes
  PROVE  IsFiniteSet(Whole(r)) /\ Cardinality(Whole(r)) \in Nat
<1>1. Len(box[r]) \in Nat
  BY DEF TypeOK
<1>2. IsFiniteSet(1..Len(box[r]))
  BY <1>1, FS_Interval
<1>3. IsFiniteSet(Whole(r))
  BY <1>2, FS_Subset DEF Whole
<1> QED BY <1>3, FS_CardinalityType

LEMMA WholeAppend ==
  ASSUME TypeOK, NEW r \in Boxes, NEW e \in Senders \union {Torn}, box'[r] = Append(box[r], e)
  PROVE  Cardinality(Whole(r)') = Cardinality(Whole(r)) + (IF e = Torn THEN 0 ELSE 1)
<1>1. /\ box[r] \in Seq(Senders \union {Torn}) /\ Len(box[r]) \in Nat
      /\ Len(box'[r]) = Len(box[r]) + 1
      /\ box'[r][Len(box[r]) + 1] = e
      /\ \A k \in 1..Len(box[r]) : box'[r][k] = box[r][k]
  BY DEF TypeOK
<1>2. CASE e = Torn
  <2>1. Whole(r)' = Whole(r)
    BY <1>1, <1>2 DEF Whole
  <2> QED BY <1>2, <2>1, WholeFinite
<1>3. CASE e # Torn
  <2>1. Whole(r)' = Whole(r) \union {Len(box[r]) + 1}
    BY <1>1, <1>3 DEF Whole
  <2>2. Len(box[r]) + 1 \notin Whole(r)
    BY <1>1 DEF Whole
  <2>3. Cardinality(Whole(r) \union {Len(box[r]) + 1}) = Cardinality(Whole(r)) + 1
    BY <2>2, WholeFinite, FS_AddElement
  <2> QED BY <1>3, <2>1, <2>3
<1> QED BY <1>2, <1>3

(* A thread that has received a command: nobody else deals with it. *)
LEMMA Received ==
  ASSUME IInv, NEW t \in Clients, NEW v, v # "none", Receives(t, v)
  PROVE  /\ pc[t] = "recv" /\ socket[t] \in Clients /\ socket[t] # None
         /\ socket[t] \in open
         /\ cmd[socket[t]] \in Commands /\ cmd[socket[t]].verb = v
         /\ reply[socket[t]] = NoReply /\ cpc[socket[t]] \notin Idle
         /\ cmd' = [cmd EXCEPT ![socket[t]] = NoCommand]
         /\ cmd' \in [Clients -> Commands \union {NoCommand}]
         /\ t \notin Writers /\ \A u \in Writers : socket[u] # socket[t]
<1> USE CommandFacts DEF IInv
<1>1. /\ pc[t] = "recv" /\ socket[t] \in open /\ cmd[socket[t]].verb = v
      /\ cmd' = [cmd EXCEPT ![socket[t]] = NoCommand]
  BY DEF Receives
<1>2. socket[t] \in Clients /\ cmd \in [Clients -> Commands \union {NoCommand}]
  BY <1>1 DEF TypeOK
<1>3. cmd[socket[t]] \in Commands /\ cmd[socket[t]] # NoCommand
  BY <1>1, <1>2
<1>4. reply[socket[t]] = NoReply /\ cpc[socket[t]] \notin Idle
  BY <1>2, <1>3 DEF CommandInv
<1>5. t \notin Writers /\ \A u \in Writers : socket[u] # socket[t]
  BY <1>1, <1>3 DEF CommandInv, Writers
<1> QED BY <1>1, <1>2, <1>3, <1>4, <1>5, CodeFacts

LEMMA Responded ==
  ASSUME TypeOK, NEW t \in Clients, socket[t] \in Clients,
         NEW code \in {Success, Failure}, Respond(t, code)
  PROVE  /\ reply' \in [Clients -> {NoReply, Success, Failure}]
         /\ \A c \in Clients : c # socket[t] => reply'[c] = reply[c]
         /\ reply'[socket[t]] = reply[socket[t]] \/ cpc[socket[t]] # "gone"
         /\ socket[t] \in open /\ cpc[socket[t]] # "gone" => reply'[socket[t]] # NoReply
BY CodeFacts DEF Respond, TypeOK

(* No command is lost by a step that leaves all of them where they are. *)
LEMMA KeptStep ==
  ASSUME IInv, open' \subseteq open, UNCHANGED <<cpc, cmd, reply>>,
         Writers' = Writers, \A u \in Writers : socket'[u] = socket[u]
  PROVE  NoneLost'
BY DEF IInv, NoneLost, Somewhere

(* A command that is answered at once leaves the thread where it was or at *)
(* its end, and leaves every other command alone.                          *)
LEMMA AnswerStep ==
  ASSUME IInv, NEW t \in Clients, NEW v, v # "none", Receives(t, v),
         NEW code \in {Success, Failure}, Respond(t, code),
         UNCHANGED <<accepts, cpc>>, open' \subseteq open,
         \/ UNCHANGED thread
         \/ pc' = [pc EXCEPT ![t] = "done"] /\ socket' = [socket EXCEPT ![t] = None]
  PROVE  SocketInv' /\ CommandInv' /\ NoneLost'
<1> USE DEF IInv, accepts, thread
<1>1. /\ pc[t] = "recv" /\ socket[t] \in Clients /\ reply[socket[t]] = NoReply
      /\ cpc[socket[t]] \notin Idle /\ socket[t] \in open
      /\ cmd' = [cmd EXCEPT ![socket[t]] = NoCommand]
      /\ t \notin Writers /\ \A u \in Writers : socket[u] # socket[t]
  BY Received
<1>2. /\ \A c \in Clients : c # socket[t] => reply'[c] = reply[c]
      /\ reply'[socket[t]] = reply[socket[t]] \/ cpc[socket[t]] # "gone"
      /\ cpc[socket[t]] # "gone" => reply'[socket[t]] # NoReply
  BY <1>1, Responded
<1>3. Writers' = Writers /\ \A u \in Writers : socket'[u] = socket[u] /\ u \in Clients
  BY <1>1 DEF Writers, TypeOK
<1>4. \A u \in Clients : /\ socket'[u] = socket[u] \/ socket'[u] = None
                         /\ pc[u] = "none" => pc'[u] = "none"
  BY <1>1 DEF TypeOK
<1>5. SocketInv'
  BY <1>4 DEF SocketInv, TypeOK
<1>6. \A c \in Clients : cmd'[c] = IF c = socket[t] THEN NoCommand ELSE cmd[c]
  BY <1>1 DEF TypeOK
<1>7. \A u \in Writers : socket[u] \in Clients /\ socket[u] # socket[t]
  BY <1>1, <1>3 DEF TypeOK, CommandInv
<1>8. cpc[socket[t]] # "gone" => cpc[socket[t]] \in {"wait", "quit"}
  BY <1>1 DEF TypeOK, Idle, Early
<1>9. CommandInv'
  BY <1>2, <1>3, <1>6, <1>7, <1>8, <1>1 DEF CommandInv
<1>10. NoneLost'
  <2> SUFFICES ASSUME NEW c \in open, cpc[c] \in {"wait", "quit"} PROVE Somewhere(c)'
    BY DEF NoneLost
  <2>1. CASE c = socket[t]
    BY <1>2, <2>1 DEF Somewhere
  <2>2. CASE c # socket[t]
    <3>1. cmd'[c] = cmd[c] /\ reply'[c] = reply[c]
      BY <1>2, <1>6, <2>2 DEF TypeOK
    <3>2. Somewhere(c)
      BY DEF NoneLost
    <3> QED BY <1>3, <3>1, <3>2 DEF Somewhere
  <2> QED BY <2>1, <2>2
<1> QED BY <1>5, <1>9, <1>10

(* Whoever is not writing leaves the mailboxes' account as it is. *)
LEMMA StoreStep ==
  ASSUME TypeOK, StoreInv, UNCHANGED <<box, acked, failed>>,
         \A u \in Clients : pc'[u] = "stored" => pc[u] = "stored" /\ recipient'[u] = recipient[u]
  PROVE  StoreInv'
<1> SUFFICES ASSUME NEW r \in Boxes
             PROVE  acked[r] + Cardinality(Stored(r)') <= Cardinality(Whole(r)) + failed[r]
  BY DEF StoreInv, Whole
<1>1. Stored(r)' \subseteq Stored(r) /\ IsFiniteSet(Stored(r))
  BY ClientsAssumption, FS_Subset DEF Stored
<1>2. /\ Cardinality(Stored(r)') <= Cardinality(Stored(r))
      /\ Cardinality(Stored(r)) \in Nat /\ Cardinality(Stored(r)') \in Nat
  BY <1>1, FS_Subset, FS_CardinalityType
<1>3. /\ acked[r] + Cardinality(Stored(r)) <= Cardinality(Whole(r)) + failed[r]
      /\ acked[r] \in Nat /\ failed[r] \in Nat /\ Cardinality(Whole(r)) \in Nat
  BY WholeFinite DEF StoreInv, TypeOK
<1> QED BY <1>2, <1>3

(* Who is not in the middle of a DATA may change the locals of its session *)
(* as long as they keep what the state promises.                           *)
LEMMA SessionStep ==
  ASSUME TypeOK, SessionInv, NEW t \in Clients,
         \A u \in Clients : u # t => /\ UNCHANGED <<state[u], email_domain[u], sender[u]>>
                                     /\ UNCHANGED <<recipient[u], refused[u]>>
                                     /\ pc'[u] = pc[u],
         state'[t] >= 2 => /\ sender'[t] \in Senders
                           /\ sender'[t] = email_domain'[t] \/ refused'[t],
         state'[t] >= 3 => recipient'[t] \in Boxes,
         pc'[t] \in {"write", "stored"} => state'[t] >= 3
  PROVE  SessionInv'
BY DEF SessionInv, Writers, TypeOK
-----------------------------------------------------------------------------
(* The initial state satisfies the invariant. *)
LEMMA InitInv == ASSUME Init PROVE IInv
<1>1. TypeOK
  BY DEF Init, TypeOK, NoReply, Success, Failure
<1>2. SocketInv /\ CommandInv /\ NoneLost /\ SessionInv
  BY DEF Init, SocketInv, CommandInv, NoneLost, SessionInv, Writers, Early, Idle
<1>3. StoreInv
  <2>1. \A r \in Boxes : Stored(r) = {} /\ acked[r] = 0 /\ Whole(r) = {} /\ failed[r] = 0
    BY DEF Init, Stored, Whole
  <2> QED BY <2>1, FS_EmptySet DEF StoreInv
<1> QED BY <1>1, <1>2, <1>3 DEF IInv

(* The commands that are answered at once. *)
LEMMA HeloInv == ASSUME IInv, NEW t \in Clients, HELO(t) PROVE IInv'
<1>0. /\ Receives(t, "HELO") /\ Respond(t, Success)
      /\ email_domain' = [email_domain EXCEPT ![t] = arg(t)]
      /\ state' = [state EXCEPT ![t] = 1]
      /\ refused' = [refused EXCEPT ![t] = FALSE]
      /\ UNCHANGED <<files, accepts, open, thread, sender, recipient, cpc>>
  BY DEF HELO, Enter
<1>1. SocketInv' /\ CommandInv' /\ NoneLost'
  BY <1>0, AnswerStep
<1>2. /\ socket[t] \in Clients /\ pc[t] = "recv" /\ arg(t) \in Domains
      /\ cmd' \in [Clients -> Commands \union {NoCommand}]
  BY <1>0, Received, CommandFacts DEF arg
<1>3. reply' \in [Clients -> {NoReply, Success, Failure}]
  BY <1>0, <1>2, Responded DEF IInv
<1>4. TypeOK'
  <2>1. FileTypes' /\ ServerTypes'
    BY <1>0, TypeParts DEF IInv, FileTypes, ServerTypes, files, accepts, thread
  <2>2. SessionTypes'
    BY <1>0, <1>2, TypeParts DEF IInv, SessionTypes
  <2>3. WireTypes'
    BY <1>0, <1>2, <1>3, TypeParts DEF IInv, WireTypes
  <2> QED BY <2>1, <2>2, <2>3, TypePartsNext
<1>5. SessionInv'
  <2>1. \A u \in Clients : u # t => /\ UNCHANGED <<state[u], email_domain[u], sender[u]>>
                                    /\ UNCHANGED <<recipient[u], refused[u]>>
                                    /\ pc'[u] = pc[u]
    BY <1>0, TypeParts DEF IInv, SessionTypes, thread
  <2>2. state'[t] = 1 /\ pc'[t] = "recv"
    BY <1>0, <1>2, TypeParts DEF IInv, SessionTypes, thread
  <2> QED BY <2>1, <2>2, SessionStep DEF IInv
<1>6. StoreInv'
  BY <1>0, StoreStep DEF IInv, files, thread
<1> QED BY <1>1, <1>4, <1>5, <1>6 DEF IInv

LEMMA MailFromInv == ASSUME IInv, NEW t \in Clients, MailFrom(t) PROVE IInv'
<1>0. /\ Receives(t, "MAIL") /\ state[t] >= 1
      /\ sender' = [sender EXCEPT ![t] = arg(t)]
      /\ UNCHANGED <<files, accepts, open, thread, email_domain, recipient, cpc>>
  BY DEF MailFrom
<1>1. PICK code \in {Success, Failure} :
        /\ Respond(t, code)
        /\ \/ /\ arg(t) = email_domain[t] /\ state' = [state EXCEPT ![t] = 2]
              /\ refused' = [refused EXCEPT ![t] = FALSE]
           \/ refused' = [refused EXCEPT ![t] = TRUE] /\ UNCHANGED state
  BY DEF MailFrom, Enter, DomainMatches
<1>2. SocketInv' /\ CommandInv' /\ NoneLost'
  BY <1>0, <1>1, AnswerStep
<1>3. /\ socket[t] \in Clients /\ pc[t] = "recv" /\ arg(t) \in Senders
      /\ cmd' \in [Clients -> Commands \union {NoCommand}]
  BY <1>0, Received, CommandFacts DEF arg
<1>4. reply' \in [Clients -> {NoReply, Success, Failure}]
  BY <1>1, <1>3, Responded DEF IInv
<1>5. TypeOK'
  <2>1. FileTypes' /\ ServerTypes'
    BY <1>0, TypeParts DEF IInv, FileTypes, ServerTypes, files, accepts, thread
  <2>2. SessionTypes'
    <3>1. state' \in [Clients -> 0..3] /\ refused' \in [Clients -> BOOLEAN]
      <4>1. state \in [Clients -> 0..3] /\ refused \in [Clients -> BOOLEAN]
        BY TypeParts DEF IInv, SessionTypes
      <4>2. CASE state' = [state EXCEPT ![t] = 2] /\ refused' = [refused EXCEPT ![t] = FALSE]
        BY <4>1, <4>2
      <4>3. CASE refused' = [refused EXCEPT ![t] = TRUE] /\ UNCHANGED state
        BY <4>1, <4>3
      <4> QED BY <1>1, <4>2, <4>3
    <3>2. sender' \in [Clients -> Senders \union {None}]
      BY <1>0, <1>3, TypeParts DEF IInv, SessionTypes
    <3> QED BY <1>0, <3>1, <3>2, TypeParts DEF IInv, SessionTypes
  <2>3. WireTypes'
    BY <1>0, <1>3, <1>4, TypeParts DEF IInv, WireTypes
  <2> QED BY <2>1, <2>2, <2>3, TypePartsNext
<1>6. SessionInv'
  <2>1. \A u \in Clients : u # t => /\ UNCHANGED <<state[u], email_domain[u], sender[u]>>
                                    /\ UNCHANGED <<recipient[u], refused[u]>>
                                    /\ pc'[u] = pc[u]
    BY <1>0, <1>1 DEF IInv, TypeOK, thread
  <2>2. state'[t] >= 2 => /\ sender'[t] \in Senders
                          /\ sender'[t] = email_domain'[t] \/ refused'[t]
    BY <1>0, <1>1, <1>3 DEF IInv, TypeOK
  <2>3. state'[t] >= 3 => recipient'[t] \in Boxes
    BY <1>0, <1>1 DEF IInv, TypeOK, SessionInv
  <2>4. pc'[t] = "recv"
    BY <1>0, <1>3 DEF thread
  <2> QED BY <2>1, <2>2, <2>3, <2>4, SessionStep DEF IInv
<1>7. StoreInv'
  BY <1>0, StoreStep DEF IInv, files, thread
<1> QED BY <1>2, <1>5, <1>6, <1>7 DEF IInv

LEMMA RcptToInv == ASSUME IInv, NEW t \in Clients, RcptTo(t) PROVE IInv'
<1>0. /\ Receives(t, "RCPT") /\ state[t] >= 2 /\ Respond(t, Success)
      /\ recipient' = [recipient EXCEPT ![t] = arg(t)]
      /\ state' = [state EXCEPT ![t] = 3]
      /\ UNCHANGED <<files, accepts, open, thread, email_domain, sender, refused, cpc>>
  BY DEF RcptTo, Enter
<1>1. SocketInv' /\ CommandInv' /\ NoneLost'
  BY <1>0, AnswerStep
<1>2. /\ socket[t] \in Clients /\ pc[t] = "recv" /\ arg(t) \in Boxes
      /\ cmd' \in [Clients -> Commands \union {NoCommand}]
  BY <1>0, Received, CommandFacts DEF arg
<1>3. reply' \in [Clients -> {NoReply, Success, Failure}]
  BY <1>0, <1>2, Responded DEF IInv
<1>4. TypeOK'
  <2>1. FileTypes' /\ ServerTypes'
    BY <1>0, TypeParts DEF IInv, FileTypes, ServerTypes, files, accepts, thread
  <2>2. SessionTypes'
    BY <1>0, <1>2, TypeParts DEF IInv, SessionTypes
  <2>3. WireTypes'
    BY <1>0, <1>2, <1>3, TypeParts DEF IInv, WireTypes
  <2> QED BY <2>1, <2>2, <2>3, TypePartsNext
<1>5. SessionInv'
  <2>1. sender[t] \in Senders /\ (sender[t] = email_domain[t] \/ refused[t])
    BY <1>0 DEF IInv, SessionInv
  <2> QED BY <1>0, <1>2, <2>1, SessionStep DEF IInv, TypeOK, thread
<1>6. StoreInv'
  BY <1>0, <1>2, StoreStep DEF IInv, files, thread, TypeOK
<1> QED BY <1>1, <1>4, <1>5, <1>6 DEF IInv

(* Refusals, LIST and GET_MAIL change nothing but the response. *)
LEMMA AnswerOnly ==
  ASSUME IInv, NEW t \in Clients, NEW v, v # "none", Receives(t, v),
         NEW code \in {Success, Failure}, Respond(t, code),
         UNCHANGED <<files, accepts, open, thread, session, cpc>>
  PROVE  IInv'
<1>1. SocketInv' /\ CommandInv' /\ NoneLost'
  BY AnswerStep
<1>2. socket[t] \in Clients /\ cmd' \in [Clients -> Commands \union {NoCommand}]
  BY Received
<1>3. reply' \in [Clients -> {NoReply, Success, Failure}]
  BY <1>2, Responded DEF IInv
<1>4. TypeOK'
  BY <1>2, <1>3 DEF IInv, TypeOK, files, accepts, thread, session
<1>5. SessionInv'
  BY DEF IInv, SessionInv, Writers, session, thread
<1>6. StoreInv'
  BY StoreStep DEF IInv, files, thread, session
<1> QED BY <1>1, <1>4, <1>5, <1>6 DEF IInv

LEMMA RefuseInv == ASSUME IInv, NEW t \in Clients, Refuse(t) PROVE IInv'
<1>1. PICK v \in {"MAIL", "RCPT", "DATA", "bad"} :
        /\ Receives(t, v) /\ Respond(t, Failure)
        /\ UNCHANGED <<files, accepts, open, thread, session, cpc>>
  BY DEF Refuse
<1> QED BY <1>1, AnswerOnly

LEMMA ListMailsInv == ASSUME IInv, NEW t \in Clients, ListMails(t) PROVE IInv'
<1>1. PICK code \in {Success, Failure} :
        /\ Receives(t, "LIST") /\ Respond(t, code)
        /\ UNCHANGED <<files, accepts, open, thread, session, cpc>>
  BY DEF ListMails
<1> QED BY <1>1, AnswerOnly

LEMMA GetMailInv == ASSUME IInv, NEW t \in Clients, GetMail(t) PROVE IInv'
<1>1. PICK code \in {Success, Failure} :
        /\ Receives(t, "GET_MAIL") /\ Respond(t, code)
        /\ UNCHANGED <<files, accepts, open, thread, session, cpc>>
  BY DEF GetMail
<1> QED BY <1>1, AnswerOnly
-----------------------------------------------------------------------------
(* A thread returns: its locals are gone. *)
LEMMA ReturnSteps ==
  ASSUME IInv, NEW t \in Clients, Return(t), UNCHANGED files, pc[t] = "recv"
  PROVE  /\ SessionTypes' /\ SessionInv' /\ StoreInv' /\ FileTypes'
         /\ open' \subseteq Clients /\ open' \subseteq open
         /\ pc' = [pc EXCEPT ![t] = "done"] /\ socket' = [socket EXCEPT ![t] = None]
         /\ pc' \in [Clients -> {"none", "start", "recv", "write", "stored", "done"}]
         /\ socket' \in [Clients -> Clients \union {None}]
<1>0. /\ FileTypes /\ ServerTypes /\ SessionTypes
      /\ pc' = [pc EXCEPT ![t] = "done"] /\ socket' = [socket EXCEPT ![t] = None]
      /\ state' = [state EXCEPT ![t] = 0]
      /\ email_domain' = [email_domain EXCEPT ![t] = None]
      /\ sender' = [sender EXCEPT ![t] = None]
      /\ recipient' = [recipient EXCEPT ![t] = None]
      /\ refused' = [refused EXCEPT ![t] = FALSE]
      /\ open' \subseteq open
  BY TypeParts DEF IInv, Return, Goto
<1>1. SessionTypes'
  BY <1>0 DEF SessionTypes
<1>2. \A u \in Clients : u # t => /\ UNCHANGED <<state[u], email_domain[u], sender[u]>>
                                  /\ UNCHANGED <<recipient[u], refused[u]>>
                                  /\ pc'[u] = pc[u]
  BY <1>0 DEF SessionTypes, ServerTypes
<1>3. state'[t] = 0 /\ pc'[t] = "done"
  BY <1>0 DEF SessionTypes, ServerTypes
<1>4. SessionInv'
  BY <1>2, <1>3, SessionStep DEF IInv
<1>5. StoreInv'
  BY <1>2, <1>3, StoreStep DEF IInv, files
<1> QED BY <1>0, <1>1, <1>4, <1>5 DEF FileTypes, ServerTypes, files

LEMMA ThreadEndsInv == ASSUME IInv, NEW t \in Clients, ThreadEnds(t) PROVE IInv'
<1>0. /\ pc[t] = "recv" /\ Return(t) /\ UNCHANGED <<files, accepts, cpc, cmd, reply>>
  BY DEF ThreadEnds
<1>1. /\ SessionTypes' /\ SessionInv' /\ StoreInv' /\ FileTypes'
      /\ open' \subseteq Clients /\ open' \subseteq open
      /\ pc' = [pc EXCEPT ![t] = "done"] /\ socket' = [socket EXCEPT ![t] = None]
      /\ pc' \in [Clients -> {"none", "start", "recv", "write", "stored", "done"}]
      /\ socket' \in [Clients -> Clients \union {None}]
  BY <1>0, ReturnSteps
<1>2. ServerTypes /\ WireTypes
  BY TypeParts DEF IInv
<1>3. ServerTypes' /\ WireTypes'
  BY <1>0, <1>1, <1>2 DEF ServerTypes, WireTypes, accepts
<1>4. TypeOK'
  BY <1>1, <1>3, TypePartsNext
<1>5. \A u \in Clients : /\ socket'[u] = IF u = t THEN None ELSE socket[u]
                         /\ pc'[u] = IF u = t THEN "done" ELSE pc[u]
  BY <1>1, <1>2 DEF ServerTypes
<1>6. SocketInv'
  BY <1>0, <1>2, <1>5 DEF IInv, SocketInv, accepts, ServerTypes
<1>7. Writers' = Writers /\ t \notin Writers
  BY <1>0, <1>5 DEF Writers
<1>8. CommandInv'
  <2>1. \A u \in Writers : u \in Clients /\ u # t /\ socket'[u] = socket[u]
    BY <1>5, <1>7 DEF Writers
  <2> QED BY <1>0, <1>7, <2>1 DEF IInv, CommandInv
<1>9. NoneLost'
  BY <1>0, <1>1, <1>5, <1>7, KeptStep DEF Writers
<1> QED BY <1>1, <1>4, <1>6, <1>8, <1>9 DEF IInv

LEMMA QuitInv == ASSUME IInv, NEW t \in Clients, Quit(t) PROVE IInv'
<1>0. /\ Receives(t, "QUIT") /\ Respond(t, Success) /\ Return(t)
      /\ UNCHANGED <<files, accepts, cpc>>
  BY DEF Quit
<1>1. /\ socket[t] \in Clients /\ pc[t] = "recv"
      /\ cmd' \in [Clients -> Commands \union {NoCommand}]
  BY <1>0, Received
<1>2. /\ SessionTypes' /\ SessionInv' /\ StoreInv' /\ FileTypes'
      /\ open' \subseteq Clients /\ open' \subseteq open
      /\ pc' = [pc EXCEPT ![t] = "done"] /\ socket' = [socket EXCEPT ![t] = None]
      /\ pc' \in [Clients -> {"none", "start", "recv", "write", "stored", "done"}]
      /\ socket' \in [Clients -> Clients \union {None}]
  BY <1>0, <1>1, ReturnSteps
<1>3. SocketInv' /\ CommandInv' /\ NoneLost'
  BY <1>0, <1>2, AnswerStep
<1>4. reply' \in [Clients -> {NoReply, Success, Failure}]
  BY <1>0, <1>1, Responded DEF IInv
<1>5. ServerTypes /\ WireTypes
  BY TypeParts DEF IInv
<1>6. ServerTypes' /\ WireTypes'
  BY <1>0, <1>1, <1>2, <1>4, <1>5 DEF ServerTypes, WireTypes, accepts
<1> QED BY <1>2, <1>3, <1>6, TypePartsNext DEF IInv
-----------------------------------------------------------------------------
(* DATA.  A failed one ends the session's mail like a stored one. *)
LEMMA AnswersFailedInv == ASSUME IInv, NEW t \in Clients, AnswersFailed(t) PROVE IInv'
<1>0. /\ Receives(t, "DATA") /\ Respond(t, Failure)
      /\ state' = [state EXCEPT ![t] = 0]
      /\ refused' = [refused EXCEPT ![t] = FALSE]
      /\ UNCHANGED <<box, exists, acked, failed, accepts, open, thread>>
      /\ UNCHANGED <<email_domain, sender, recipient, cpc>>
  BY DEF AnswersFailed, DataAnswered, Enter, thread
<1>1. SocketInv' /\ CommandInv' /\ NoneLost'
  BY <1>0, AnswerStep
<1>2. /\ socket[t] \in Clients /\ pc[t] = "recv"
      /\ cmd' \in [Clients -> Commands \union {NoCommand}]
  BY <1>0, Received
<1>3. reply' \in [Clients -> {NoReply, Success, Failure}]
  BY <1>0, <1>2, Responded DEF IInv
<1>4. TypeOK'
  <2>1. FileTypes' /\ ServerTypes'
    BY <1>0, TypeParts DEF IInv, FileTypes, ServerTypes, accepts, thread
  <2>2. SessionTypes'
    BY <1>0, TypeParts DEF IInv, SessionTypes
  <2>3. WireTypes'
    BY <1>0, <1>2, <1>3, TypeParts DEF IInv, WireTypes
  <2> QED BY <2>1, <2>2, <2>3, TypePartsNext
<1>5. SessionInv'
  <2>1. \A u \in Clients : u # t => /\ UNCHANGED <<state[u], email_domain[u], sender[u]>>
                                    /\ UNCHANGED <<recipient[u], refused[u]>>
                                    /\ pc'[u] = pc[u]
    BY <1>0, TypeParts DEF IInv, SessionTypes, thread
  <2>2. state'[t] = 0 /\ pc'[t] = "recv"
    BY <1>0, <1>2, TypeParts DEF IInv, SessionTypes, thread
  <2> QED BY <2>1, <2>2, SessionStep DEF IInv
<1>6. StoreInv'
  BY <1>0, StoreStep DEF IInv, thread
<1> QED BY <1>1, <1>4, <1>5, <1>6 DEF IInv

(* The mailbox is opened: the command is in the hands of the thread. *)
LEMMA OpensMailboxInv == ASSUME IInv, NEW t \in Clients, OpensMailbox(t) PROVE IInv'
<1>0. /\ Receives(t, "DATA") /\ state[t] >= 3
      /\ exists' = exists \union {recipient[t]}
      /\ pc' = [pc EXCEPT ![t] = "write"]
      /\ UNCHANGED <<box, acked, failed, accepts, open, socket, session, cpc, reply>>
  BY DEF OpensMailbox, Goto
<1>1. /\ pc[t] = "recv" /\ socket[t] \in Clients /\ socket[t] # None
      /\ reply[socket[t]] = NoReply /\ cpc[socket[t]] \notin Idle
      /\ cmd' = [cmd EXCEPT ![socket[t]] = NoCommand]
      /\ cmd' \in [Clients -> Commands \union {NoCommand}]
      /\ t \notin Writers /\ \A u \in Writers : socket[u] # socket[t]
  BY <1>0, Received
<1>2. FileTypes /\ ServerTypes /\ SessionTypes /\ WireTypes /\ recipient[t] \in Boxes
  BY <1>0, TypeParts DEF IInv, SessionInv
<1>3. FileTypes'
  BY <1>0, <1>2 DEF FileTypes
<1>4. ServerTypes' /\ SessionTypes' /\ WireTypes'
  BY <1>0, <1>1, <1>2 DEF ServerTypes, SessionTypes, WireTypes, accepts, session
<1>5. \A u \in Clients : pc'[u] = IF u = t THEN "write" ELSE pc[u]
  BY <1>0, <1>2 DEF ServerTypes
<1>6. Writers' = Writers \union {t}
  BY <1>5 DEF Writers
<1>7. \A c \in Clients : cmd'[c] = IF c = socket[t] THEN NoCommand ELSE cmd[c]
  BY <1>1, <1>2 DEF WireTypes
<1>8. SocketInv'
  BY <1>0, <1>1, <1>2, <1>5 DEF IInv, SocketInv, accepts, ServerTypes
<1>9. CommandInv'
  <2>1. \A u \in Writers : socket[u] \in Clients
    BY <1>2 DEF Writers, ServerTypes, IInv, CommandInv
  <2>2. \A u \in Writers' : /\ socket[u] # None /\ cpc[socket[u]] \notin Idle
                            /\ cmd'[socket[u]] = NoCommand /\ reply[socket[u]] = NoReply
    BY <1>1, <1>6, <1>7, <2>1 DEF IInv, CommandInv
  <2>3. \A u, w \in Writers' : socket[u] = socket[w] => u = w
    BY <1>1, <1>6 DEF IInv, CommandInv
  <2> QED BY <1>0, <1>7, <2>2, <2>3 DEF IInv, CommandInv
<1>n. NoneLost'
  <2> SUFFICES ASSUME NEW c \in open, cpc[c] \in {"wait", "quit"} PROVE Somewhere(c)'
    BY <1>0 DEF NoneLost
  <2>1. CASE c = socket[t]
    BY <1>0, <1>6, <2>1 DEF Somewhere
  <2>2. CASE c # socket[t]
    <3>1. cmd'[c] = cmd[c] /\ Somewhere(c)
      BY <1>2, <1>7, <2>2 DEF IInv, NoneLost, ServerTypes
    <3> QED BY <1>0, <1>6, <3>1 DEF Somewhere
  <2> QED BY <2>1, <2>2
<1>10. SessionInv'
  BY <1>0, <1>6 DEF IInv, SessionInv, session
<1>11. StoreInv'
  BY <1>0, <1>5, StoreStep DEF IInv, session
<1> QED BY <1>3, <1>4, <1>8, <1>9, <1>n, <1>10, <1>11, TypePartsNext DEF IInv

(* What a thread in the middle of a DATA relies on. *)
LEMMA WriterFacts ==
  ASSUME IInv, NEW t \in Writers
  PROVE  /\ t \in Clients /\ state[t] >= 3 /\ sender[t] \in Senders /\ recipient[t] \in Boxes
         /\ sender[t] = email_domain[t] \/ refused[t]
         /\ socket[t] \in Clients /\ cmd[socket[t]] = NoCommand /\ reply[socket[t]] = NoReply
         /\ cpc[socket[t]] \notin Idle
         /\ \A u \in Writers : socket[u] = socket[t] => u = t
<1>1. t \in Clients /\ ServerTypes /\ SessionTypes
  BY TypeParts DEF IInv, Writers
<1>2. state[t] >= 3 /\ state[t] \in 0..3
  BY <1>1 DEF IInv, SessionInv, SessionTypes
<1>3. /\ sender[t] \in Senders /\ recipient[t] \in Boxes
      /\ sender[t] = email_domain[t] \/ refused[t]
  BY <1>1, <1>2 DEF IInv, SessionInv
<1> QED BY <1>1, <1>2, <1>3 DEF IInv, CommandInv, ServerTypes

(* The text is written, in whole, in part or not at all. *)
LEMMA WritesFacts ==
  ASSUME IInv, NEW t \in Clients, WritesMessage(t)
  PROVE  /\ pc[t] = "write" /\ pc' = [pc EXCEPT ![t] = "stored"]
         /\ UNCHANGED <<exists, acked, accepts, open, socket, session, cpc, cmd, reply>>
         /\ sender[t] \in Senders /\ recipient[t] \in Boxes
         /\ \A r \in Boxes \ {recipient[t]} : box'[r] = box[r] /\ failed'[r] = failed[r]
         /\ LET r == recipient[t] IN
              \/ box'[r] = Append(box[r], sender[t]) /\ failed'[r] = failed[r]
              \/ /\ box'[r] = box[r] \/ box'[r] = Append(box[r], Torn)
                 /\ failed'[r] = failed[r] + 1
         /\ FileTypes'
<1>0. /\ pc[t] = "write" /\ pc' = [pc EXCEPT ![t] = "stored"]
      /\ UNCHANGED <<exists, acked, accepts, open, socket, session, cpc, cmd, reply>>
  BY DEF WritesMessage, Goto
<1>1. t \in Writers
  BY <1>0 DEF Writers
<1>2. sender[t] \in Senders /\ recipient[t] \in Boxes
  BY <1>1, WriterFacts
<1>3. FileTypes
  BY TypeParts DEF IInv
<1>4. CASE Appends(t) /\ UNCHANGED failed
  BY <1>0, <1>2, <1>3, <1>4 DEF Appends, FileTypes
<1>5. CASE WriteFails(t)
  <2>1. failed' = [failed EXCEPT ![recipient[t]] = @ + 1]
    BY <1>5 DEF WriteFails
  <2>2. CASE UNCHANGED box
    BY <1>0, <1>2, <1>3, <2>1, <2>2 DEF FileTypes
  <2>3. CASE box' = [box EXCEPT ![recipient[t]] = Append(@, Torn)]
    BY <1>0, <1>2, <1>3, <2>1, <2>3 DEF FileTypes
  <2> QED BY <1>5, <2>2, <2>3 DEF WriteFails
<1> QED BY <1>4, <1>5 DEF WritesMessage

(* Whole or not, the write is accounted for. *)
LEMMA WritesMessageInv == ASSUME IInv, NEW t \in Clients, WritesMessage(t) PROVE IInv'
<1>0. /\ pc[t] = "write" /\ pc' = [pc EXCEPT ![t] = "stored"]
      /\ UNCHANGED <<exists, acked, accepts, open, socket, session, cpc, cmd, reply>>
      /\ sender[t] \in Senders /\ recipient[t] \in Boxes /\ FileTypes'
  BY WritesFacts
<1>3. FileTypes /\ ServerTypes /\ SessionTypes /\ WireTypes
  BY TypeParts DEF IInv
<1>5. ServerTypes' /\ SessionTypes' /\ WireTypes'
  BY <1>0, <1>3 DEF ServerTypes, SessionTypes, WireTypes, accepts, session
<1>6. \A u \in Clients : pc'[u] = IF u = t THEN "stored" ELSE pc[u]
  BY <1>0, <1>3 DEF ServerTypes
<1>7. Writers' = Writers
  BY <1>0, <1>6 DEF Writers
<1>8. SocketInv'
  BY <1>0, <1>3, <1>6 DEF IInv, SocketInv, accepts, ServerTypes
<1>9. CommandInv' /\ SessionInv'
  BY <1>0, <1>7 DEF IInv, CommandInv, SessionInv, session
<1>n. NoneLost'
  BY <1>0, <1>7, KeptStep
<1>10. ASSUME NEW r \in Boxes
       PROVE  acked'[r] + Cardinality(Stored(r)') <= Cardinality(Whole(r)') + failed'[r]
  <2>1. /\ acked[r] + Cardinality(Stored(r)) <= Cardinality(Whole(r)) + failed[r]
        /\ acked[r] \in Nat /\ failed[r] \in Nat /\ Cardinality(Whole(r)) \in Nat
    BY <1>3, WholeFinite DEF IInv, StoreInv, FileTypes
  <2>2. IsFiniteSet(Stored(r))
    BY ClientsAssumption, FS_Subset DEF Stored
  <2>3. Cardinality(Stored(r)) \in Nat
    BY <2>2, FS_CardinalityType
  <2>4. CASE r = recipient[t]
    <3>1. Stored(r)' = Stored(r) \union {t}
      BY <1>0, <1>6, <2>4 DEF Stored, session
    <3>2. t \notin Stored(r)
      BY <1>0 DEF Stored
    <3>3. Cardinality(Stored(r) \union {t}) = Cardinality(Stored(r)) + 1
      BY <2>2, <3>2, FS_AddElement
    <3>4. Cardinality(Stored(r)') = Cardinality(Stored(r)) + 1
      BY <3>1, <3>3
    <3>5. Cardinality(Whole(r)') + failed'[r] = Cardinality(Whole(r)) + failed[r] + 1
      <4>1. CASE box'[r] = Append(box[r], sender[t]) /\ failed'[r] = failed[r]
        <5>1. Cardinality(Whole(r)') = Cardinality(Whole(r)) + 1
          BY <1>0, <4>1, WholeAppend, CodeFacts DEF IInv
        <5> QED BY <2>1, <4>1, <5>1
      <4>2. CASE box'[r] = Append(box[r], Torn) /\ failed'[r] = failed[r] + 1
        <5>1. Cardinality(Whole(r)') = Cardinality(Whole(r)) + 0
          BY <4>2, WholeAppend DEF IInv
        <5> QED BY <2>1, <4>2, <5>1
      <4>3. CASE box'[r] = box[r] /\ failed'[r] = failed[r] + 1
        <5>1. Whole(r)' = Whole(r)
          BY <4>3 DEF Whole
        <5> QED BY <2>1, <4>3, <5>1
      <4> QED BY <2>4, <4>1, <4>2, <4>3, WritesFacts
    <3> QED BY <1>0, <2>1, <2>3, <3>4, <3>5
  <2>5. CASE r # recipient[t]
    <3>1. Stored(r)' = Stored(r)
      BY <1>0, <1>6, <2>5 DEF Stored, session
    <3>2. box'[r] = box[r] /\ failed'[r] = failed[r]
      BY <2>5, WritesFacts
    <3>3. Whole(r)' = Whole(r)
      BY <3>2 DEF Whole
    <3> QED BY <1>0, <2>1, <3>1, <3>2, <3>3
  <2> QED BY <2>4, <2>5
<1>11. StoreInv'
  BY <1>10 DEF StoreInv
<1> QED BY <1>0, <1>5, <1>8, <1>9, <1>n, <1>11, TypePartsNext DEF IInv

(* The answer 200: one stored message is acknowledged. *)
LEMMA AnswersStoredInv == ASSUME IInv, NEW t \in Clients, AnswersStored(t) PROVE IInv'
<1>0. /\ pc[t] = "stored" /\ acked' = [acked EXCEPT ![recipient[t]] = @ + 1]
      /\ Respond(t, Success) /\ pc' = [pc EXCEPT ![t] = "recv"]
      /\ state' = [state EXCEPT ![t] = 0]
      /\ refused' = [refused EXCEPT ![t] = FALSE]
      /\ UNCHANGED <<box, exists, failed, accepts, open, socket>>
      /\ UNCHANGED <<email_domain, sender, recipient, cpc, cmd>>
  BY DEF AnswersStored, DataAnswered, Enter, Goto
<1>1. t \in Writers
  BY <1>0 DEF Writers
<1>2. /\ recipient[t] \in Boxes /\ socket[t] \in Clients
      /\ cmd[socket[t]] = NoCommand /\ reply[socket[t]] = NoReply
      /\ cpc[socket[t]] \notin Idle
      /\ \A u \in Writers : socket[u] = socket[t] => u = t
  BY <1>1, WriterFacts
<1>3. FileTypes /\ ServerTypes /\ SessionTypes /\ WireTypes
  BY TypeParts DEF IInv
<1>r. /\ reply' \in [Clients -> {NoReply, Success, Failure}]
      /\ \A c \in Clients : c # socket[t] => reply'[c] = reply[c]
      /\ reply'[socket[t]] # NoReply => cpc[socket[t]] # "gone"
      /\ socket[t] \in open /\ cpc[socket[t]] # "gone" => reply'[socket[t]] # NoReply
  BY <1>0, <1>2, Responded DEF IInv
<1>4. FileTypes'
  BY <1>0, <1>2, <1>3 DEF FileTypes
<1>5. ServerTypes' /\ SessionTypes'
  BY <1>0, <1>3 DEF ServerTypes, SessionTypes, accepts
<1>w. WireTypes'
  BY <1>0, <1>r, <1>3 DEF WireTypes
<1>6. \A u \in Clients : pc'[u] = IF u = t THEN "recv" ELSE pc[u]
  BY <1>0, <1>3 DEF ServerTypes
<1>7. Writers' = Writers \ {t}
  BY <1>0, <1>6 DEF Writers
<1>8. SocketInv'
  BY <1>0, <1>3, <1>6 DEF IInv, SocketInv, accepts, ServerTypes
<1>9. CommandInv'
  <2>1. \A u \in Writers' : u \in Writers /\ socket[u] # socket[t] /\ socket[u] \in Clients
    BY <1>2, <1>3, <1>7 DEF Writers, ServerTypes, IInv, CommandInv
  <2>2. \A u \in Writers' : /\ socket[u] # None /\ cpc[socket[u]] \notin Idle
                            /\ cmd[socket[u]] = NoCommand /\ reply'[socket[u]] = NoReply
    BY <1>r, <2>1 DEF IInv, CommandInv
  <2>3. cpc[socket[t]] # "gone" => cpc[socket[t]] \in {"wait", "quit"}
    BY <1>2, <1>3 DEF WireTypes, Idle, Early
  <2>4. \A c \in Clients : reply'[c] # NoReply => cpc[c] \in {"wait", "quit"}
    BY <1>r, <2>3 DEF IInv, CommandInv
  <2>5. \A c \in Clients : cmd[c] # NoCommand => reply'[c] = NoReply /\ cpc[c] \notin Idle
    BY <1>r, <1>2 DEF IInv, CommandInv
  <2>6. \A u, w \in Writers' : socket[u] = socket[w] => u = w
    BY <2>1 DEF IInv, CommandInv
  <2> QED BY <1>0, <2>2, <2>4, <2>5, <2>6 DEF CommandInv
<1>n. NoneLost'
  <2> SUFFICES ASSUME NEW c \in open, cpc[c] \in {"wait", "quit"} PROVE Somewhere(c)'
    BY <1>0 DEF NoneLost
  <2>1. CASE c = socket[t]
    BY <1>r, <2>1 DEF Somewhere
  <2>2. CASE c # socket[t]
    <3>1. reply'[c] = reply[c] /\ Somewhere(c)
      BY <1>3, <1>r, <2>2 DEF IInv, NoneLost, ServerTypes
    <3> QED BY <1>0, <1>7, <2>2, <3>1 DEF Somewhere
  <2> QED BY <2>1, <2>2
<1>10. SessionInv'
  <2>1. \A u \in Clients : u # t => /\ UNCHANGED <<state[u], email_domain[u], sender[u]>>
                                    /\ UNCHANGED <<recipient[u], refused[u]>>
                                    /\ pc'[u] = pc[u]
    BY <1>0, <1>3, <1>6 DEF SessionTypes
  <2>2. state'[t] = 0 /\ pc'[t] = "recv"
    BY <1>0, <1>3, <1>6 DEF SessionTypes
  <2> QED BY <2>1, <2>2, SessionStep DEF IInv
<1>11. ASSUME NEW r \in Boxes
       PROVE  acked'[r] + Cardinality(Stored(r)') <= Cardinality(Whole(r)') + failed'[r]
  <2>0. Whole(r)' = Whole(r) /\ failed'[r] = failed[r]
    BY <1>0 DEF Whole
  <2>1. /\ acked[r] + Cardinality(Stored(r)) <= Cardinality(Whole(r)) + failed[r]
        /\ acked[r] \in Nat /\ failed[r] \in Nat /\ Cardinality(Whole(r)) \in Nat
    BY <1>3, WholeFinite DEF IInv, StoreInv, FileTypes
  <2>2. IsFiniteSet(Stored(r))
    BY ClientsAssumption, FS_Subset DEF Stored
  <2>3. Cardinality(Stored(r)) \in Nat
    BY <2>2, FS_CardinalityType
  <2>4. CASE r = recipient[t]
    <3>1. Stored(r)' = Stored(r) \ {t} /\ t \in Stored(r)
      BY <1>0, <1>6, <2>4 DEF Stored
    <3>2. Cardinality(Stored(r)') = Cardinality(Stored(r)) - 1
      BY <2>2, <3>1, FS_RemoveElement
    <3>3. acked'[r] = acked[r] + 1
      BY <1>0, <1>3, <2>4 DEF FileTypes
    <3> QED BY <2>0, <2>1, <2>3, <3>2, <3>3
  <2>5. CASE r # recipient[t]
    <3>1. Stored(r)' = Stored(r)
      BY <1>0, <1>6, <2>5 DEF Stored
    <3>2. acked'[r] = acked[r]
      BY <1>0, <1>3, <2>5 DEF FileTypes
    <3> QED BY <2>0, <2>1, <3>1, <3>2
  <2> QED BY <2>4, <2>5
<1>12. StoreInv'
  BY <1>11 DEF StoreInv
<1> QED BY <1>4, <1>5, <1>w, <1>8, <1>9, <1>n, <1>10, <1>12, TypePartsNext DEF IInv
-----------------------------------------------------------------------------
(* The accept loop and the start of a thread. *)
LEMMA AcceptInv == ASSUME IInv, NEW c \in Clients, Accept(c) PROVE IInv'
<1>0. /\ cpc[c] = "connecting" /\ cpc' = [cpc EXCEPT ![c] = "ready"]
      /\ open' = open \union {c} /\ client_socket' = c /\ apc' = "create"
      /\ UNCHANGED <<files, thread, session, cmd, reply>>
  BY DEF Accept
<1>1. FileTypes /\ ServerTypes /\ SessionTypes /\ WireTypes
  BY TypeParts DEF IInv
<1>2. FileTypes' /\ ServerTypes' /\ SessionTypes' /\ WireTypes'
  BY <1>0, <1>1 DEF FileTypes, ServerTypes, SessionTypes, WireTypes, files, thread, session
<1>3. \A d \in Clients : cpc'[d] = IF d = c THEN "ready" ELSE cpc[d]
  BY <1>0, <1>1 DEF WireTypes
<1>4. SocketInv'
  <2>1. \A t \in Clients : socket[t] # None => cpc'[socket[t]] \notin Early
    BY <1>1, <1>3 DEF IInv, SocketInv, ServerTypes, Early
  <2>2. c # None /\ pc[c] = "none" /\ cpc'[c] \notin Early
    BY <1>0, <1>3, CodeFacts DEF IInv, SocketInv, Early
  <2>3. \A d \in Clients : cpc'[d] \in Early => pc[d] = "none"
    BY <1>3 DEF IInv, SocketInv, Early
  <2> QED BY <1>0, <2>1, <2>2, <2>3 DEF SocketInv, thread
<1>5. CommandInv'
  <2>1. \A t \in Writers : socket[t] \in Clients /\ socket[t] # c
    BY <1>0, <1>1 DEF IInv, CommandInv, ServerTypes, Writers, Idle, Early
  <2>2. cmd[c] = NoCommand /\ reply[c] = NoReply
    BY <1>0 DEF IInv, CommandInv, Idle, Early
  <2> QED BY <1>0, <1>3, <2>1, <2>2 DEF IInv, CommandInv, Writers, thread
<1>6. SessionInv'
  BY <1>0 DEF IInv, SessionInv, Writers, thread, session
<1>7. StoreInv'
  BY <1>0, StoreStep DEF IInv, files, thread, session
<1>8. NoneLost'
  BY <1>0, <1>3 DEF IInv, NoneLost, Somewhere, Writers, thread, ServerTypes
<1> QED BY <1>2, <1>4, <1>5, <1>6, <1>7, <1>8, TypePartsNext DEF IInv

LEMMA AcceptFailsInv == ASSUME IInv, AcceptFails PROVE IInv'
<1>0. /\ apc = "accept" /\ client_socket' = None
      /\ UNCHANGED <<files, apc, open, thread, session, cpc, cmd, reply>>
  BY DEF AcceptFails
<1>1. FileTypes' /\ ServerTypes' /\ SessionTypes' /\ WireTypes'
  BY <1>0, TypeParts DEF IInv, FileTypes, ServerTypes, SessionTypes, WireTypes,
                         files, thread, session
<1>n. NoneLost'
  BY <1>0, KeptStep DEF Writers, thread
<1>2. SocketInv' /\ CommandInv' /\ SessionInv'
  BY <1>0 DEF IInv, SocketInv, CommandInv, SessionInv, Writers, thread, session
<1>3. StoreInv'
  BY <1>0, StoreStep DEF IInv, files, thread, session
<1> QED BY <1>1, <1>2, <1>3, <1>n, TypePartsNext DEF IInv

LEMMA CreateThreadInv == ASSUME IInv, CreateThread PROVE IInv'
<1>0. /\ apc = "create" /\ apc' = "accept"
      /\ \/ pc' = [pc EXCEPT ![client_socket] = "start"] /\ UNCHANGED open
         \/ open' = open \ {client_socket} /\ UNCHANGED pc
      /\ UNCHANGED <<files, client_socket, socket, session, cpc, cmd, reply>>
  BY DEF CreateThread
<1>1. FileTypes /\ ServerTypes /\ SessionTypes /\ WireTypes
  BY TypeParts DEF IInv
<1>2. /\ client_socket \in Clients /\ pc[client_socket] = "none"
      /\ cpc[client_socket] \notin Early
  BY <1>0, <1>1 DEF IInv, SocketInv, ServerTypes
<1>3. \A u \in Clients : pc'[u] = pc[u] \/ (u = client_socket /\ pc'[u] = "start")
  BY <1>0, <1>1 DEF ServerTypes
<1>4. FileTypes' /\ SessionTypes' /\ WireTypes'
  BY <1>0, <1>1 DEF FileTypes, SessionTypes, WireTypes, files, session
<1>5. ServerTypes'
  BY <1>0, <1>1 DEF ServerTypes
<1>6. Writers' = Writers
  BY <1>2, <1>3 DEF Writers
<1>7. SocketInv'
  BY <1>0, <1>2, <1>3 DEF IInv, SocketInv
<1>8. CommandInv' /\ SessionInv'
  BY <1>0, <1>6 DEF IInv, CommandInv, SessionInv, session
<1>n. NoneLost'
  BY <1>0, <1>6, KeptStep
<1>9. StoreInv'
  BY <1>0, <1>3, StoreStep DEF IInv, files, session
<1> QED BY <1>4, <1>5, <1>7, <1>8, <1>9, <1>n, TypePartsNext DEF IInv

(* The thread reads what the accept loop's variable holds by now. *)
LEMMA ThreadStartsInv == ASSUME IInv, NEW t \in Clients, ThreadStarts(t) PROVE IInv'
<1>0. /\ pc[t] = "start" /\ socket' = [socket EXCEPT ![t] = client_socket]
      /\ pc' = [pc EXCEPT ![t] = "recv"]
      /\ UNCHANGED <<files, accepts, open, session, cpc, cmd, reply>>
  BY DEF ThreadStarts
<1>1. FileTypes /\ ServerTypes /\ SessionTypes /\ WireTypes
  BY TypeParts DEF IInv
<1>2. FileTypes' /\ ServerTypes' /\ SessionTypes' /\ WireTypes'
  BY <1>0, <1>1 DEF FileTypes, ServerTypes, SessionTypes, WireTypes, files, accepts, session
<1>3. \A u \in Clients : /\ pc'[u] = IF u = t THEN "recv" ELSE pc[u]
                         /\ socket'[u] = IF u = t THEN client_socket ELSE socket[u]
  BY <1>0, <1>1 DEF ServerTypes
<1>4. Writers' = Writers /\ \A u \in Writers : u \in Clients /\ socket'[u] = socket[u]
  BY <1>0, <1>3 DEF Writers
<1>5. SocketInv'
  BY <1>0, <1>1, <1>3 DEF IInv, SocketInv, accepts, ServerTypes
<1>6. CommandInv' /\ SessionInv'
  BY <1>0, <1>4 DEF IInv, CommandInv, SessionInv, session
<1>n. NoneLost'
  BY <1>0, <1>4, KeptStep
<1>7. StoreInv'
  BY <1>0, <1>3, StoreStep DEF IInv, files, session
<1> QED BY <1>2, <1>5, <1>6, <1>7, <1>n, TypePartsNext DEF IInv
-----------------------------------------------------------------------------
(* A restart forgets everything but the mailboxes. *)
LEMMA RestartInv == ASSUME IInv, Restart PROVE IInv'
<1>0. /\ apc' = "accept" /\ client_socket' = None /\ open' = {}
      /\ pc' = [t \in Clients |-> IF pc[t] = "none" THEN "none" ELSE "done"]
      /\ socket' = [t \in Clients |-> None]
      /\ state' = [t \in Clients |-> 0]
      /\ email_domain' = [t \in Clients |-> None]
      /\ sender' = [t \in Clients |-> None]
      /\ recipient' = [t \in Clients |-> None]
      /\ refused' = [t \in Clients |-> FALSE]
      /\ cpc' = [c \in Clients |-> IF cpc[c] = "start" THEN "start" ELSE "gone"]
      /\ cmd' = [c \in Clients |-> NoCommand]
      /\ reply' = [c \in Clients |-> NoReply]
      /\ UNCHANGED files
  BY DEF Restart
<1>1. FileTypes' /\ ServerTypes' /\ SessionTypes' /\ WireTypes'
  BY <1>0, TypeParts DEF IInv, FileTypes, ServerTypes, SessionTypes, WireTypes, files
<1>2. Writers' = {}
  BY <1>0 DEF Writers
<1>3. SocketInv'
  BY <1>0 DEF IInv, SocketInv, Early
<1>4. CommandInv' /\ SessionInv'
  BY <1>0, <1>2 DEF CommandInv, SessionInv
<1>n. NoneLost'
  BY <1>0 DEF NoneLost
<1>5. StoreInv'
  BY <1>0, StoreStep DEF IInv, files
<1> QED BY <1>1, <1>3, <1>4, <1>5, <1>n, TypePartsNext DEF IInv

(* The client: it sends only when nothing of its own is on the way. *)
LEMMA ClientStep ==
  ASSUME IInv, NEW c \in Clients,
         UNCHANGED <<files, accepts, open, thread, session>>,
         cpc[c] = "start" => cpc'[c] \in {"start", "connecting"},
         cpc[c] # "start" => cpc'[c] \notin Early,
         cpc' = [cpc EXCEPT ![c] = cpc'[c]], WireTypes', CommandInv', NoneLost'
  PROVE  IInv'
<1>1. FileTypes' /\ ServerTypes' /\ SessionTypes'
  BY TypeParts DEF IInv, FileTypes, ServerTypes, SessionTypes, files, accepts, thread, session
<1>2. SessionInv'
  BY DEF IInv, SessionInv, Writers, thread, session
<1>3. StoreInv'
  BY StoreStep DEF IInv, files, thread, session
<1>4. \A d \in Clients : cpc'[d] \in Early => cpc[d] \in Early
  BY TypeParts DEF IInv, WireTypes, Early
<1>5. SocketInv'
  BY <1>4, TypeParts DEF IInv, SocketInv, ServerTypes, accepts, thread
<1> QED BY <1>1, <1>2, <1>3, <1>5, TypePartsNext DEF IInv

LEMMA ConnectInv == ASSUME IInv, NEW c \in Clients, Connect(c) PROVE IInv'
<1>0. /\ cpc[c] = "start" /\ cpc' = [cpc EXCEPT ![c] = "connecting"]
      /\ UNCHANGED <<files, accepts, open, thread, session, cmd, reply>>
  BY DEF Connect
<1>1. FileTypes /\ ServerTypes /\ SessionTypes /\ WireTypes
  BY TypeParts DEF IInv
<1>2. \A d \in Clients : cpc'[d] = IF d = c THEN "connecting" ELSE cpc[d]
  BY <1>0, <1>1 DEF WireTypes
<1>3. WireTypes'
  BY <1>0, <1>1 DEF WireTypes
<1>4. CommandInv'
  <2>1. \A t \in Writers : socket[t] \in Clients /\ socket[t] # c
    BY <1>0, <1>1 DEF IInv, CommandInv, ServerTypes, Writers, Idle, Early
  <2>2. cmd[c] = NoCommand /\ reply[c] = NoReply
    BY <1>0 DEF IInv, CommandInv, Idle, Early
  <2> QED BY <1>0, <1>2, <2>1, <2>2 DEF IInv, CommandInv, Writers, thread
<1>5. NoneLost'
  BY <1>0, <1>1, <1>2 DEF IInv, NoneLost, Somewhere, Writers, thread, ServerTypes
<1> QED BY <1>0, <1>2, <1>3, <1>4, <1>5, ClientStep

LEMMA SendCommandInv == ASSUME IInv, NEW c \in Clients, SendCommand(c) PROVE IInv'
<1>0. /\ cpc[c] = "ready"
      /\ UNCHANGED <<files, accepts, open, thread, session, reply>>
  BY DEF SendCommand
<1>1. PICK q \in Commands :
        /\ cmd' = [cmd EXCEPT ![c] = q]
        /\ cpc' = [cpc EXCEPT ![c] = IF q.verb = "QUIT" THEN "quit" ELSE "wait"]
  BY DEF SendCommand
<1>2. FileTypes /\ ServerTypes /\ SessionTypes /\ WireTypes
  BY TypeParts DEF IInv
<1>3. /\ cpc'[c] \in {"quit", "wait"} /\ cpc' = [cpc EXCEPT ![c] = cpc'[c]]
      /\ \A d \in Clients : d # c => cpc'[d] = cpc[d] /\ cmd'[d] = cmd[d]
  BY <1>1, <1>2 DEF WireTypes
<1>4. WireTypes'
  <2>1. cmd' \in [Clients -> Commands \union {NoCommand}]
    BY <1>1, <1>2 DEF WireTypes
  <2>2. cpc' \in [Clients -> {"start", "connecting", "ready", "wait", "quit", "gone"}]
    BY <1>2, <1>3 DEF WireTypes
  <2> QED BY <1>0, <1>2, <2>1, <2>2 DEF WireTypes
<1>5. CommandInv'
  <2>1. Writers' = Writers /\ socket' = socket /\ reply' = reply
    BY <1>0 DEF Writers, thread
  <2>2. \A t \in Writers : socket[t] \in Clients /\ socket[t] # c
    BY <1>0, <1>2 DEF IInv, CommandInv, ServerTypes, Writers, Idle
  <2>3. reply[c] = NoReply
    BY <1>0 DEF IInv, CommandInv
  <2>4. cpc'[c] \notin Idle
    BY <1>3 DEF Idle, Early
  <2> QED BY <1>3, <2>1, <2>2, <2>3, <2>4 DEF IInv, CommandInv
<1>6. NoneLost'
  <2>1. cmd'[c] # NoCommand
    BY <1>1, <1>2, CommandFacts DEF WireTypes
  <2> QED BY <1>0, <1>2, <1>3, <2>1 DEF IInv, NoneLost, Somewhere, Writers, thread, ServerTypes
<1> QED BY <1>0, <1>3, <1>4, <1>5, <1>6, ClientStep DEF Early

(* A response, or the end of the client: either way nothing is left of the *)
(* answer, and a command still under way is not the client's any more.     *)
LEMMA ReceiveOrLeaveInv ==
  ASSUME IInv, NEW c \in Clients, ReceiveResponse(c) \/ Leave(c) PROVE IInv'
<1>0. /\ cpc[c] \in {"ready", "wait", "quit"}
      /\ reply' = [reply EXCEPT ![c] = NoReply]
      /\ UNCHANGED <<files, accepts, open, thread, session, cmd>>
  BY DEF ReceiveResponse, Leave
<1>1. PICK p \in {"ready", "gone"} :
        /\ cpc' = [cpc EXCEPT ![c] = p]
        /\ p = "ready" => reply[c] # NoReply
  BY DEF ReceiveResponse, Leave
<1>2. FileTypes /\ ServerTypes /\ SessionTypes /\ WireTypes
  BY TypeParts DEF IInv
<1>3. /\ cpc'[c] = p /\ cpc' = [cpc EXCEPT ![c] = cpc'[c]]
      /\ \A d \in Clients : d # c => cpc'[d] = cpc[d] /\ reply'[d] = reply[d]
      /\ reply'[c] = NoReply
  BY <1>0, <1>1, <1>2 DEF WireTypes
<1>4. WireTypes'
  BY <1>0, <1>1, <1>2 DEF WireTypes
<1>5. CommandInv'
  <2>1. Writers' = Writers /\ socket' = socket /\ cmd' = cmd
    BY <1>0 DEF Writers, thread
  <2>2. \A t \in Writers : socket[t] \in Clients
    BY <1>2 DEF IInv, CommandInv, ServerTypes, Writers
  <2>3. p = "ready" => cmd[c] = NoCommand /\ \A t \in Writers : socket[t] # c
    BY <1>1 DEF IInv, CommandInv
  <2>4. p = "gone" => p \notin Idle
    BY DEF Idle, Early
  <2>5. \A t \in Writers : cpc'[socket[t]] \notin Idle /\ reply'[socket[t]] = NoReply
    BY <1>3, <2>2, <2>3, <2>4 DEF IInv, CommandInv
  <2>6. \A d \in Clients : cmd[d] # NoCommand => reply'[d] = NoReply /\ cpc'[d] \notin Idle
    BY <1>3, <2>3, <2>4 DEF IInv, CommandInv
  <2> QED BY <1>3, <2>1, <2>5, <2>6 DEF IInv, CommandInv
<1>6. cpc[c] # "start" /\ cpc'[c] \notin Early
  BY <1>0, <1>3 DEF Early
<1>7. NoneLost'
  BY <1>0, <1>1, <1>2, <1>3 DEF IInv, NoneLost, Somewhere, Writers, thread, ServerTypes
<1> QED BY <1>0, <1>3, <1>4, <1>5, <1>6, <1>7, ClientStep
-----------------------------------------------------------------------------
LEMMA StutterInv == ASSUME IInv, UNCHANGED vars PROVE IInv'
<1>0. /\ UNCHANGED <<files, accepts, open, thread, session, cpc, cmd, reply>>
  BY DEF vars
<1>1. TypeOK'
  BY <1>0 DEF IInv, TypeOK, files, accepts, thread, session
<1>2. SocketInv' /\ CommandInv' /\ SessionInv'
  BY <1>0 DEF IInv, SocketInv, CommandInv, SessionInv, Writers, accepts, thread, session
<1>3. StoreInv'
  BY <1>0, StoreStep DEF IInv, files, thread, session
<1>4. NoneLost'
  BY <1>0, KeptStep DEF Writers, thread
<1> QED BY <1>1, <1>2, <1>3, <1>4 DEF IInv

LEMMA NextInv == ASSUME IInv, [Next]_vars PROVE IInv'
<1>1. CASE UNCHANGED vars
  BY <1>1, StutterInv
<1>2. CASE AcceptFails
  BY <1>2, AcceptFailsInv
<1>3. CASE CreateThread
  BY <1>3, CreateThreadInv
<1>4. CASE Restart
  BY <1>4, RestartInv
<1>5. ASSUME NEW c \in Clients, Accept(c) PROVE IInv'
  BY <1>5, AcceptInv
<1>6. ASSUME NEW t \in Clients, Thread(t) PROVE IInv'
  BY <1>6, ThreadStartsInv, ThreadEndsInv, HeloInv, MailFromInv, RcptToInv, RefuseInv,
     OpensMailboxInv, WritesMessageInv, AnswersStoredInv, AnswersFailedInv, ListMailsInv,
     GetMailInv, QuitInv DEF Thread
<1>7. ASSUME NEW c \in Clients, Client(c) PROVE IInv'
  BY <1>7, ConnectInv, SendCommandInv, ReceiveOrLeaveInv DEF Client
<1> QED BY <1>1, <1>2, <1>3, <1>4, <1>5, <1>6, <1>7 DEF Next

(* The inductive invariant: what any number of clients and threads, their  *)
(* ends and the server's restarts leave true of sockets, commands,         *)
(* sessions and mailboxes.                                                 *)
THEOREM Invariance == Spec => []IInv
<1>1. Init => IInv
  BY InitInv
<1>2. IInv /\ [Next]_vars => IInv'
  BY NextInv
<1> QED BY <1>1, <1>2, PTL DEF Spec

(* Every variable keeps its type; in particular no unset sender or         *)
(* recipient is ever stored (mysmtp_server.c:130-242).                     *)
THEOREM Types == Spec => []TypeOK
<1>1. IInv => TypeOK
  BY DEF IInv
<1> QED BY <1>1, Invariance, PTL

(* A message is stored only with a sender of the HELO domain or after a    *)
(* MAIL FROM that was refused, in whatever order a session re-identifies,  *)
(* repeats MAIL FROM and names recipients (mysmtp_server.c:150-205).       *)
THEOREM StoresCheckedSenders == Spec => []SenderChecked
<1>1. IInv => SenderChecked
  <2> SUFFICES ASSUME IInv, NEW t \in Writers
               PROVE  sender[t] = email_domain[t] \/ refused[t]
    BY DEF SenderChecked
  <2> QED BY WriterFacts
<1> QED BY <1>1, Invariance, PTL

(* A message answered with 200 is in the mailbox unless the write itself   *)
(* failed, however many threads store into the same file and whenever the  *)
(* server is killed; a failed write costs no message but its own           *)
(* (mysmtp_server.c:189-205, 244-267).                                     *)
THEOREM LosesNoAckedMail == Spec => []AckedIsStored
<1>1. IInv => AckedIsStored
  <2> SUFFICES ASSUME IInv, NEW r \in Boxes
               PROVE  acked[r] <= Cardinality(Whole(r)) + failed[r]
    BY DEF AckedIsStored
  <2>1. IsFiniteSet(Stored(r))
    BY ClientsAssumption, FS_Subset DEF Stored
  <2>2. Cardinality(Stored(r)) \in Nat
    BY <2>1, FS_CardinalityType
  <2>3. /\ acked[r] + Cardinality(Stored(r)) <= Cardinality(Whole(r)) + failed[r]
        /\ acked[r] \in Nat /\ failed[r] \in Nat /\ Cardinality(Whole(r)) \in Nat
    BY WholeFinite DEF IInv, StoreInv, TypeOK
  <2> QED BY <2>2, <2>3
<1> QED BY <1>1, Invariance, PTL

(* A command is never in two places, so it is not answered twice; and as   *)
(* long as the server has its connection open it is in one until the       *)
(* client has its answer, even when two threads read the same socket       *)
(* (mysmtp_server.c:114-117, 130, 140, 237-242).                           *)
THEOREM AnswersOnce == Spec => []OnePlace
<1>1. IInv => OnePlace
  <2> SUFFICES ASSUME IInv, NEW c \in Clients
               PROVE  /\ Places(c) <= 1
                      /\ cpc[c] \in {"wait", "quit"} /\ c \in open => Places(c) = 1
                      /\ cpc[c] = "ready" => Places(c) = 0
    BY DEF OnePlace
  <2>1. \A t, u \in Holders(c) : t = u
    BY DEF IInv, CommandInv, Holders
  <2>2. Cardinality(Holders(c)) = IF Holders(c) = {} THEN 0 ELSE 1
    <3>1. CASE Holders(c) = {}
      BY <3>1, FS_EmptySet
    <3>2. ASSUME NEW t \in Holders(c) PROVE Cardinality(Holders(c)) = 1
      <4>1. Holders(c) = {t}
        BY <2>1
      <4>2. Cardinality({t}) = 1
        BY FS_Singleton
      <4> QED BY <4>1, <4>2
    <3> QED BY <3>1, <3>2
  <2>3. /\ Holders(c) # {} => cmd[c] = NoCommand /\ reply[c] = NoReply
        /\ cmd[c] # NoCommand => reply[c] = NoReply
    BY DEF IInv, CommandInv, Holders
  <2>4. Places(c) = 0 <=> Holders(c) = {} /\ cmd[c] = NoCommand /\ reply[c] = NoReply
    BY <2>2 DEF Places
  <2>5. Places(c) \in {0, 1}
    BY <2>2, <2>3 DEF Places
  <2>6. ASSUME cpc[c] \in {"wait", "quit"}, c \in open PROVE Places(c) # 0
    <3>1. Somewhere(c)
      BY <2>6 DEF IInv, NoneLost
    <3> QED BY <2>4, <3>1 DEF Somewhere, Holders
  <2>7. ASSUME cpc[c] = "ready" PROVE Places(c) = 0
    BY <2>4, <2>7 DEF IInv, CommandInv, Holders, Idle
  <2> QED BY <2>5, <2>6, <2>7
<1> QED BY <1>1, Invariance, PTL

(* A mailbox only grows, by one message or a piece of one at its end. *)
LEMMA BoxGrows ==
  ASSUME IInv, [Next]_vars, NEW r \in Boxes
  PROVE  \/ box'[r] = box[r]
         \/ \E s \in Senders \union {Torn} : box'[r] = Append(box[r], s)
<1>1. box' = box \/ \E t \in Clients : WritesMessage(t)
  BY DEF Next, vars, files, AcceptFails, CreateThread, Restart, Accept, Thread, Client,
         ThreadStarts, ThreadEnds, HELO, MailFrom, RcptTo, Refuse, OpensMailbox,
         AnswersStored, AnswersFailed, DataAnswered, ListMails, GetMail, Quit,
         Connect, SendCommand, ReceiveResponse, Leave
<1>2. ASSUME NEW t \in Clients, WritesMessage(t)
      PROVE  \/ box'[r] = box[r]
             \/ \E s \in Senders \union {Torn} : box'[r] = Append(box[r], s)
  BY <1>2, WritesFacts
<1> QED BY <1>1, <1>2

(* The number by which GET_MAIL finds a message never changes, over        *)
(* deliveries by any number of threads, writes that fail and kills of the  *)
(* server (mysmtp_server.c:248, 259-265, 330-336).                         *)
THEOREM NumbersStay == Spec => IdsStable
<1>1. IInv /\ [Next]_vars => [\A r \in Boxes : SubSeq(box'[r], 1, Len(box[r])) = box[r]]_vars
  <2> SUFFICES ASSUME IInv, [Next]_vars, NEW r \in Boxes
               PROVE  SubSeq(box'[r], 1, Len(box[r])) = box[r]
    OBVIOUS
  <2>1. box[r] \in Seq(Senders \union {Torn})
    BY DEF IInv, TypeOK
  <2>2. CASE box'[r] = box[r]
    BY <2>1, <2>2
  <2>3. ASSUME NEW s \in Senders \union {Torn}, box'[r] = Append(box[r], s)
        PROVE  SubSeq(box'[r], 1, Len(box[r])) = box[r]
    BY <2>1, <2>3
  <2> QED BY <2>2, <2>3, BoxGrows
<1> QED BY <1>1, Invariance, PTL DEF Spec, IdsStable
=============================================================================
