---------------------------- MODULE AnswerProof ----------------------------
(***************************************************************************)
(* That the task queue credits every result to the task it is the result   *)
(* of, for every finite set of clients and every number of tasks, when all *)
(* clients wait for the reply to a GET_TASK before they ask again.         *)
(***************************************************************************)
EXTENDS TaskQueueProof

Getting == {"getWait", "get"}
Storing == {"resultWait", "result"}

Asks(s)     == \E i \in 1..Len(s) : s[i].type = "GET_TASK"
Queue(s, x) == \A i \in 1..Len(s) : /\ s[i].type = "GET_TASK" => i = Len(s)
                                    /\ s[i].type = "RESULT" => s[i].task = x

(* A request for a task is on its way or being served. *)
Asking(c) == pc[c] \in Getting \/ Asks(toSrv[c])

(* The conversation of a client and its child: one request, one reply, one *)
(* result.  Whatever result is under way is that of the task the child     *)
(* has in task_index.                                                      *)
Orderly(c) ==
  /\ Held(c) \subseteq {task_index[c]}
  /\ Asking(c) => cpc[c] \in {"await", "done"}
  /\ Asking(c) /\ cpc[c] = "await" => toCli[c] = <<>>
  /\ pc[c] \in Getting => toSrv[c] = <<>>
  /\ Queue(toSrv[c], task_index[c])
  /\ pc[c] \in Storing => buffer[c] = task_index[c]
  /\ cpc[c] \in {"start", "request", "compute"} => toCli[c] = <<>>
  /\ cpc[c] = "compute" => ctask[c] = task_index[c]
  /\ cpc[c] = "await" /\ toCli[c] # <<>> =>
       /\ Len(toCli[c]) = 1
       /\ Head(toCli[c]).type = "Task" => Head(toCli[c]).task = task_index[c]

Conversations == \A c \in Clients : Orderly(c)
AInv == IInv /\ Conversations /\ RightAnswer
-----------------------------------------------------------------------------
(* Queues: the empty one, what recv leaves of one, one message more.       *)

LEMMA QueueEmpty == ASSUME NEW x PROVE Queue(<<>>, x) /\ ~Asks(<<>>)
BY DEF Queue, Asks

LEMMA QueueRest ==
  ASSUME NEW x, NEW s \in Seq(Requests), Queue(s, x), NEW k \in 1..Len(s)
  PROVE  LET r == SubSeq(s, k + 1, Len(s)) IN
           /\ Queue(r, x)
           /\ Asks(r) => Asks(s)
           /\ Head(s).type = "GET_TASK" => r = <<>> /\ Asks(s)
           /\ Head(s).type = "RESULT" => Head(s).task = x
<1> DEFINE r == SubSeq(s, k + 1, Len(s))
<1>1. /\ r \in Seq(Requests) /\ Len(r) = Len(s) - k /\ Len(s) \in Nat /\ Len(s) > 0
      /\ \A i \in 1..Len(r) : r[i] = s[k + i] /\ k + i \in 1..Len(s)
      /\ Head(s) = s[1]
  BY Rest
<1> HIDE DEF r
<1>2. Queue(r, x)
  <2> SUFFICES ASSUME NEW i \in 1..Len(r)
               PROVE  /\ r[i].type = "GET_TASK" => i = Len(r)
                      /\ r[i].type = "RESULT" => r[i].task = x
    BY DEF Queue
  <2>1. r[i] = s[k + i] /\ k + i \in 1..Len(s) /\ Len(r) = Len(s) - k /\ i \in Nat /\ k \in Nat
    BY <1>1
  <2>2. /\ s[k + i].type = "GET_TASK" => k + i = Len(s)
        /\ s[k + i].type = "RESULT" => s[k + i].task = x
    BY <2>1 DEF Queue
  <2> QED BY <1>1, <2>1, <2>2
<1>3. Asks(r) => Asks(s)
  BY <1>1 DEF Asks
<1>4. ASSUME Head(s).type = "GET_TASK" PROVE r = <<>> /\ Asks(s)
  <2>1. 1 \in 1..Len(s) /\ s[1].type = "GET_TASK"
    BY <1>1, <1>4
  <2>2. Len(s) = 1
    BY <2>1 DEF Queue
  <2>3. Len(r) = 0
    BY <1>1, <2>2
  <2>4. r = <<>>
    BY <1>1, <2>3, EmptySeq
  <2> QED BY <2>1, <2>4 DEF Asks
<1>5. Head(s).type = "RESULT" => Head(s).task = x
  <2>1. 1 \in 1..Len(s)
    BY <1>1
  <2> QED BY <1>1, <2>1 DEF Queue
<1> QED BY <1>2, <1>3, <1>4, <1>5 DEF r

LEMMA QueueAdd ==
  ASSUME NEW x, NEW s \in Seq(Requests), Queue(s, x), ~Asks(s),
         NEW m \in Requests, m.type = "RESULT" => m.task = x
  PROVE  /\ Queue(Append(s, m), x)
         /\ Asks(Append(s, m)) <=> m.type = "GET_TASK"
<1> DEFINE r == Append(s, m)
<1>1. /\ Len(r) = Len(s) + 1 /\ Len(s) \in Nat /\ r[Len(s) + 1] = m
      /\ \A i \in 1..Len(s) : r[i] = s[i]
  OBVIOUS
<1> HIDE DEF r
<1>2. \A i \in 1..Len(r) : i \in 1..Len(s) \/ i = Len(s) + 1
  BY <1>1
<1>3. Queue(r, x)
  BY <1>1, <1>2 DEF Queue, Asks
<1>4. Asks(r) <=> m.type = "GET_TASK"
  BY <1>1, <1>2 DEF Asks
<1> QED BY <1>3, <1>4 DEF r
-----------------------------------------------------------------------------
(* A step that neither reads, sends nor computes anything in c's           *)
(* conversation keeps it orderly.                                          *)
Silent(c) ==
  /\ UNCHANGED <<toSrv[c], toCli[c], cpc[c], ctask[c], task_index[c], buffer[c]>>
  /\ Held(c)' \subseteq Held(c)
  /\ pc'[c] \in Getting => pc[c] \in Getting
  /\ pc'[c] \in Storing => pc[c] \in Storing

LEMMA SilentOrderly == ASSUME NEW c \in Clients, Orderly(c), Silent(c) PROVE Orderly(c)'
BY DEF Orderly, Silent, Asking, Queue, Asks

(* Only its own child gives a client a task, and changes its state then.   *)
LEMMA HeldFrame ==
  ASSUME TypeOK, [Next]_vars, NEW c \in Clients, pc'[c] = pc[c] \/ pc[c] # "get"
  PROVE  Held(c)' \subseteq Held(c)
<1>1. CASE ChildGets(c)
  <2>1. pc[c] = "get"
    BY <1>1 DEF ChildGets
  <2>2. pc'[c] # "get"
    BY <1>1, Messages DEF ChildGets, SendReply, Exit, Goto, TypeOK
  <2> QED BY <2>1, <2>2
<1> QED BY <1>1, HeldStep
-----------------------------------------------------------------------------
(* The types a conversation is made of. *)
LEMMA TalkTypes ==
  ASSUME TypeOK, NEW c \in Clients
  PROVE  /\ toSrv \in [Clients -> Seq(Requests)] /\ toCli \in [Clients -> Seq(Replies)]
         /\ toSrv[c] \in Seq(Requests) /\ toCli[c] \in Seq(Replies)
         /\ pc \in [Clients -> {"recv"} \union ChildWaits \union ChildCS
                               \union Gone \union Unserved]
         /\ cpc \in [Clients -> {"start", "request", "await", "compute", "done"}]
         /\ ctask \in [Clients -> Tasks \union {NoTask}]
         /\ buffer \in [Clients -> Tasks \union {NoTask}]
         /\ task_index \in [Clients -> Tasks \union {NoTask}]
BY DEF TypeOK

(* What a step of one client or of its child leaves alone of the others.   *)
LEMMA OthersChild ==
  ASSUME TypeOK, NEW c \in Clients, ChildLock(c) \/ Child(c), NEW d \in Clients \ {c}
  PROVE  UNCHANGED <<toSrv[d], toCli[d], cpc[d], ctask[d], task_index[d], buffer[d], pc[d]>>
<1> USE TalkTypes DEF client, net, child
<1>1. CASE ChildLock(c)
  BY <1>1 DEF ChildLock, Goto
<1>2. CASE ChildReceives(c)
  BY <1>2 DEF ChildReceives, Goto
<1>3. CASE ChildSeesClose(c)
  BY <1>3 DEF ChildSeesClose, Goto
<1>4. CASE ChildQuits(c)
  BY <1>4 DEF ChildQuits, Exit, Goto
<1>5. CASE ChildGets(c)
  <2>1. PICK m \in Replies : SendReply(c, m)
    BY <1>5, Messages DEF ChildGets
  <2>2. UNCHANGED <<toSrv[d], toCli[d], buffer[d], pc[d]>>
    BY <2>1 DEF SendReply, Exit, Goto
  <2>3. UNCHANGED <<cpc[d], ctask[d]>> /\ task_index'[d] = task_index[d]
    BY <1>5, GetsCases DEF ChildGets
  <2> QED BY <2>2, <2>3
<1>6. CASE ChildCredits(c)
  BY <1>6 DEF ChildCredits, Goto
<1>7. CASE ChildReleases(c)
  BY <1>7 DEF ChildReleases, Exit, Goto
<1>8. CASE ChildTimeouts(c)
  BY <1>8 DEF ChildTimeouts, Goto
<1> QED BY <1>1, <1>2, <1>3, <1>4, <1>5, <1>6, <1>7, <1>8 DEF Child

LEMMA OthersClient ==
  ASSUME TypeOK, NEW c \in Clients, Client(c), NEW d \in Clients \ {c}
  PROVE  UNCHANGED <<toSrv[d], toCli[d], cpc[d], ctask[d], task_index[d], buffer[d], pc[d]>>
<1> USE TalkTypes DEF client, ClientOnly, Send, Close
<1>1. CASE Connect(c)
  BY <1>1 DEF Connect, Goto
<1>2. CASE ClientRequests(c) \/ ClientRepeats(c)
  BY <1>2 DEF ClientRequests, ClientRepeats
<1>3. CASE ClientTakesTask(c)
  BY <1>3 DEF ClientTakesTask, ClientReads
<1>4. CASE ClientAnswers(c)
  BY <1>4 DEF ClientAnswers
<1>5. CASE ClientLeaves(c)
  BY <1>5 DEF ClientLeaves
<1>6. CASE ClientCloses(c)
  BY <1>6 DEF ClientCloses
<1>7. CASE ClientSeesClose(c)
  BY <1>7 DEF ClientSeesClose
<1> QED BY <1>1, <1>2, <1>3, <1>4, <1>5, <1>6, <1>7 DEF Client
-----------------------------------------------------------------------------
(* The conversation stays orderly: steps of the child. *)

LEMMA OrderlyReceives ==
  ASSUME TypeOK, NEW c \in Clients, Orderly(c), Held(c)' \subseteq Held(c), ChildReceives(c)
  PROVE  Orderly(c)'
<1>0. pc[c] = "recv" /\ UNCHANGED <<task_index, cpc, ctask, toCli>>
  BY DEF ChildReceives, client
<1>1. PICK k \in 1..Len(toSrv[c]) :
        toSrv' = [toSrv EXCEPT ![c] = SubSeq(@, k + 1, Len(@))]
  BY DEF ChildReceives
<1> DEFINE m == Head(toSrv[c])
<1>2. /\ toSrv'[c] = SubSeq(toSrv[c], k + 1, Len(toSrv[c]))
      /\ toSrv[c] \in Seq(Requests)
  BY <1>1, TalkTypes
<1>3. /\ Queue(toSrv'[c], task_index[c])
      /\ Asks(toSrv'[c]) => Asks(toSrv[c])
      /\ m.type = "GET_TASK" => toSrv'[c] = <<>> /\ Asks(toSrv[c])
      /\ m.type = "RESULT" => m.task = task_index[c]
  <2>1. Queue(toSrv[c], task_index[c])
    BY DEF Orderly
  <2> DEFINE r == SubSeq(toSrv[c], k + 1, Len(toSrv[c]))
  <2>2. /\ Queue(r, task_index[c])
        /\ Asks(r) => Asks(toSrv[c])
        /\ m.type = "GET_TASK" => r = <<>> /\ Asks(toSrv[c])
        /\ m.type = "RESULT" => m.task = task_index[c]
    BY <1>2, <2>1, QueueRest
  <2>3. toSrv'[c] = r
    BY <1>2
  <2> HIDE DEF r, m
  <2> QED BY <2>2, <2>3, Zenon
<1>4. m.type \in {"GET_TASK", "RESULT", "exit"}
  BY <1>2, Rest, Messages
<1>5. /\ buffer'[c] = m.task
      /\ pc'[c] \in {"getWait", "resultWait", "releaseWait"}
      /\ pc'[c] = "getWait" => m.type = "GET_TASK"
      /\ pc'[c] = "resultWait" => m.type = "RESULT"
  BY <1>4, TalkTypes DEF ChildReceives, Goto
<1> HIDE DEF m
<1>6. Asking(c)' => Asking(c)
  BY <1>3, <1>5 DEF Asking, Getting
<1>7. Queue(toSrv[c], task_index[c])'
  BY <1>0, <1>3, Zenon
<1> QED BY <1>0, <1>3, <1>5, <1>6, <1>7 DEF Orderly, Getting, Storing

LEMMA OrderlyQuits ==
  ASSUME TypeOK, NEW c \in Clients, Orderly(c), Held(c)' \subseteq Held(c),
         ChildQuits(c) \/ ChildReleases(c)
  PROVE  Orderly(c)'
<1>1. /\ UNCHANGED <<task_index, cpc, ctask, toCli>>
      /\ toSrv'[c] = <<>> /\ pc'[c] = "exited"
  BY TalkTypes DEF ChildQuits, ChildReleases, Exit, Goto, client
<1>2. Queue(<<>>, task_index[c]) /\ ~Asks(<<>>)
  BY QueueEmpty
<1> QED BY <1>1, <1>2 DEF Orderly, Asking, Getting, Storing

LEMMA OrderlyGets ==
  ASSUME TypeOK, NEW c \in Clients, Orderly(c), ChildGets(c)
  PROVE  Orderly(c)'
<1> USE TalkTypes
<1>1. pc[c] = "get" /\ UNCHANGED <<cpc, ctask, completed>>
  BY DEF ChildGets, client
<1>2. /\ cpc[c] \in {"await", "done"} /\ toSrv[c] = <<>>
      /\ cpc[c] = "await" => toCli[c] = <<>>
  BY <1>1 DEF Orderly, Asking, Getting
<1>3. PICK m \in Replies : SendReply(c, m) /\ (m.type = "Task" => m.task = task_index'[c])
  <2>1. ASSUME NEW t \in Tasks, SendReply(c, [type |-> "Task", task |-> t]),
               task_index' = [task_index EXCEPT ![c] = t]
        PROVE  \E m \in Replies : SendReply(c, m) /\ (m.type = "Task" => m.task = task_index'[c])
    <3> DEFINE m == [type |-> "Task", task |-> t]
    <3>1. m \in Replies /\ m.task = task_index'[c]
      BY <2>1, Messages
    <3> QED BY <2>1, <3>1
  <2>2. CASE SendReply(c, [type |-> "None", task |-> NoTask])
    <3> DEFINE m == [type |-> "None", task |-> NoTask]
    <3>1. m \in Replies /\ m.type # "Task"
      BY Messages
    <3> QED BY <2>2, <3>1
  <2> QED BY <2>1, <2>2 DEF ChildGets
<1>4. /\ toSrv'[c] = <<>> /\ pc'[c] \notin Getting \union Storing
      /\ toCli'[c] = toCli[c] \/ toCli'[c] = Append(toCli[c], m)
  BY <1>2, <1>3 DEF SendReply, Exit, Goto, Getting, Storing
<1>5. Held(c)' \subseteq {task_index'[c]}
  <2>1. Held(c) \subseteq {task_index[c]}
    BY DEF Orderly
  <2>2. ASSUME NEW t \in Tasks, IsFirst(t, Held(c)),
               task_index' = [task_index EXCEPT ![c] = t], assigned_to' = assigned_to
        PROVE  Held(c)' \subseteq {task_index'[c]}
    BY <1>1, <2>1, <2>2 DEF Held, IsFirst
  <2>3. ASSUME NEW t \in Tasks, MayAssign(c, t),
               task_index' = [task_index EXCEPT ![c] = t],
               assigned_to' = [assigned_to EXCEPT ![t] = c]
        PROVE  Held(c)' \subseteq {task_index'[c]}
    BY <1>1, <2>3 DEF Held, MayAssign
  <2>4. CASE Held(c) = {} /\ assigned_to' = assigned_to
    BY <1>1, <2>4 DEF Held
  <2> QED BY <2>2, <2>3, <2>4, GetsCases
<1>6. Queue(<<>>, task_index'[c]) /\ ~Asks(<<>>)
  BY QueueEmpty
<1>7. Queue(toSrv[c], task_index[c])' /\ ~Asking(c)'
  BY <1>4, <1>6 DEF Asking
<1>8. cpc'[c] = "await" /\ toCli'[c] # <<>> => Len(toCli'[c]) = 1 /\ Head(toCli'[c]) = m
  <2>1. Append(<<>>, m) # <<>> /\ Len(Append(<<>>, m)) = 1 /\ Head(Append(<<>>, m)) = m
    OBVIOUS
  <2> QED BY <1>1, <1>2, <1>4, <2>1, Zenon
<1> QED BY <1>1, <1>2, <1>3, <1>4, <1>5, <1>7, <1>8 DEF Orderly

LEMMA OrderlyCredits ==
  ASSUME TypeOK, NEW c \in Clients, Orderly(c), RightAnswer, ChildCredits(c),
         Held(c)' \subseteq Held(c)
  PROVE  Orderly(c)' /\ RightAnswer'
<1> USE TalkTypes
<1>1. /\ UNCHANGED <<toSrv, toCli, cpc, ctask, buffer>>
      /\ pc'[c] = "timeoutWait" /\ buffer[c] = task_index[c]
  BY DEF ChildCredits, Goto, client, net, Orderly, Storing
<1>2. ASSUME NEW t, Credited(c, t) PROVE t = task_index[c]
  BY <1>2 DEF Orderly, Credited, IsFirst
<1>3. task_index'[c] = task_index[c]
  BY <1>2, CreditsCases
<1>4. Orderly(c)'
  BY <1>1, <1>3, SilentOrderly DEF Silent, Getting, Storing
<1>5. ASSUME NEW t \in Tasks, Credited(c, t),
             completed' = [completed EXCEPT ![t] = TRUE],
             answer' = [answer EXCEPT ![t] = buffer[c]]
      PROVE  RightAnswer'
  BY <1>1, <1>2, <1>5 DEF RightAnswer, TypeOK
<1>6. ASSUME UNCHANGED <<completed, answer>> PROVE RightAnswer'
  BY <1>6 DEF RightAnswer
<1>7. RightAnswer'
  BY <1>5, <1>6, CreditsCases
<1> QED BY <1>4, <1>7

LEMMA OrderlyChild ==
  ASSUME TypeOK, [Next]_vars, NEW c \in Clients, Orderly(c), RightAnswer,
         ChildLock(c) \/ Child(c)
  PROVE  Orderly(c)'
<1>1. CASE ChildGets(c)
  BY <1>1, OrderlyGets
<1>2. CASE pc[c] # "get"
  <2>1. Held(c)' \subseteq Held(c)
    BY <1>2, HeldFrame
  <2>2. CASE ChildReceives(c)
    BY <2>1, <2>2, OrderlyReceives
  <2>3. CASE ChildQuits(c) \/ ChildReleases(c)
    BY <2>1, <2>3, OrderlyQuits
  <2>4. CASE ChildCredits(c)
    BY <2>1, <2>4, OrderlyCredits
  <2>5. CASE ChildSeesClose(c) \/ ChildTimeouts(c)
    <3>1. UNCHANGED <<toSrv, toCli, cpc, ctask, task_index>>
      BY <2>5 DEF ChildSeesClose, ChildTimeouts, client, net
    <3>2. pc'[c] \in {"releaseWait", "recv"}
      BY <2>5, TalkTypes DEF ChildSeesClose, ChildTimeouts, Goto
    <3> QED BY <2>1, <3>1, <3>2 DEF Orderly, Asking, Getting, Storing, Queue, Asks
  <2>6. CASE ChildLock(c)
    <3>1. UNCHANGED <<toSrv, toCli, cpc, ctask, task_index, buffer>>
      BY <2>6 DEF ChildLock, client, net
    <3>2. /\ pc'[c] \in Getting => pc[c] \in Getting
          /\ pc'[c] \in Storing => pc[c] \in Storing
      BY <2>6, TalkTypes DEF ChildLock, Goto, Getting, Storing, ChildWaits
    <3> QED BY <2>1, <3>1, <3>2, SilentOrderly DEF Silent
  <2> QED BY <1>2, <2>2, <2>3, <2>4, <2>5, <2>6 DEF Child, ChildGets
<1>3. CASE pc[c] = "get" /\ ~ChildGets(c)
  BY <1>3 DEF Child, ChildLock, ChildReceives, ChildSeesClose, ChildQuits, ChildCredits,
              ChildReleases, ChildTimeouts, ChildWaits
<1> QED BY <1>1, <1>2, <1>3
-----------------------------------------------------------------------------
(* The conversation stays orderly: steps of the client. *)

LEMMA OrderlyClient ==
  ASSUME TypeOK, NEW c \in Clients, Orderly(c), c \notin Impatient, Client(c),
         Held(c)' \subseteq Held(c)
  PROVE  Orderly(c)'
<1> USE TalkTypes
<1>0. /\ UNCHANGED <<task_index, buffer>>
      /\ pc'[c] \in Getting => pc[c] \in Getting
      /\ pc'[c] \in Storing => pc[c] \in Storing
  BY ClientMoves DEF Getting, Storing
<1> DEFINE x == task_index[c]
           s == toSrv[c]
<1>1. Queue(s, x) /\ s \in Seq(Requests)
  BY DEF Orderly
<1>2. ASSUME NEW m \in Requests, ~Asking(c), m.type = "RESULT" => m.task = x,
             toSrv' = [toSrv EXCEPT ![c] = Append(@, m)]
      PROVE  /\ Queue(toSrv'[c], x)
             /\ Asks(toSrv'[c]) <=> m.type = "GET_TASK"
  <2>1. toSrv'[c] = Append(s, m)
    BY <1>2
  <2>2. Queue(Append(s, m), x) /\ (Asks(Append(s, m)) <=> m.type = "GET_TASK")
    BY <1>1, <1>2, QueueAdd DEF Asking
  <2> HIDE DEF s, x
  <2> QED BY <2>1, <2>2, Zenon
<1>3. CASE Connect(c)
  <2>1. cpc[c] = "start" /\ cpc'[c] = "request" /\ UNCHANGED <<ctask, toSrv, toCli>>
    BY <1>3 DEF Connect
  <2>2. Asking(c)' => Asking(c)
    BY <1>0, <2>1 DEF Asking
  <2> QED BY <1>0, <2>1, <2>2 DEF Orderly, Queue
<1>4. CASE ClientRequests(c)
  <2> DEFINE m == [type |-> "GET_TASK", task |-> NoTask]
  <2>1. /\ cpc[c] = "request" /\ cpc'[c] = "await" /\ UNCHANGED <<ctask, toCli>>
        /\ toSrv' = [toSrv EXCEPT ![c] = Append(@, m)]
    BY <1>4 DEF ClientRequests, Send
  <2>2. ~Asking(c) /\ toCli[c] = <<>>
    BY <2>1 DEF Orderly
  <2>3. Queue(toSrv'[c], x)
    BY <1>2, <2>1, <2>2, Messages
  <2>4. pc[c] \notin Getting
    BY <2>2 DEF Asking
  <2> QED BY <1>0, <2>1, <2>2, <2>3, <2>4 DEF Orderly, Queue
<1>5. CASE ClientTakesTask(c)
  <2>1. /\ cpc[c] = "await" /\ cpc'[c] = "compute" /\ toSrv' = toSrv
        /\ Head(toCli[c]).type = "Task" /\ ctask'[c] = Head(toCli[c]).task
    BY <1>5 DEF ClientTakesTask
  <2>2. PICK k \in 1..Len(toCli[c]) :
          toCli' = [toCli EXCEPT ![c] = SubSeq(@, k + 1, Len(@))]
    BY <1>5 DEF ClientTakesTask, ClientReads
  <2>3. toCli[c] # <<>>
    BY <2>2
  <2>4. Len(toCli[c]) = 1 /\ Head(toCli[c]).task = x
    BY <2>1, <2>3 DEF Orderly
  <2>5. toCli'[c] = <<>>
    <3>1. toCli'[c] = SubSeq(toCli[c], k + 1, Len(toCli[c])) /\ k = 1
      BY <2>2, <2>4
    <3>2. SubSeq(toCli[c], 2, 1) = <<>>
      OBVIOUS
    <3> QED BY <2>4, <3>1, <3>2
  <2>6. ~Asking(c)
    BY <2>1, <2>3 DEF Orderly
  <2>7. ~Asking(c)' /\ pc'[c] \notin Getting
    BY <1>0, <2>1, <2>6 DEF Asking
  <2> QED BY <1>0, <2>1, <2>4, <2>5, <2>7 DEF Orderly, Queue
<1>6. CASE ClientAnswers(c)
  <2> DEFINE m == [type |-> "RESULT", task |-> ctask[c]]
  <2>1. /\ cpc[c] = "compute" /\ cpc'[c] = "request" /\ toCli' = toCli
        /\ toSrv' = [toSrv EXCEPT ![c] = Append(@, m)]
    BY <1>6 DEF ClientAnswers, Send
  <2>2. ~Asking(c) /\ toCli[c] = <<>> /\ ctask[c] = x
    BY <2>1 DEF Orderly
  <2>3. m \in Requests /\ m.type = "RESULT" /\ m.task = x
    BY <2>2, Messages
  <2>4. Queue(toSrv'[c], x) /\ ~Asks(toSrv'[c])
    <3> HIDE DEF m
    <3> QED BY <1>2, <2>1, <2>2, <2>3
  <2>5. ~Asking(c)' /\ pc'[c] \notin Getting
    BY <1>0, <2>2, <2>4 DEF Asking
  <2> QED BY <1>0, <2>1, <2>2, <2>4, <2>5 DEF Orderly, Queue
<1>7. CASE ClientLeaves(c)
  <2> DEFINE m == [type |-> "exit", task |-> NoTask]
  <2>1. /\ cpc[c] = "await" /\ cpc'[c] = "done" /\ toCli[c] # <<>>
        /\ toSrv' = [toSrv EXCEPT ![c] = Append(@, m)]
    BY <1>7 DEF ClientLeaves, Send, Close
  <2>2. ~Asking(c)
    BY <2>1 DEF Orderly
  <2>3. Queue(toSrv'[c], x) /\ ~Asks(toSrv'[c])
    BY <1>2, <2>1, <2>2, Messages
  <2>4. ~Asking(c)' /\ pc'[c] \notin Getting
    BY <1>0, <2>2, <2>3 DEF Asking
  <2> QED BY <1>0, <2>1, <2>3, <2>4 DEF Orderly, Queue
<1>8. CASE ClientCloses(c) \/ ClientSeesClose(c)
  <2>1. cpc'[c] = "done" /\ toSrv' = toSrv
    BY <1>8 DEF ClientCloses, ClientSeesClose, Close
  <2> QED BY <1>0, <2>1 DEF Orderly, Queue
<1>9. ~ClientRepeats(c)
  BY DEF ClientRepeats
<1> QED BY <1>3, <1>4, <1>5, <1>6, <1>7, <1>8, <1>9 DEF Client
-----------------------------------------------------------------------------
(* The steps of main, of its handler and of time say nothing to anybody,   *)
(* and only a child's RESULT completes a task.                             *)
LEMMA SilentStep ==
  ASSUME IInv, [Next]_vars, NEW c \in Clients,
         \A d \in Clients : ~(ChildLock(d) \/ Child(d) \/ Client(d))
  PROVE  Silent(c)
<1>0. TypeOK /\ pc \in [Clients -> {"recv"} \union ChildWaits \union ChildCS
                                   \union Gone \union Unserved]
  BY DEF IInv, TypeOK
<1>1. \/ pc' = pc
      \/ MainAccepts \/ MainForks
  BY NobodyLeft DEF Next, vars, MainLock, MainAcquires, Main, MainTimeouts, MainFindsNobody,
       MainCounts, MainUncounts, SignalArrives, HandlerLock, Handler, HandlerReaps,
       HandlerReleases, HandlerReturns, TaskAges, child
<1>2. UNCHANGED <<toSrv, toCli, cpc, ctask, task_index, buffer>>
  BY DEF Next, vars, MainLock, MainAcquires, Main, MainTimeouts, MainTerminates, MainAccepts,
       MainFindsNobody, MainCounts, MainForks, MainUncounts, SignalArrives, HandlerLock,
       Handler, HandlerReaps, HandlerReleases, HandlerReturns, TaskAges, child, client, net
<1>3. ~ChildGets(c)
  BY DEF Child
<1>4. Held(c)' \subseteq Held(c)
  BY <1>0, <1>3, HeldStep
<1>5. \/ pc'[c] = pc[c]
      \/ pc'[c] \in {"accepted", "recv", "refused"}
  BY <1>0, <1>1 DEF MainAccepts, MainForks
<1> QED BY <1>2, <1>4, <1>5 DEF Silent, Getting, Storing

LEMMA AnswersKept ==
  ASSUME [Next]_vars, \A c \in Clients : ~ChildCredits(c)
  PROVE  UNCHANGED <<completed, answer>>
<1>1. ASSUME NEW c \in Clients, ChildLock(c) \/ Child(c)
      PROVE  UNCHANGED <<completed, answer>>
  BY <1>1 DEF Child, ChildLock, ChildReceives, ChildSeesClose, ChildQuits, ChildGets,
       ChildReleases, ChildTimeouts, Release, check_task_timeouts, PutBack, table
<1>2. ASSUME NEW c \in Clients, Client(c) PROVE UNCHANGED <<completed, answer>>
  BY <1>2, ClientMoves DEF table
<1> QED
  BY <1>1, <1>2
  DEF Next, vars, MainLock, MainAcquires, Main, MainTimeouts, MainTerminates, MainAccepts,
      MainFindsNobody, MainCounts, MainForks, MainUncounts, SignalArrives, HandlerLock,
      Handler, HandlerReaps, HandlerReleases, HandlerReturns, TaskAges, table,
      Release, check_task_timeouts, PutBack

(* Every conversation stays orderly.  Where one client or its child moves, *)
(* the others' conversations are silent.                                   *)
LEMMA ConversationsStep ==
  ASSUME Impatient = {}, AInv, [Next]_vars PROVE Conversations' /\ RightAnswer'
<1>0. TypeOK /\ IInv /\ RightAnswer /\ \A c \in Clients : Orderly(c)
  BY DEF AInv, IInv, Conversations
<1>1. ASSUME NEW c \in Clients, ChildLock(c) \/ Child(c) \/ Client(c), NEW d \in Clients
      PROVE  Orderly(d)'
  <2>1. CASE d # c
    <3>1. UNCHANGED <<toSrv[d], toCli[d], cpc[d], ctask[d], task_index[d], buffer[d], pc[d]>>
      BY <1>0, <1>1, <2>1, OthersChild, OthersClient
    <3>2. Held(d)' \subseteq Held(d)
      BY <1>0, <3>1, HeldFrame
    <3> QED BY <1>0, <3>1, <3>2, SilentOrderly DEF Silent
  <2>2. CASE d = c /\ (ChildLock(c) \/ Child(c))
    BY <1>0, <2>2, OrderlyChild
  <2>3. CASE d = c /\ Client(c)
    <3>1. pc'[c] = pc[c] \/ pc[c] # "get"
      BY <1>0, <2>3, ClientMoves DEF IInv, Bookkeeping
    <3>2. Held(c)' \subseteq Held(c)
      BY <1>0, <3>1, HeldFrame
    <3> QED BY <1>0, <2>3, <3>2, OrderlyClient
  <2> QED BY <1>1, <2>1, <2>2, <2>3
<1>2. ASSUME \A c \in Clients : ~(ChildLock(c) \/ Child(c) \/ Client(c)), NEW d \in Clients
      PROVE  Orderly(d)'
  BY <1>0, <1>2, SilentStep, SilentOrderly
<1>3. Conversations'
  BY <1>1, <1>2 DEF Conversations
<1>4. ASSUME NEW c \in Clients, ChildCredits(c) PROVE RightAnswer'
  <2>1. Held(c)' \subseteq Held(c)
    BY <1>0, <1>4, HeldFrame DEF ChildCredits
  <2> QED BY <1>0, <1>4, <2>1, OrderlyCredits
<1>5. ASSUME \A c \in Clients : ~ChildCredits(c) PROVE RightAnswer'
  BY <1>0, <1>5, AnswersKept DEF RightAnswer
<1> QED BY <1>3, <1>4, <1>5

LEMMA ConversationsInit == ASSUME Init PROVE AInv
<1>1. IInv
  BY InitInv
<1>2. ASSUME NEW c \in Clients PROVE Orderly(c)
  <2>1. Queue(<<>>, task_index[c]) /\ ~Asks(<<>>)
    BY QueueEmpty
  <2>2. /\ toSrv[c] = <<>> /\ toCli[c] = <<>> /\ pc[c] = "none" /\ cpc[c] = "start"
        /\ Held(c) = {}
    BY Messages DEF Init, Held
  <2> QED BY <2>1, <2>2 DEF Orderly, Asking, Getting, Storing
<1>3. RightAnswer
  BY DEF Init, RightAnswer
<1> QED BY <1>1, <1>2, <1>3 DEF AInv, Conversations

(* The value printed as the result of a task is the value of that task's   *)
(* expression, although a RESULT does not say which task it is the result  *)
(* of: timeouts, late answers and a task_index left over from an earlier   *)
(* task never make the child credit another one (server.c:308-333).  The   *)
(* hypothesis is what client.c does: it reads a reply before it asks again.*)
(* Without it TLC finds the property false on the instance of the run      *)
(* task_queue_impatient.                                                   *)
THEOREM CreditsTheRightTask == ASSUME Impatient = {} PROVE Spec => []RightAnswer
<1>1. Init => AInv
  BY ConversationsInit
<1>2. AInv /\ IInv' /\ [Next]_vars => AInv'
  BY ConversationsStep DEF AInv
<1>3. AInv => RightAnswer
  BY DEF AInv
<1> QED BY <1>1, <1>2, <1>3, Invariance, PTL DEF Spec
=============================================================================
