--------------------------- MODULE TaskQueueProof ---------------------------
(***************************************************************************)
(* Proofs about TaskQueue, for every finite set of clients and every       *)
(* number of tasks.                                                        *)
(***************************************************************************)
EXTENDS TaskQueue, FiniteSetTheorems, SequenceTheorems, TLAPS

(* What the code relies on without saying so: a pid that waitpid returned  *)
(* belongs to a dead child, the handler works on such a pid, main does not *)
(* stop while its handler runs, only a waiting semop is interrupted, the   *)
(* completion flag tells the truth, and a client that has not connected    *)
(* has no child.                                                           *)
Bookkeeping ==
  /\ \A c \in reaped : pc[c] \in Gone
  /\ hpc \in {"lock", "in"} => hpid \in reaped
  /\ hpc \in {"off", "reap"} => hpid = NoPid
  /\ hpc # "off" => mpc \notin MainStopped
  /\ eintr => mpc \in MainWaits /\ hpc # "off"
  /\ all_tasks_completed => \A t \in Tasks : completed[t]
  /\ \A c \in Clients : cpc[c] = "start" => pc[c] = "none"

IInv == TypeOK /\ MutualExclusion /\ Bookkeeping /\ ActiveClientsExact
-----------------------------------------------------------------------------
(* Helpers: messages, queues, tasks put back, the value of the semaphore.  *)

LEMMA Messages ==
  /\ NTasks \in Nat /\ Tasks \subseteq Nat /\ NoTask \in Nat /\ NoPid \notin Clients
  /\ [type |-> "GET_TASK", task |-> NoTask] \in Requests
  /\ [type |-> "exit", task |-> NoTask] \in Requests
  /\ \A t \in Tasks \union {NoTask} : [type |-> "RESULT", task |-> t] \in Requests
  /\ \A m \in Requests : /\ m.task \in Tasks \union {NoTask}
                         /\ m.type \in {"GET_TASK", "RESULT", "exit"}
  /\ [type |-> "None", task |-> NoTask] \in Replies
  /\ \A t \in Tasks : [type |-> "Task", task |-> t] \in Replies
  /\ \A m \in Replies : m.task \in Tasks \union {NoTask}
BY NTasksAssumption, ClientsAssumption DEF Tasks, NoTask, Requests, Replies

(* What recv leaves unread is again a sequence of messages. *)
LEMMA Rest ==
  ASSUME NEW S, NEW s \in Seq(S), NEW k \in 1..Len(s)
  PROVE  SubSeq(s, k + 1, Len(s)) \in Seq(S) /\ Head(s) \in S
<1>1. s # <<>> /\ Len(s) \in Nat
  OBVIOUS
<1>2. Head(s) \in S
  BY <1>1
<1>3. \A i \in (k + 1)..Len(s) : s[i] \in S
  BY <1>1
<1>4. SubSeq(s, k + 1, Len(s)) \in Seq(S)
  BY <1>1, <1>3, SubSeqProperties
<1> QED BY <1>2, <1>4

(* The three outcomes of GET_TASK, and the two of RESULT. *)
LEMMA GetsCases ==
  ASSUME NEW c \in Clients, ChildGets(c)
  PROVE  \/ \E t \in Tasks : /\ IsFirst(t, Held(c))
                             /\ task_index' = [task_index EXCEPT ![c] = t]
                             /\ UNCHANGED <<assigned_to, overdue>>
         \/ \E t \in Tasks : /\ MayAssign(c, t)
                             /\ task_index' = [task_index EXCEPT ![c] = t]
                             /\ assigned_to' = [assigned_to EXCEPT ![t] = c]
                             /\ overdue' = overdue \ {t}
         \/ /\ Held(c) = {} /\ Free = {}
            /\ task_index' = [task_index EXCEPT ![c] = NoTask]
            /\ UNCHANGED <<assigned_to, overdue>>
BY DEF ChildGets

LEMMA CreditsCases ==
  ASSUME NEW c \in Clients, ChildCredits(c)
  PROVE  \/ /\ Credited(c, NoTask) /\ task_index' = [task_index EXCEPT ![c] = NoTask]
            /\ UNCHANGED <<completed, overdue, answer, all_tasks_completed>>
         \/ \E t \in Tasks : /\ Credited(c, t)
                             /\ task_index' = [task_index EXCEPT ![c] = t]
                             /\ completed' = [completed EXCEPT ![t] = TRUE]
                             /\ answer' = [answer EXCEPT ![t] = buffer[c]]
                             /\ overdue' = overdue \ {t}
                             /\ all_tasks_completed' =
                                  (all_tasks_completed \/ check_all_completed(completed'))
<1>1. PICK t \in Tasks \union {NoTask} :
        /\ Credited(c, t)
        /\ task_index' = [task_index EXCEPT ![c] = t]
        /\ IF t = NoTask
             THEN UNCHANGED <<completed, overdue, answer, all_tasks_completed>>
             ELSE /\ completed' = [completed EXCEPT ![t] = TRUE]
                  /\ answer' = [answer EXCEPT ![t] = buffer[c]]
                  /\ overdue' = overdue \ {t}
                  /\ all_tasks_completed' =
                       (all_tasks_completed \/ check_all_completed(completed'))
  BY DEF ChildCredits
<1>2. CASE t = NoTask
  BY <1>1, <1>2
<1>3. CASE t # NoTask
  BY <1>1, <1>3
<1> QED BY <1>2, <1>3

LEMMA GetsTypes ==
  ASSUME TypeOK, NEW c \in Clients, ChildGets(c)
  PROVE  /\ assigned_to' \in [Tasks -> Clients \union {NoPid}]
         /\ overdue' \subseteq Tasks
         /\ task_index' \in [Clients -> Tasks \union {NoTask}]
<1>1. /\ assigned_to \in [Tasks -> Clients \union {NoPid}]
      /\ overdue \subseteq Tasks
      /\ task_index \in [Clients -> Tasks \union {NoTask}]
  BY DEF TypeOK
<1>2. task_index' \in [Clients -> Tasks \union {NoTask}]
  BY <1>1, GetsCases
<1>3. assigned_to' \in [Tasks -> Clients \union {NoPid}] /\ overdue' \subseteq Tasks
  BY <1>1, GetsCases
<1> QED BY <1>2, <1>3

LEMMA CreditsTypes ==
  ASSUME TypeOK, NEW c \in Clients, ChildCredits(c)
  PROVE  /\ completed' \in [Tasks -> BOOLEAN]
         /\ overdue' \subseteq Tasks
         /\ answer' \in [Tasks -> Tasks \union {NoTask}]
         /\ task_index' \in [Clients -> Tasks \union {NoTask}]
         /\ all_tasks_completed' \in BOOLEAN
<1>1. /\ completed \in [Tasks -> BOOLEAN]
      /\ overdue \subseteq Tasks
      /\ answer \in [Tasks -> Tasks \union {NoTask}]
      /\ task_index \in [Clients -> Tasks \union {NoTask}]
      /\ buffer \in [Clients -> Tasks \union {NoTask}]
      /\ all_tasks_completed \in BOOLEAN
  BY DEF TypeOK
<1>2. completed' \in [Tasks -> BOOLEAN] /\ overdue' \subseteq Tasks
  BY <1>1, CreditsCases
<1>3. answer' \in [Tasks -> Tasks \union {NoTask}]
  BY <1>1, CreditsCases
<1>4. task_index' \in [Clients -> Tasks \union {NoTask}]
  BY <1>1, CreditsCases
<1>5. all_tasks_completed' \in BOOLEAN
  BY <1>1, CreditsCases DEF check_all_completed
<1> QED BY <1>2, <1>3, <1>4, <1>5

(* send, whatever the state of the connection. *)
LEMMA SendReplyTypes ==
  ASSUME TypeOK, sem = 0, NEW c \in Clients, NEW m \in Replies, SendReply(c, m)
  PROVE  /\ sem' \in 0..1 /\ sigchld' \in BOOLEAN
         /\ \E p \in {"timeoutWait", "exited", "killed"} : pc' = [pc EXCEPT ![c] = p]
         /\ buffer' \in [Clients -> Tasks \union {NoTask}]
         /\ link' \in [Clients -> {"none", "open", "fin", "rst", "finrst", "closed"}]
         /\ toSrv' \in [Clients -> Seq(Requests)]
         /\ toCli' \in [Clients -> Seq(Replies)]
<1>1. /\ sigchld \in BOOLEAN /\ sem + 1 \in 0..1 /\ 0 \in 0..1
      /\ buffer \in [Clients -> Tasks \union {NoTask}]
      /\ link \in [Clients -> {"none", "open", "fin", "rst", "finrst", "closed"}]
      /\ toSrv \in [Clients -> Seq(Requests)]
      /\ toCli \in [Clients -> Seq(Replies)]
  BY DEF TypeOK
<1>2. /\ [toCli EXCEPT ![c] = Append(@, m)] \in [Clients -> Seq(Replies)]
      /\ [toSrv EXCEPT ![c] = <<>>] \in [Clients -> Seq(Requests)]
  BY <1>1
<1>3. /\ sem' \in 0..1 /\ sigchld' \in BOOLEAN
      /\ buffer' \in [Clients -> Tasks \union {NoTask}]
      /\ link' \in [Clients -> {"none", "open", "fin", "rst", "finrst", "closed"}]
  BY <1>1 DEF SendReply, Exit, Goto, Unlock
<1>4. toSrv' \in [Clients -> Seq(Requests)] /\ toCli' \in [Clients -> Seq(Replies)]
  BY <1>1, <1>2 DEF SendReply, Exit
<1>5. \E p \in {"timeoutWait", "exited", "killed"} : pc' = [pc EXCEPT ![c] = p]
  BY DEF SendReply, Exit, Goto
<1> QED BY <1>3, <1>4, <1>5

LEMMA PutBackTypes ==
  ASSUME TypeOK, NEW S, PutBack(S)
  PROVE  /\ assigned_to' \in [Tasks -> Clients \union {NoPid}]
         /\ overdue' \subseteq Tasks
         /\ completed' = completed /\ answer' = answer
BY DEF PutBack, TypeOK

(* The semaphore is 0 while somebody is in the critical section. *)
LEMMA HolderTakes ==
  ASSUME MutualExclusion
  PROVE  /\ mpc \in MainCS => sem = 0
         /\ hpc = "in" => sem = 0
         /\ \A c \in Clients : pc[c] \in ChildCS \union {"killed"} => sem = 0
BY DEF MutualExclusion, MainHolds, HandlerHolds, ChildHolds
-----------------------------------------------------------------------------
(* Types.  The semaphore stays in 0..1 because only its holder releases it.*)
LEMMA TypeStep == ASSUME TypeOK, MutualExclusion, [Next]_vars PROVE TypeOK'
<1> USE DEF TypeOK, MainWaits, MainCS, MainStopped, ChildWaits, ChildCS, Gone, Unserved,
            table, control, main, handler, child, client, net
<1>1. CASE MainLock
  BY <1>1 DEF MainLock, MainAcquires, MainAt, Lock
<1>2. CASE MainTimeouts
  BY <1>2, PutBackTypes, HolderTakes DEF MainTimeouts, MainAt, check_task_timeouts, Unlock
<1>3. CASE MainTerminates
  BY <1>3 DEF MainTerminates, MainAt
<1>4. CASE MainAccepts
  BY <1>4 DEF MainAccepts, MainAt
<1>5. CASE MainFindsNobody
  BY <1>5 DEF MainFindsNobody, MainAt
<1>6. CASE MainCounts
  BY <1>6, HolderTakes DEF MainCounts, MainAt, Unlock
<1>7. CASE MainForks
  BY <1>7 DEF MainForks, MainAt
<1>8. CASE MainUncounts
  BY <1>8, HolderTakes DEF MainUncounts, MainAt, Unlock
<1>9. CASE SignalArrives
  BY <1>9 DEF SignalArrives
<1>10. CASE HandlerLock
  BY <1>10 DEF HandlerLock, Lock
<1>11. CASE HandlerReaps
  BY <1>11 DEF HandlerReaps, Zombies
<1>12. CASE HandlerReleases
  BY <1>12, PutBackTypes, HolderTakes DEF HandlerReleases, Release, Unlock
<1>13. CASE HandlerReturns
  BY <1>13 DEF HandlerReturns
<1>14. ASSUME NEW c \in Clients, ChildLock(c) PROVE TypeOK'
  BY <1>14 DEF ChildLock, Lock, Goto
<1>15. ASSUME NEW c \in Clients, ChildReceives(c) PROVE TypeOK'
  <2>1. PICK k \in 1..Len(toSrv[c]) :
          toSrv' = [toSrv EXCEPT ![c] = SubSeq(@, k + 1, Len(@))]
    BY <1>15 DEF ChildReceives
  <2>2. SubSeq(toSrv[c], k + 1, Len(toSrv[c])) \in Seq(Requests)
        /\ Head(toSrv[c]) \in Requests
    BY Rest
  <2>3. toSrv' \in [Clients -> Seq(Requests)]
    BY <2>1, <2>2
  <2>4. buffer' \in [Clients -> Tasks \union {NoTask}]
    BY <1>15, <2>2, Messages DEF ChildReceives
  <2>5. pc' \in [Clients -> {"recv"} \union ChildWaits \union ChildCS
                            \union Gone \union Unserved]
    BY <1>15, <2>2, Messages DEF ChildReceives, Goto
  <2> QED BY <1>15, <2>3, <2>4, <2>5 DEF ChildReceives
<1>16. ASSUME NEW c \in Clients, ChildSeesClose(c) PROVE TypeOK'
  BY <1>16 DEF ChildSeesClose, Goto
<1>17. ASSUME NEW c \in Clients, ChildQuits(c) PROVE TypeOK'
  BY <1>17 DEF ChildQuits, Exit, Goto
<1>18. ASSUME NEW c \in Clients, ChildGets(c) PROVE TypeOK'
  <2>1. sem = 0
    BY <1>18, HolderTakes DEF ChildGets
  <2>2. PICK m \in Replies : SendReply(c, m)
    BY <1>18, Messages DEF ChildGets
  <2>3. /\ sem' \in 0..1 /\ sigchld' \in BOOLEAN
        /\ pc' \in [Clients -> {"recv"} \union ChildWaits \union ChildCS
                               \union Gone \union Unserved]
        /\ buffer' \in [Clients -> Tasks \union {NoTask}]
        /\ link' \in [Clients -> {"none", "open", "fin", "rst", "finrst", "closed"}]
        /\ toSrv' \in [Clients -> Seq(Requests)]
        /\ toCli' \in [Clients -> Seq(Replies)]
    BY <2>1, <2>2, SendReplyTypes
  <2>4. /\ assigned_to' \in [Tasks -> Clients \union {NoPid}]
        /\ overdue' \subseteq Tasks
        /\ task_index' \in [Clients -> Tasks \union {NoTask}]
    BY <1>18, GetsTypes
  <2>5. UNCHANGED <<completed, answer, control, main, handler, client>>
    BY <1>18 DEF ChildGets
  <2> QED BY <2>3, <2>4, <2>5
<1>19. ASSUME NEW c \in Clients, ChildCredits(c) PROVE TypeOK'
  <2>1. sem = 0
    BY <1>19, HolderTakes DEF ChildCredits
  <2>2. /\ completed' \in [Tasks -> BOOLEAN]
        /\ overdue' \subseteq Tasks
        /\ answer' \in [Tasks -> Tasks \union {NoTask}]
        /\ task_index' \in [Clients -> Tasks \union {NoTask}]
        /\ all_tasks_completed' \in BOOLEAN
    BY <1>19, CreditsTypes
  <2> QED BY <1>19, <2>1, <2>2 DEF ChildCredits, Goto, Unlock
<1>20. ASSUME NEW c \in Clients, ChildReleases(c) PROVE TypeOK'
  BY <1>20, PutBackTypes, HolderTakes DEF ChildReleases, Release, Unlock, Exit, Goto
<1>21. ASSUME NEW c \in Clients, ChildTimeouts(c) PROVE TypeOK'
  BY <1>21, PutBackTypes, HolderTakes DEF ChildTimeouts, check_task_timeouts, Unlock, Goto
<1>22. ASSUME NEW c \in Clients, Connect(c) PROVE TypeOK'
  BY <1>22 DEF Connect, ClientOnly, Goto
<1>23. ASSUME NEW c \in Clients, ClientRequests(c) PROVE TypeOK'
  BY <1>23, Messages DEF ClientRequests, ClientOnly, Send
<1>24. ASSUME NEW c \in Clients, ClientRepeats(c) PROVE TypeOK'
  BY <1>24, Messages DEF ClientRepeats, ClientOnly, Send
<1>25. ASSUME NEW c \in Clients, ClientTakesTask(c) PROVE TypeOK'
  <2>1. PICK k \in 1..Len(toCli[c]) :
          toCli' = [toCli EXCEPT ![c] = SubSeq(@, k + 1, Len(@))]
    BY <1>25 DEF ClientTakesTask, ClientReads
  <2>2. SubSeq(toCli[c], k + 1, Len(toCli[c])) \in Seq(Replies)
        /\ Head(toCli[c]) \in Replies
    BY Rest
  <2>3. toCli' \in [Clients -> Seq(Replies)]
    BY <2>1, <2>2
  <2>4. ctask' \in [Clients -> Tasks \union {NoTask}]
    BY <1>25, <2>2, Messages DEF ClientTakesTask
  <2> QED BY <1>25, <2>3, <2>4 DEF ClientTakesTask, ClientOnly
<1>26. ASSUME NEW c \in Clients, ClientAnswers(c) PROVE TypeOK'
  <2>1. [type |-> "RESULT", task |-> ctask[c]] \in Requests
    BY Messages
  <2>2. toSrv' \in [Clients -> Seq(Requests)]
    BY <1>26, <2>1 DEF ClientAnswers, Send
  <2> QED BY <1>26, <2>2, Messages DEF ClientAnswers, ClientOnly
<1>27. ASSUME NEW c \in Clients, ClientLeaves(c) PROVE TypeOK'
  <2>1. toSrv' \in [Clients -> Seq(Requests)] /\ toCli' \in [Clients -> Seq(Replies)]
    BY <1>27, Messages DEF ClientLeaves, Send
  <2> QED BY <1>27, <2>1 DEF ClientLeaves, ClientOnly, Close
<1>28. ASSUME NEW c \in Clients, ClientCloses(c) PROVE TypeOK'
  BY <1>28 DEF ClientCloses, ClientOnly, Close
<1>29. ASSUME NEW c \in Clients, ClientSeesClose(c) PROVE TypeOK'
  BY <1>29 DEF ClientSeesClose, ClientOnly
<1>30. ASSUME NEW t \in Tasks, TaskAges(t) PROVE TypeOK'
  BY <1>30 DEF TaskAges
<1>31. CASE UNCHANGED vars
  BY <1>31 DEF vars
<1> QED
  BY <1>1, <1>2, <1>3, <1>4, <1>5, <1>6, <1>7, <1>8, <1>9, <1>10, <1>11, <1>12,
     <1>13, <1>14, <1>15, <1>16, <1>17, <1>18, <1>19, <1>20, <1>21, <1>22,
     <1>23, <1>24, <1>25, <1>26, <1>27, <1>28, <1>29, <1>30, <1>31
  DEF Next, Main, Handler, Child, Client
-----------------------------------------------------------------------------
(* What the steps of each process do to the control points and the         *)
(* semaphore.                                                              *)

Served == {"recv"} \union ChildWaits \union ChildCS \union Gone

Move(c, p) ==
  /\ pc' = [pc EXCEPT ![c] = p]
  /\ \/ pc[c] \notin ChildCS /\ p \in ChildCS /\ Lock
     \/ pc[c] \in ChildCS /\ p \notin ChildCS \union {"killed"} /\ Unlock
     \/ pc[c] \in ChildCS /\ p = "killed" /\ sem' = sem
     \/ pc[c] \notin ChildCS /\ p \notin ChildCS \union {"killed"} /\ sem' = sem

LEMMA ChildMoves ==
  ASSUME TypeOK, NEW c \in Clients, ChildLock(c) \/ Child(c)
  PROVE  /\ Live(c)
         /\ UNCHANGED <<active_clients, main, handler, client>>
         /\ \E p \in Served : Move(c, p)
<1> USE DEF Live, Served, Move, ChildWaits, ChildCS, Gone, control
<1>1. CASE ChildLock(c)
  BY <1>1 DEF ChildLock, Goto
<1>2. CASE ChildReceives(c)
  <2>1. toSrv[c] # <<>> /\ toSrv[c] \in Seq(Requests)
    BY <1>2 DEF ChildReceives, TypeOK
  <2>2. Head(toSrv[c]).type \in {"GET_TASK", "RESULT", "exit"}
    BY <2>1, Messages
  <2>3. \E p \in {"getWait", "resultWait", "releaseWait"} : pc' = [pc EXCEPT ![c] = p]
    BY <1>2, <2>2 DEF ChildReceives, Goto
  <2> QED BY <1>2, <2>3 DEF ChildReceives
<1>3. CASE ChildSeesClose(c)
  BY <1>3 DEF ChildSeesClose, Goto
<1>4. CASE ChildQuits(c)
  BY <1>4 DEF ChildQuits, Exit, Goto
<1>5. CASE ChildGets(c)
  <2>1. PICK m \in Replies : SendReply(c, m)
    BY <1>5, Messages DEF ChildGets
  <2>2. \/ pc' = [pc EXCEPT ![c] = "timeoutWait"] /\ Unlock
        \/ pc' = [pc EXCEPT ![c] = "exited"] /\ Unlock
        \/ pc' = [pc EXCEPT ![c] = "killed"] /\ sem' = sem
    BY <2>1 DEF SendReply, Exit, Goto
  <2>3. pc[c] = "get" /\ UNCHANGED <<active_clients, main, handler, client>>
    BY <1>5 DEF ChildGets
  <2> QED BY <2>2, <2>3
<1>6. CASE ChildCredits(c)
  BY <1>6 DEF ChildCredits, Goto
<1>7. CASE ChildReleases(c)
  BY <1>7 DEF ChildReleases, Exit, Goto
<1>8. CASE ChildTimeouts(c)
  BY <1>8 DEF ChildTimeouts, Goto
<1> QED BY <1>1, <1>2, <1>3, <1>4, <1>5, <1>6, <1>7, <1>8 DEF Child

LEMMA ClientMoves ==
  ASSUME NEW c \in Clients, Client(c)
  PROVE  /\ UNCHANGED <<sem, table, control, main, handler, sigchld, task_index, buffer>>
         /\ \/ pc' = pc
            \/ cpc[c] = "start" /\ pc' = [pc EXCEPT ![c] = "backlog"]
         /\ \/ cpc' = cpc /\ pc' = pc
            \/ \E p : cpc' = [cpc EXCEPT ![c] = p] /\ p # "start"
BY DEF Client, ClientOnly, client, Connect, ClientRequests, ClientRepeats, ClientTakesTask,
       ClientAnswers, ClientLeaves, ClientCloses, ClientSeesClose, Close, Goto

LEMMA CountedFinite ==
  ASSUME NEW S \in SUBSET Clients PROVE IsFiniteSet(S) /\ Cardinality(S) \in Nat
BY ClientsAssumption, FS_Subset, FS_CardinalityType

(* When the exit test succeeds, no child is left to be killed. *)
LEMMA NobodyLeft ==
  ASSUME IInv, MainTerminates
  PROVE  (\A c \in Clients : ~Live(c)) /\ pc' = pc
<1>1. active_clients = 0 /\ mpc = "check" /\ hpc = "off"
  BY DEF MainTerminates, MainAt, ShutdownDue
<1>2. Counted \in SUBSET Clients
  BY DEF Counted
<1>3. Cardinality(Counted) = 0
  BY <1>1, <1>2, CountedFinite DEF IInv, ActiveClientsExact
<1>4. Counted = {}
  BY <1>2, <1>3, CountedFinite, FS_EmptySet
<1>5. ASSUME NEW c \in Clients PROVE ~Live(c)
  BY <1>4 DEF Counted, Live, Unserved, Gone, ChildWaits, ChildCS, IInv, Bookkeeping
<1>6. pc' = pc
  BY <1>5 DEF MainTerminates, IInv, TypeOK
<1> QED BY <1>5, <1>6
-----------------------------------------------------------------------------
(* Mutual exclusion. *)

(* Steps in which nobody enters or leaves the critical section. *)
LEMMA MutexFrame ==
  ASSUME MutualExclusion, sem' = sem,
         mpc' \in MainCS <=> mpc \in MainCS,
         hpc' = "in" <=> hpc = "in",
         \A c \in Clients : ChildHolds(c)' <=> ChildHolds(c)
  PROVE  MutualExclusion'
BY DEF MutualExclusion, MainHolds, HandlerHolds, OnlyOne

(* When the semaphore is not 0, nobody is inside. *)
LEMMA NobodyInside ==
  ASSUME MutualExclusion, sem # 0
  PROVE  mpc \notin MainCS /\ hpc # "in" /\ \A c \in Clients : ~ChildHolds(c)
BY DEF MutualExclusion, MainHolds, HandlerHolds

LEMMA MutexChild ==
  ASSUME TypeOK, MutualExclusion, NEW c \in Clients, ChildLock(c) \/ Child(c)
  PROVE  MutualExclusion'
<1>1. PICK p \in Served : Move(c, p)
  BY ChildMoves
<1>2. /\ mpc' = mpc /\ hpc' = hpc
      /\ pc \in [Clients -> {"recv"} \union ChildWaits \union ChildCS \union Gone \union Unserved]
      /\ sem \in 0..1 /\ pc[c] # "killed"
  BY ChildMoves DEF main, handler, TypeOK, Live, ChildWaits, ChildCS
<1>3. pc'[c] = p /\ \A d \in Clients \ {c} : pc'[d] = pc[d]
  BY <1>1, <1>2 DEF Move
<1>4. CASE pc[c] \notin ChildCS /\ p \in ChildCS /\ Lock
  <2>1. sem = 1 /\ sem' = 0
    BY <1>2, <1>4 DEF Lock
  <2>2. mpc \notin MainCS /\ hpc # "in" /\ \A d \in Clients : ~ChildHolds(d)
    BY <2>1, NobodyInside
  <2>3. ChildHolds(c)' /\ \A d \in Clients \ {c} : ~ChildHolds(d)'
    BY <1>3, <1>4, <2>2 DEF ChildHolds
  <2> QED BY <1>2, <2>1, <2>2, <2>3 DEF MutualExclusion, OnlyOne, MainHolds, HandlerHolds
<1>5. CASE pc[c] \in ChildCS /\ p \notin ChildCS \union {"killed"} /\ Unlock
  <2>1. ChildHolds(c)
    BY <1>5 DEF ChildHolds
  <2>2. /\ sem = 0 /\ mpc \notin MainCS /\ hpc # "in"
        /\ \A d \in Clients \ {c} : ~ChildHolds(d)
    BY <2>1 DEF MutualExclusion, OnlyOne, MainHolds, HandlerHolds
  <2>3. sem' = 1 /\ \A d \in Clients : ~ChildHolds(d)'
    BY <1>3, <1>5, <2>2 DEF ChildHolds, Unlock
  <2> QED BY <1>2, <2>2, <2>3 DEF MutualExclusion, OnlyOne, MainHolds, HandlerHolds
<1>6. CASE pc[c] \in ChildCS /\ p = "killed" /\ sem' = sem
  <2>1. \A d \in Clients : ChildHolds(d)' <=> ChildHolds(d)
    BY <1>3, <1>6 DEF ChildHolds
  <2> QED BY <1>2, <1>6, <2>1, MutexFrame
<1>7. CASE pc[c] \notin ChildCS /\ p \notin ChildCS \union {"killed"} /\ sem' = sem
  <2>1. \A d \in Clients : ChildHolds(d)' <=> ChildHolds(d)
    BY <1>2, <1>3, <1>7 DEF ChildHolds
  <2> QED BY <1>2, <1>7, <2>1, MutexFrame
<1> QED BY <1>1, <1>4, <1>5, <1>6, <1>7 DEF Move

(* main or its handler enters, leaves, or does neither. *)
LEMMA MutexEnter ==
  ASSUME TypeOK, MutualExclusion, Lock, pc' = pc,
         \/ mpc' \in MainCS /\ hpc' = hpc
         \/ mpc' = mpc /\ hpc' = "in"
  PROVE  MutualExclusion'
<1>1. sem = 1 /\ sem' = 0
  BY DEF Lock, TypeOK
<1>2. mpc \notin MainCS /\ hpc # "in" /\ \A c \in Clients : ~ChildHolds(c)
  BY <1>1, NobodyInside
<1>3. \A c \in Clients : ~ChildHolds(c)'
  BY <1>2 DEF ChildHolds
<1> QED BY <1>1, <1>2, <1>3 DEF MutualExclusion, OnlyOne, MainHolds, HandlerHolds

LEMMA MutexLeave ==
  ASSUME TypeOK, MutualExclusion, Unlock, pc' = pc,
         \/ mpc \in MainCS /\ mpc' \notin MainCS /\ hpc' = hpc
         \/ mpc' = mpc /\ hpc = "in" /\ hpc' # "in"
  PROVE  MutualExclusion'
<1>1. sem = 0 /\ \A c \in Clients : ~ChildHolds(c)
  BY DEF MutualExclusion, OnlyOne, MainHolds, HandlerHolds
<1>2. mpc' \notin MainCS /\ hpc' # "in"
  BY DEF MutualExclusion, OnlyOne, MainHolds, HandlerHolds
<1>3. sem' = 1 /\ \A c \in Clients : ~ChildHolds(c)'
  BY <1>1 DEF ChildHolds, Unlock
<1> QED BY <1>2, <1>3 DEF MutualExclusion, OnlyOne, MainHolds, HandlerHolds

LEMMA MutexStep == ASSUME IInv, [Next]_vars PROVE MutualExclusion'
<1> USE DEF IInv, MainCS, MainWaits, MainStopped
<1>1. CASE MainLock
  BY <1>1, MutexEnter DEF MainLock, MainAcquires, MainAt, handler, child
<1>2. CASE MainTimeouts \/ MainCounts \/ MainUncounts
  BY <1>2, MutexLeave DEF MainTimeouts, MainCounts, MainUncounts, MainAt, handler, child
<1>3. CASE MainTerminates
  <2>1. pc' = pc /\ sem' = sem /\ hpc' = hpc /\ mpc = "check" /\ mpc' = "terminated"
    BY <1>3, NobodyLeft DEF MainTerminates, MainAt, handler
  <2> QED BY <2>1, MutexFrame DEF ChildHolds
<1>4. CASE MainAccepts \/ MainFindsNobody \/ MainForks
  <2>1. /\ sem' = sem /\ hpc' = hpc
        /\ mpc \in {"check", "fork"} /\ mpc' \in {"incWait", "decWait", "timeoutWait"}
    BY <1>4 DEF MainAccepts, MainFindsNobody, MainForks, MainAt, handler
  <2>2. \A c \in Clients : ChildHolds(c)' <=> ChildHolds(c)
    BY <1>4 DEF MainAccepts, MainFindsNobody, MainForks, ChildHolds, ChildCS, child, TypeOK
  <2> QED BY <2>1, <2>2, MutexFrame
<1>5. CASE SignalArrives \/ HandlerReaps
  BY <1>5, MutexFrame DEF SignalArrives, HandlerReaps, ChildHolds, child
<1>6. CASE HandlerLock
  BY <1>6, MutexEnter DEF HandlerLock, main, child
<1>7. CASE HandlerReleases
  BY <1>7, MutexLeave DEF HandlerReleases, main, child
<1>8. CASE HandlerReturns
  <2>1. eintr => mpc \in MainWaits
    BY DEF Bookkeeping
  <2> QED BY <1>8, <2>1, MutexFrame DEF HandlerReturns, ChildHolds, child
<1>9. ASSUME NEW c \in Clients, ChildLock(c) \/ Child(c) PROVE MutualExclusion'
  BY <1>9, MutexChild
<1>10. ASSUME NEW c \in Clients, Client(c) PROVE MutualExclusion'
  <2>1. /\ sem' = sem /\ mpc' = mpc /\ hpc' = hpc
        /\ \/ pc' = pc
           \/ pc[c] = "none" /\ pc' = [pc EXCEPT ![c] = "backlog"]
    BY <1>10, ClientMoves DEF main, handler, Bookkeeping
  <2>2. \A d \in Clients : ChildHolds(d)' <=> ChildHolds(d)
    BY <2>1 DEF ChildHolds, ChildCS, TypeOK
  <2> QED BY <2>1, <2>2, MutexFrame
<1>11. ASSUME NEW t \in Tasks, TaskAges(t) PROVE MutualExclusion'
  BY <1>11, MutexFrame DEF TaskAges, ChildHolds, main, handler, child
<1>12. CASE UNCHANGED vars
  BY <1>12, MutexFrame DEF vars, ChildHolds, main, handler, child
<1> QED
  BY <1>1, <1>2, <1>3, <1>4, <1>5, <1>6, <1>7, <1>8, <1>9, <1>10, <1>11, <1>12
  DEF Next, Main, Handler
-----------------------------------------------------------------------------
(* Bookkeeping. *)

(* Steps of main, its handler and the children that leave it as it is,     *)
(* because they only move the control points of living or waiting ones.    *)
LEMMA BookFrame ==
  ASSUME Bookkeeping, UNCHANGED <<reaped, hpc, hpid, mpc, eintr>>,
         all_tasks_completed' => \A t \in Tasks : completed'[t],
         \A c \in Clients : pc[c] \in Gone => pc'[c] \in Gone,
         \A c \in Clients : cpc'[c] = "start" => pc'[c] = "none",
         reaped \subseteq Clients
  PROVE  Bookkeeping'
BY DEF Bookkeeping

LEMMA AllCompleted ==
  ASSUME TypeOK, Bookkeeping, NEW c \in Clients, ChildCredits(c)
  PROVE  all_tasks_completed' => \A t \in Tasks : completed'[t]
<1>1. CASE UNCHANGED <<completed, all_tasks_completed>>
  BY <1>1 DEF Bookkeeping
<1>2. ASSUME NEW t \in Tasks, completed' = [completed EXCEPT ![t] = TRUE],
             all_tasks_completed' = (all_tasks_completed \/ check_all_completed(completed'))
      PROVE  all_tasks_completed' => \A u \in Tasks : completed'[u]
  <2>1. CASE all_tasks_completed
    BY <1>2, <2>1 DEF Bookkeeping, TypeOK
  <2>2. CASE check_all_completed(completed')
    BY <2>2 DEF check_all_completed
  <2> QED BY <1>2, <2>1, <2>2
<1> QED BY <1>1, <1>2, CreditsCases

LEMMA BookChild ==
  ASSUME TypeOK, Bookkeeping, NEW c \in Clients, ChildLock(c) \/ Child(c)
  PROVE  Bookkeeping'
<1>1. PICK p \in Served : Move(c, p)
  BY ChildMoves
<1>2. /\ Live(c)
      /\ UNCHANGED <<reaped, hpc, hpid, mpc, eintr, cpc>>
      /\ pc \in [Clients -> {"recv"} \union ChildWaits \union ChildCS \union Gone \union Unserved]
  BY ChildMoves DEF main, handler, client, TypeOK
<1>3. pc'[c] = p /\ \A d \in Clients \ {c} : pc'[d] = pc[d]
  BY <1>1, <1>2 DEF Move
<1>4. pc[c] \notin Gone /\ pc[c] # "none"
  BY <1>2 DEF Live, Gone, ChildWaits, ChildCS
<1>5. \A d \in Clients : pc[d] \in Gone => pc'[d] \in Gone
  BY <1>3, <1>4
<1>6. \A d \in Clients : cpc'[d] = "start" => pc'[d] = "none"
  BY <1>2, <1>3, <1>4 DEF Bookkeeping
<1>7. all_tasks_completed' => \A t \in Tasks : completed'[t]
  <2>1. CASE ChildCredits(c)
    BY <2>1, AllCompleted
  <2>2. CASE UNCHANGED <<completed, all_tasks_completed>>
    BY <2>2 DEF Bookkeeping
  <2>3. ChildCredits(c) \/ UNCHANGED <<completed, all_tasks_completed>>
    BY DEF ChildLock, Child, ChildReceives, ChildSeesClose, ChildQuits, ChildGets,
           ChildReleases, ChildTimeouts, Release, check_task_timeouts, PutBack, table, control
  <2> QED BY <2>1, <2>2, <2>3
<1> QED BY <1>2, <1>5, <1>6, <1>7, BookFrame DEF TypeOK

LEMMA BookStep == ASSUME IInv, [Next]_vars PROVE Bookkeeping'
<1> USE DEF IInv
<1>0. reaped \subseteq Clients /\ NoPid \notin Clients
  BY Messages DEF TypeOK
<1>1. CASE MainLock \/ MainTimeouts \/ MainFindsNobody \/ MainCounts \/ MainUncounts
  BY <1>1 DEF MainLock, MainAcquires, MainAt, MainTimeouts, MainFindsNobody, MainCounts,
              MainUncounts, check_task_timeouts, PutBack, Bookkeeping, MainStopped,
              MainWaits, table, control, main, handler, child, client
<1>2. CASE MainTerminates
  BY <1>2, NobodyLeft DEF MainTerminates, MainAt, Bookkeeping, MainWaits,
                          table, control, handler, client
<1>3. CASE MainAccepts \/ MainForks
  <2>1. PICK c \in Clients, p \in {"accepted", "recv", "refused"} :
          pc[c] \in {"backlog", "accepted"} /\ pc' = [pc EXCEPT ![c] = p]
    BY <1>3 DEF MainAccepts, MainForks
  <2>2. /\ pc'[c] = p /\ \A d \in Clients \ {c} : pc'[d] = pc[d]
        /\ cpc[c] # "start" /\ c \notin reaped
    BY <2>1 DEF TypeOK, Bookkeeping, Gone
  <2>3. /\ hpc = "off" /\ hpc' = "off" /\ hpid' = hpid /\ reaped' = reaped
        /\ mpc \in {"check", "fork"} /\ mpc' \in {"incWait", "timeoutWait", "decWait"}
        /\ UNCHANGED <<completed, all_tasks_completed, eintr, cpc>>
    BY <1>3 DEF MainAccepts, MainForks, MainAt, table, control, handler, client
  <2> QED BY <1>0, <2>2, <2>3 DEF Bookkeeping
<1>4. CASE SignalArrives
  BY <1>4 DEF SignalArrives, Bookkeeping, table, control, child, client
<1>5. CASE HandlerReaps
  BY <1>5 DEF HandlerReaps, Bookkeeping, Zombies, table, control, child, client
<1>6. CASE HandlerLock
  BY <1>6 DEF HandlerLock, Bookkeeping, table, control, main, child, client
<1>7. CASE HandlerReleases
  BY <1>7 DEF HandlerReleases, Release, PutBack, Bookkeeping, table, control, main,
              child, client
<1>8. CASE HandlerReturns
  BY <1>8 DEF HandlerReturns, Bookkeeping, table, control, child, client
<1>9. ASSUME NEW c \in Clients, ChildLock(c) \/ Child(c) PROVE Bookkeeping'
  BY <1>9, BookChild
<1>10. ASSUME NEW c \in Clients, Client(c) PROVE Bookkeeping'
  <2>1. UNCHANGED <<reaped, hpc, hpid, mpc, eintr, completed, all_tasks_completed>>
    BY <1>10, ClientMoves DEF main, handler, table, control
  <2>2. CASE pc' = pc
    <3>1. \A d \in Clients : cpc'[d] = "start" => cpc[d] = "start"
      BY <1>10, ClientMoves DEF TypeOK
    <3> QED BY <1>0, <2>1, <2>2, <3>1, BookFrame DEF Bookkeeping
  <2>3. CASE cpc[c] = "start" /\ pc' = [pc EXCEPT ![c] = "backlog"] /\ pc' # pc
    <3>1. PICK p : cpc' = [cpc EXCEPT ![c] = p] /\ p # "start"
      BY <1>10, <2>3, ClientMoves
    <3>2. /\ \A d \in Clients \ {c} : pc'[d] = pc[d] /\ cpc'[d] = cpc[d]
          /\ pc[c] = "none" /\ cpc'[c] # "start"
      BY <2>3, <3>1 DEF TypeOK, Bookkeeping
    <3> QED BY <1>0, <2>1, <3>2, BookFrame DEF Bookkeeping, Gone
  <2> QED BY <1>10, <2>2, <2>3, ClientMoves
<1>11. ASSUME NEW t \in Tasks, TaskAges(t) PROVE Bookkeeping'
  BY <1>11 DEF TaskAges, Bookkeeping, control, main, handler, child, client
<1>12. CASE UNCHANGED vars
  BY <1>12 DEF vars, Bookkeeping, table, control, main, handler, child, client
<1> QED
  BY <1>1, <1>2, <1>3, <1>4, <1>5, <1>6, <1>7, <1>8, <1>9, <1>10, <1>11, <1>12
  DEF Next, Main, Handler
-----------------------------------------------------------------------------
(* The count of the active clients. *)

Handling == IF hpc \in {"lock", "in"} THEN 1 ELSE 0
Forking  == IF mpc \in {"fork", "decWait", "dec"} THEN 1 ELSE 0

(* Steps that change neither who is counted nor the count. *)
LEMMA CountFrame ==
  ASSUME ActiveClientsExact, Counted' = Counted, active_clients' = active_clients,
         Handling' = Handling, Forking' = Forking,
         mpc = "crashed" => mpc' = "crashed"
  PROVE  ActiveClientsExact'
BY DEF ActiveClientsExact, Handling, Forking

LEMMA CountChild ==
  ASSUME TypeOK, ActiveClientsExact, NEW c \in Clients, ChildLock(c) \/ Child(c)
  PROVE  ActiveClientsExact'
<1>1. PICK p \in Served : Move(c, p)
  BY ChildMoves
<1>2. UNCHANGED <<reaped, hpc, mpc, active_clients>>
  BY ChildMoves DEF main, handler
<1>3. pc' = [pc EXCEPT ![c] = p] /\ p \notin Unserved /\ pc[c] \notin Unserved
  BY <1>1, ChildMoves DEF Move, Served, Unserved, Live, ChildWaits, ChildCS, Gone
<1>4. Counted' = Counted
  BY <1>2, <1>3 DEF Counted, TypeOK
<1> QED BY <1>2, <1>4, CountFrame DEF Handling, Forking

LEMMA CountStep == ASSUME IInv, [Next]_vars PROVE ActiveClientsExact'
<1> USE DEF IInv
<1>0. /\ Counted \in SUBSET Clients /\ IsFiniteSet(Counted) /\ Cardinality(Counted) \in Nat
      /\ active_clients \in Int
  <2>1. Counted \in SUBSET Clients
    BY DEF Counted
  <2> QED BY <2>1, CountedFinite DEF TypeOK
<1>1. CASE MainLock \/ MainTimeouts \/ MainFindsNobody
  <2>1. UNCHANGED <<pc, reaped, hpc, active_clients>> /\ mpc # "crashed"
    BY <1>1 DEF MainLock, MainAcquires, MainTimeouts, MainFindsNobody, MainAt,
                main, control, handler, child
  <2>2. Forking' = Forking
    BY <1>1 DEF MainLock, MainAcquires, MainTimeouts, MainFindsNobody, MainAt, Forking
  <2> QED BY <2>1, <2>2, CountFrame DEF Counted, Handling
<1>2. CASE MainTerminates
  BY <1>2, NobodyLeft, CountFrame DEF MainTerminates, MainAt, Counted, Handling, Forking,
                                      control, handler
<1>3. CASE MainAccepts
  <2>1. UNCHANGED <<reaped, hpc, active_clients>> /\ Forking' = Forking /\ mpc = "check"
    BY <1>3 DEF MainAccepts, MainAt, Forking, control, handler
  <2>2. Counted' = Counted
    BY <1>3, <2>1 DEF MainAccepts, Counted, TypeOK, Unserved
  <2> QED BY <2>1, <2>2, CountFrame DEF Handling
<1>4. CASE MainCounts
  <2>1. /\ Counted' = Counted /\ active_clients' = active_clients + 1
        /\ mpc = "inc" /\ mpc' = "fork" /\ hpc' = hpc
    BY <1>4 DEF MainCounts, MainAt, Counted, handler, child
  <2> QED BY <1>0, <2>1 DEF ActiveClientsExact
<1>5. CASE MainForks
  <2>1. PICK c \in Clients :
          /\ pc[c] = "accepted"
          /\ \/ pc' = [pc EXCEPT ![c] = "recv"] /\ mpc' = "timeoutWait"
             \/ pc' = [pc EXCEPT ![c] = "refused"] /\ mpc' = "decWait"
    BY <1>5 DEF MainForks
  <2>2. UNCHANGED <<reaped, hpc, active_clients>> /\ mpc = "fork" /\ c \notin reaped
    BY <1>5, <2>1 DEF MainForks, MainAt, control, handler, Bookkeeping, Gone
  <2>3. CASE pc' = [pc EXCEPT ![c] = "recv"] /\ mpc' = "timeoutWait"
    <3>1. Counted' = Counted \union {c} /\ c \notin Counted
      BY <2>1, <2>2, <2>3 DEF Counted, TypeOK, Unserved
    <3>2. Cardinality(Counted') = Cardinality(Counted) + 1
      BY <1>0, <3>1, FS_AddElement
    <3> QED BY <1>0, <2>2, <2>3, <3>2 DEF ActiveClientsExact
  <2>4. CASE pc' = [pc EXCEPT ![c] = "refused"] /\ mpc' = "decWait"
    <3>1. Counted' = Counted
      BY <2>1, <2>2, <2>4 DEF Counted, TypeOK, Unserved
    <3> QED BY <2>2, <2>4, <3>1 DEF ActiveClientsExact
  <2> QED BY <2>1, <2>3, <2>4
<1>6. CASE MainUncounts
  <2>1. /\ Counted' = Counted /\ active_clients' = active_clients - 1
        /\ mpc = "dec" /\ mpc' = "timeoutWait" /\ hpc' = hpc
    BY <1>6 DEF MainUncounts, MainAt, Counted, handler, child
  <2> QED BY <1>0, <2>1 DEF ActiveClientsExact
<1>7. CASE SignalArrives \/ HandlerLock
  BY <1>7, CountFrame DEF SignalArrives, HandlerLock, Counted, Handling, Forking,
                          control, main, child
<1>8. CASE HandlerReaps
  <2>1. PICK c \in Zombies : reaped' = reaped \union {c}
    BY <1>8 DEF HandlerReaps
  <2>2. UNCHANGED <<pc, mpc, active_clients>> /\ hpc = "reap" /\ hpc' = "lock"
    BY <1>8 DEF HandlerReaps, control, child
  <2>3. Counted' = Counted \ {c} /\ c \in Counted
    BY <2>1, <2>2 DEF Counted, Zombies, Gone, Unserved
  <2>4. Cardinality(Counted') = Cardinality(Counted) - 1
    BY <1>0, <2>3, FS_RemoveElement
  <2> QED BY <1>0, <2>2, <2>4 DEF ActiveClientsExact
<1>9. CASE HandlerReleases
  <2>1. /\ Counted' = Counted /\ active_clients' = active_clients - 1
        /\ hpc = "in" /\ hpc' = "reap" /\ mpc' = mpc
    BY <1>9 DEF HandlerReleases, Counted, main, child
  <2> QED BY <1>0, <2>1 DEF ActiveClientsExact
<1>10. CASE HandlerReturns
  BY <1>10 DEF HandlerReturns, ActiveClientsExact, Counted, control, child
<1>11. ASSUME NEW c \in Clients, ChildLock(c) \/ Child(c) PROVE ActiveClientsExact'
  BY <1>11, CountChild
<1>12. ASSUME NEW c \in Clients, Client(c) PROVE ActiveClientsExact'
  <2>1. UNCHANGED <<reaped, hpc, mpc, active_clients>>
    BY <1>12, ClientMoves DEF main, handler, control
  <2>2. Counted' = Counted
    BY <1>12, <2>1, ClientMoves DEF Counted, TypeOK, Bookkeeping, Unserved
  <2> QED BY <2>1, <2>2, CountFrame DEF Handling, Forking
<1>13. ASSUME NEW t \in Tasks, TaskAges(t) PROVE ActiveClientsExact'
  BY <1>13, CountFrame DEF TaskAges, Counted, Handling, Forking, control, main, handler, child
<1>14. CASE UNCHANGED vars
  BY <1>14, CountFrame DEF vars, Counted, Handling, Forking, control, main, handler, child
<1> QED
  BY <1>1, <1>2, <1>3, <1>4, <1>5, <1>6, <1>7, <1>8, <1>9, <1>10, <1>11, <1>12,
     <1>13, <1>14
  DEF Next, Main, Handler
-----------------------------------------------------------------------------
LEMMA InitInv == ASSUME Init PROVE IInv
<1> USE DEF Init, MainCS, MainWaits, MainStopped, ChildCS, ChildWaits, Gone, Unserved
<1>1. TypeOK
  <2>1. <<>> \in Seq(Requests) /\ <<>> \in Seq(Replies)
    OBVIOUS
  <2>2. toSrv \in [Clients -> Seq(Requests)] /\ toCli \in [Clients -> Seq(Replies)]
    BY <2>1
  <2>3. /\ assigned_to \in [Tasks -> Clients \union {NoPid}]
        /\ completed \in [Tasks -> BOOLEAN]
        /\ answer \in [Tasks -> Tasks \union {NoTask}]
        /\ task_index \in [Clients -> Tasks \union {NoTask}]
        /\ buffer \in [Clients -> Tasks \union {NoTask}]
        /\ ctask \in [Clients -> Tasks \union {NoTask}]
    OBVIOUS
  <2>4. /\ sem \in 0..1 /\ active_clients \in Int
        /\ overdue \subseteq Tasks /\ reaped \subseteq Clients
        /\ hpid \in Clients \union {NoPid}
    OBVIOUS
  <2>5. /\ all_tasks_completed \in BOOLEAN /\ eintr \in BOOLEAN /\ sigchld \in BOOLEAN
        /\ mpc \in MainWaits /\ hpc = "off"
        /\ pc \in [Clients -> {"none"}] /\ cpc \in [Clients -> {"start"}]
        /\ link \in [Clients -> {"none"}]
    OBVIOUS
  <2> QED BY <2>2, <2>3, <2>4, <2>5 DEF TypeOK
<1>2. MutualExclusion
  BY DEF MutualExclusion, OnlyOne, MainHolds, HandlerHolds, ChildHolds
<1>3. Bookkeeping
  BY DEF Bookkeeping
<1>4. ActiveClientsExact
  <2>1. Counted = {}
    BY DEF Counted
  <2> QED BY <2>1, FS_EmptySet DEF ActiveClientsExact
<1> QED BY <1>1, <1>2, <1>3, <1>4 DEF IInv

(* The inductive invariant holds in every reachable state. *)
THEOREM Invariance == Spec => []IInv
<1>1. IInv /\ [Next]_vars => IInv'
  BY TypeStep, MutexStep, BookStep, CountStep DEF IInv
<1> QED BY <1>1, InitInv, PTL DEF Spec

(* Every variable keeps its type; the semaphore is never released twice.   *)
THEOREM Types == Spec => []TypeOK
<1>1. IInv => TypeOK
  BY DEF IInv
<1> QED BY <1>1, Invariance, PTL

(* No two of main, its handler and the children are between lock_queue and *)
(* unlock_queue.                                                           *)
THEOREM Exclusion == Spec => []MutualExclusion
<1>1. IInv => MutualExclusion
  BY DEF IInv
<1> QED BY <1>1, Invariance, PTL

(* active_clients is the number of children not yet reaped and accounted   *)
(* for, up to the one being forked.                                        *)
THEOREM ExactCount == Spec => []ActiveClientsExact
<1>1. IInv => ActiveClientsExact
  BY DEF IInv
<1> QED BY <1>1, Invariance, PTL

(* The server terminates by itself only when every task is completed and   *)
(* no session is left.                                                     *)
THEOREM TerminatesCleanly == Spec => CleanShutdown
<1>1. ASSUME IInv, [Next]_vars
      PROVE  mpc' = "terminated" /\ mpc # "terminated" =>
               /\ \A c \in Clients : ~Live(c)
               /\ \A t \in Tasks : completed[t]
  <2> SUFFICES ASSUME mpc' = "terminated", mpc # "terminated"
               PROVE  /\ \A c \in Clients : ~Live(c)
                      /\ \A t \in Tasks : completed[t]
    OBVIOUS
  <2>1. MainTerminates
    <3>1. ASSUME NEW c \in Clients, ChildLock(c) \/ Child(c) \/ Client(c) PROVE mpc' = mpc
      <4>1. CASE ChildLock(c) \/ Child(c)
        BY <1>1, <4>1, ChildMoves DEF main, IInv
      <4>2. CASE Client(c)
        BY <4>2, ClientMoves DEF main
      <4> QED BY <3>1, <4>1, <4>2
    <3>2. ASSUME NEW t \in Tasks, TaskAges(t) PROVE mpc' = mpc
      BY <3>2 DEF TaskAges, main
    <3>3. CASE UNCHANGED vars
      BY <3>3 DEF vars, main
    <3> QED BY <1>1, <3>1, <3>2, <3>3
            DEF Next, MainLock, MainAcquires, Main, MainTimeouts, MainAccepts, MainFindsNobody,
                MainCounts, MainForks, MainUncounts, SignalArrives, HandlerLock, Handler,
                HandlerReaps, HandlerReleases, HandlerReturns, main
  <2>2. \A c \in Clients : ~Live(c)
    BY <1>1, <2>1, NobodyLeft
  <2>3. \A t \in Tasks : completed[t]
    BY <1>1, <2>1 DEF MainTerminates, ShutdownDue, IInv, Bookkeeping
  <2> QED BY <2>2, <2>3
<1>2. IInv /\ [Next]_vars =>
        [mpc' = "terminated" /\ mpc # "terminated" =>
               /\ \A c \in Clients : ~Live(c)
               /\ \A t \in Tasks : completed[t]]_vars
  BY <1>1
<1> QED BY <1>2, Invariance, PTL DEF Spec, CleanShutdown
-----------------------------------------------------------------------------
(* The task table: what a step can do to it. *)

PutsBack == \E S : PutBack(S) /\ task_index' = task_index
TableKept == UNCHANGED <<assigned_to, completed, task_index>>

LEMMA TableStep ==
  ASSUME [Next]_vars
  PROVE  \/ PutsBack \/ TableKept
         \/ \E c \in Clients : ChildGets(c) \/ ChildCredits(c)
<1>1. CASE MainTimeouts
  BY <1>1 DEF MainTimeouts, check_task_timeouts, PutsBack, child
<1>2. CASE HandlerReleases
  BY <1>2 DEF HandlerReleases, Release, PutsBack, child
<1>3. ASSUME NEW c \in Clients, ChildReleases(c) PROVE PutsBack
  BY <1>3 DEF ChildReleases, Release, PutsBack
<1>4. ASSUME NEW c \in Clients, ChildTimeouts(c) PROVE PutsBack
  BY <1>4 DEF ChildTimeouts, check_task_timeouts, PutsBack
<1>5. CASE \/ MainLock \/ MainTerminates \/ MainAccepts \/ MainFindsNobody \/ MainCounts
           \/ MainForks \/ MainUncounts \/ SignalArrives \/ HandlerLock \/ HandlerReaps
           \/ HandlerReturns
  BY <1>5 DEF MainLock, MainAcquires, MainTerminates, MainAccepts, MainFindsNobody, MainCounts,
              MainForks, MainUncounts, SignalArrives, HandlerLock, HandlerReaps,
              HandlerReturns, TableKept, table, child
<1>6. ASSUME NEW c \in Clients,
             ChildLock(c) \/ ChildReceives(c) \/ ChildSeesClose(c) \/ ChildQuits(c)
      PROVE  TableKept
  BY <1>6 DEF ChildLock, ChildReceives, ChildSeesClose, ChildQuits, TableKept, table
<1>7. ASSUME NEW c \in Clients, Client(c) PROVE TableKept
  BY <1>7, ClientMoves DEF TableKept, table
<1>8. ASSUME NEW t \in Tasks, TaskAges(t) PROVE TableKept
  BY <1>8 DEF TaskAges, TableKept, child
<1>9. CASE UNCHANGED vars
  BY <1>9 DEF vars, TableKept, table, child
<1> QED BY <1>1, <1>2, <1>3, <1>4, <1>5, <1>6, <1>7, <1>8, <1>9
        DEF Next, Main, Handler, Child

(* What a step can do to the unfinished tasks a client holds: they become  *)
(* fewer, unless the client's own child assigns it one when it has none.   *)
LEMMA HeldStep ==
  ASSUME TypeOK, [Next]_vars, NEW c \in Clients
  PROVE  \/ Held(c)' \subseteq Held(c)
         \/ ChildGets(c) /\ \E t \in Tasks : Held(c)' = {t}
<1>0. assigned_to \in [Tasks -> Clients \union {NoPid}] /\ completed \in [Tasks -> BOOLEAN]
      /\ NoPid \notin Clients
  BY Messages DEF TypeOK
<1>1. CASE PutsBack
  BY <1>0, <1>1 DEF PutsBack, PutBack, Held
<1>2. CASE TableKept
  BY <1>2 DEF TableKept, Held
<1>3. ASSUME NEW d \in Clients, ChildCredits(d) PROVE Held(c)' \subseteq Held(c)
  <2>1. assigned_to' = assigned_to
    BY <1>3 DEF ChildCredits
  <2>2. \A t \in Tasks : completed[t] => completed'[t]
    BY <1>0, <1>3, CreditsCases
  <2> QED BY <2>1, <2>2 DEF Held
<1>4. ASSUME NEW d \in Clients, ChildGets(d)
      PROVE  \/ Held(c)' \subseteq Held(c)
             \/ d = c /\ \E t \in Tasks : Held(c)' = {t}
  <2>1. completed' = completed
    BY <1>4 DEF ChildGets
  <2>2. CASE assigned_to' = assigned_to
    BY <2>1, <2>2 DEF Held
  <2>3. ASSUME NEW t \in Tasks, MayAssign(d, t), assigned_to' = [assigned_to EXCEPT ![t] = d]
        PROVE  \/ Held(c)' \subseteq Held(c)
               \/ d = c /\ \E u \in Tasks : Held(c)' = {u}
    <3>1. Held(d) = {} /\ ~completed[t]
      BY <2>3 DEF MayAssign, IsFirst, Free
    <3>2. CASE d = c
      <4>1. Held(c)' = {t}
        BY <1>0, <2>1, <2>3, <3>1, <3>2 DEF Held
      <4> QED BY <4>1, <3>2
    <3>3. CASE d # c
      BY <1>0, <2>1, <2>3, <3>3 DEF Held
    <3> QED BY <3>2, <3>3
  <2> QED BY <1>4, <2>2, <2>3, GetsCases
<1> QED BY <1>1, <1>2, <1>3, <1>4, TableStep

(* A client never holds two unfinished tasks. *)
THEOREM OneTask == Spec => []OneTaskPerClient
<1>1. Init => OneTaskPerClient
  BY Messages DEF Init, OneTaskPerClient, Held
<1>2. IInv /\ OneTaskPerClient /\ [Next]_vars => OneTaskPerClient'
  <2> SUFFICES ASSUME IInv, OneTaskPerClient, [Next]_vars, NEW c \in Clients,
                      NEW t \in Held(c)', NEW u \in Held(c)'
               PROVE  t = u
    BY DEF OneTaskPerClient
  <2>1. CASE Held(c)' \subseteq Held(c)
    BY <2>1 DEF OneTaskPerClient
  <2>2. CASE \E v \in Tasks : Held(c)' = {v}
    BY <2>2
  <2> QED BY <2>1, <2>2, HeldStep DEF IInv
<1> QED BY <1>1, <1>2, Invariance, PTL DEF Spec
-----------------------------------------------------------------------------
(* Somebody answers for a client that holds a task: its child, main while  *)
(* the child is a zombie, or the handler that has reaped it.               *)
LEMMA AccountStep ==
  ASSUME IInv, [Next]_vars, NEW c \in Clients, Accountable(c), Held(c)' # {}
  PROVE  Accountable(c)'
<1> USE DEF Accountable, Zombies
<1>0. /\ pc \in [Clients -> {"recv"} \union ChildWaits \union ChildCS \union Gone \union Unserved]
      /\ NoPid \notin Clients /\ Bookkeeping
      /\ Live(c) => c \notin reaped
      /\ pc[c] \notin {"none", "backlog", "accepted"}
  <2>1. Bookkeeping /\ NoPid \notin Clients
    BY Messages DEF IInv
  <2>2. pc[c] \notin {"none", "backlog", "accepted"}
    BY <2>1 DEF Bookkeeping, Live, ChildWaits, ChildCS, Gone
  <2> QED BY <2>1, <2>2 DEF IInv, TypeOK, Bookkeeping, Live, Gone, ChildWaits, ChildCS
<1>1. CASE UNCHANGED <<pc, reaped, hpc, hpid>>
  BY <1>1 DEF Live
<1>2. CASE MainTerminates
  BY <1>1, <1>2, NobodyLeft DEF MainTerminates, handler
<1>3. CASE MainAccepts \/ MainForks
  <2>1. pc'[c] = pc[c] /\ UNCHANGED <<reaped, hpc, hpid>>
    BY <1>0, <1>3 DEF MainAccepts, MainForks, handler
  <2> QED BY <2>1 DEF Live
<1>4. CASE SignalArrives
  BY <1>0, <1>4 DEF SignalArrives, Bookkeeping, Live, child
<1>5. CASE HandlerReaps
  BY <1>0, <1>5 DEF HandlerReaps, Bookkeeping, Live, child
<1>6. CASE HandlerLock
  BY <1>6 DEF HandlerLock, Live, main, child
<1>7. CASE HandlerReleases
  <2>1. PutBack(Held(hpid))
    BY <1>7 DEF HandlerReleases, Release
  <2>2. c # hpid
    <3> SUFFICES ASSUME c = hpid PROVE Held(c)' = {}
      OBVIOUS
    <3>1. ASSUME NEW t \in Tasks, t \in Held(c)' PROVE FALSE
      <4>1. ~completed[t] /\ assigned_to'[t] = c
        BY <2>1, <3>1 DEF Held, PutBack
      <4>2. t \notin Held(hpid) /\ assigned_to[t] = c
        BY <1>0, <2>1, <4>1 DEF PutBack
      <4> QED BY <4>1, <4>2 DEF Held
    <3> QED BY <3>1 DEF Held
  <2> QED BY <1>7, <2>2 DEF HandlerReleases, Live, main, child
<1>8. CASE HandlerReturns
  BY <1>8 DEF HandlerReturns, Live, child
<1>9. ASSUME NEW d \in Clients, ChildLock(d) \/ Child(d) PROVE Accountable(c)'
  <2>1. PICK p \in Served : pc' = [pc EXCEPT ![d] = p]
    BY <1>9, ChildMoves DEF IInv, Move
  <2>2. Live(d) /\ UNCHANGED <<reaped, hpc, hpid>>
    BY <1>9, ChildMoves DEF IInv, main, handler
  <2>3. CASE d = c
    <3>1. pc'[c] \in Served /\ c \notin reaped'
      BY <1>0, <2>1, <2>2, <2>3
    <3> QED BY <3>1 DEF Served, Live
  <2>4. CASE d # c
    BY <1>0, <2>1, <2>2, <2>4 DEF Live
  <2> QED BY <2>3, <2>4
<1>10. ASSUME NEW d \in Clients, Client(d) PROVE Accountable(c)'
  <2>1. UNCHANGED <<reaped, hpc, hpid>>
    BY <1>10, ClientMoves DEF main, handler
  <2>2. pc'[c] = pc[c]
    BY <1>0, <1>10, ClientMoves DEF Bookkeeping
  <2> QED BY <2>1, <2>2 DEF Live
<1>11. CASE \/ MainLock \/ MainTimeouts \/ MainFindsNobody \/ MainCounts \/ MainUncounts
  BY <1>1, <1>11 DEF MainLock, MainAcquires, MainTimeouts, MainFindsNobody, MainCounts,
                    MainUncounts, handler, child
<1>12. ASSUME NEW t \in Tasks, TaskAges(t) PROVE Accountable(c)'
  BY <1>1, <1>12 DEF TaskAges, main, handler, child
<1>13. CASE UNCHANGED vars
  BY <1>1, <1>13 DEF vars, main, handler, child
<1> QED
  BY <1>2, <1>3, <1>4, <1>5, <1>6, <1>7, <1>8, <1>9, <1>10, <1>11, <1>12, <1>13
  DEF Next, Main, Handler

(* No unfinished task is left with a pid that nobody will look at again.   *)
THEOREM NothingLost == Spec => []NoTaskLost
<1>1. Init => NoTaskLost
  BY Messages DEF Init, NoTaskLost, Held
<1>2. IInv /\ NoTaskLost /\ [Next]_vars => NoTaskLost'
  <2> SUFFICES ASSUME IInv, NoTaskLost, [Next]_vars, NEW c \in Clients, Held(c)' # {}
               PROVE  Accountable(c)'
    BY DEF NoTaskLost
  <2>1. CASE Held(c)' \subseteq Held(c)
    BY <2>1, AccountStep DEF NoTaskLost
  <2>2. CASE ChildGets(c)
    <3>1. Live(c)
      BY <2>2 DEF ChildGets, Live, ChildCS
    <3> QED BY <3>1, AccountStep DEF Accountable
  <2> QED BY <2>1, <2>2, HeldStep DEF IInv
<1> QED BY <1>1, <1>2, Invariance, PTL DEF Spec
-----------------------------------------------------------------------------
(* Deaths are noticed.  Only a step of c or the end of the server kills c, *)
(* and only the handler's waitpid ends the notice of a death.              *)
LEMMA ZombieStep ==
  ASSUME IInv, NoZombieForgotten, [Next]_vars PROVE NoZombieForgotten'
<1>0. pc \in [Clients -> {"recv"} \union ChildWaits \union ChildCS \union Gone \union Unserved]
  BY DEF IInv, TypeOK
<1>1. ASSUME Zombies' \subseteq Zombies, sigchld => sigchld', hpc # "off" => hpc' # "off",
             mpc \in MainStopped => mpc' \in MainStopped
      PROVE  NoZombieForgotten'
  BY <1>1 DEF NoZombieForgotten
<1>2. CASE \/ MainLock \/ MainTimeouts \/ MainFindsNobody \/ MainCounts \/ MainUncounts
           \/ HandlerLock
  BY <1>1, <1>2 DEF MainLock, MainAcquires, MainTimeouts, MainFindsNobody, MainCounts,
       MainUncounts, HandlerLock, MainAt, MainCS, MainWaits, MainStopped, Zombies,
       main, handler, child
<1>3. CASE MainTerminates
  BY <1>3 DEF MainTerminates, MainStopped, NoZombieForgotten
<1>4. CASE MainAccepts \/ MainForks
  <2>1. /\ \A c \in Clients : pc'[c] \in Gone => pc[c] \in Gone
        /\ UNCHANGED <<reaped, sigchld, hpc>> /\ mpc \notin MainStopped
    BY <1>0, <1>4 DEF MainAccepts, MainForks, MainAt, MainStopped, handler, Gone
  <2> QED BY <1>1, <2>1 DEF Zombies
<1>5. CASE SignalArrives \/ HandlerReaps \/ HandlerReleases
  BY <1>5 DEF SignalArrives, HandlerReaps, HandlerReleases, NoZombieForgotten
<1>6. CASE HandlerReturns
  BY <1>6 DEF HandlerReturns, NoZombieForgotten, Zombies, child
<1>7. ASSUME NEW c \in Clients, ChildLock(c) \/ Child(c) PROVE NoZombieForgotten'
  <2>1. UNCHANGED <<reaped, hpc, mpc>>
    BY <1>7, ChildMoves DEF IInv, main, handler
  <2>2. PICK p \in Served : pc' = [pc EXCEPT ![c] = p]
    BY <1>7, ChildMoves DEF IInv, Move
  <2>3. sigchld' \/ (sigchld' = sigchld /\ p \notin Gone)
    <3> USE <1>0, <2>2
    <3>1. CASE ChildLock(c)
      BY <3>1 DEF ChildLock, Goto, Gone, ChildWaits
    <3>2. CASE ChildReceives(c)
      <4>1. toSrv[c] # <<>> /\ toSrv[c] \in Seq(Requests)
        BY <3>2 DEF ChildReceives, IInv, TypeOK
      <4>2. Head(toSrv[c]).type \in {"GET_TASK", "RESULT", "exit"}
        BY <4>1, Messages
      <4> QED BY <3>2, <4>2 DEF ChildReceives, Goto, Gone
    <3>3. CASE ChildSeesClose(c) \/ ChildCredits(c) \/ ChildTimeouts(c)
      BY <3>3 DEF ChildSeesClose, ChildCredits, ChildTimeouts, Goto, Gone
    <3>4. CASE ChildQuits(c) \/ ChildReleases(c)
      BY <3>4 DEF ChildQuits, ChildReleases, Exit
    <3>5. CASE ChildGets(c)
      <4>1. PICK m \in Replies : SendReply(c, m)
        BY <3>5, Messages DEF ChildGets
      <4> QED BY <4>1 DEF SendReply, Exit, Goto, Gone
    <3> QED BY <1>7, <3>1, <3>2, <3>3, <3>4, <3>5 DEF Child
  <2>4. CASE sigchld'
    BY <2>4 DEF NoZombieForgotten
  <2>5. CASE sigchld' = sigchld /\ p \notin Gone
    <3>1. Zombies' \subseteq Zombies
      BY <1>0, <2>1, <2>2, <2>5 DEF Zombies
    <3> QED BY <1>1, <2>1, <2>5, <3>1
  <2> QED BY <2>3, <2>4, <2>5
<1>8. ASSUME NEW c \in Clients, Client(c) PROVE NoZombieForgotten'
  <2>1. UNCHANGED <<reaped, sigchld, hpc, mpc>>
    BY <1>8, ClientMoves DEF main, handler
  <2>2. Zombies' \subseteq Zombies
    BY <1>0, <1>8, <2>1, ClientMoves DEF Zombies, Gone
  <2> QED BY <1>1, <2>1, <2>2
<1>9. ASSUME NEW t \in Tasks, TaskAges(t) PROVE NoZombieForgotten'
  BY <1>1, <1>9 DEF TaskAges, Zombies, main, handler, child
<1>10. CASE UNCHANGED vars
  BY <1>1, <1>10 DEF vars, Zombies, main, handler, child
<1> QED BY <1>2, <1>3, <1>4, <1>5, <1>6, <1>7, <1>8, <1>9, <1>10 DEF Next, Main, Handler

(* No death is forgotten, however many share one signal and whenever they  *)
(* happen: a zombie has a pending signal or a handler that will call       *)
(* waitpid again, as long as main runs (server.c:118-147).                 *)
THEOREM DeathsAreNoticed == Spec => []NoZombieForgotten
<1>1. Init => NoZombieForgotten
  BY DEF Init, NoZombieForgotten, Zombies, Gone
<1>2. IInv /\ NoZombieForgotten /\ [Next]_vars => NoZombieForgotten'
  BY ZombieStep
<1> QED BY <1>1, <1>2, Invariance, PTL DEF Spec
-----------------------------------------------------------------------------
(* The refinement of TaskPool. *)

LEMMA PoolInitial == ASSUME Init PROVE Pool!PoolInit
<1>1. holderOf = [t \in Tasks |-> NoPid] /\ doneSet = {}
  BY DEF Init, holderOf, doneSet
<1> QED BY <1>1 DEF Init, Pool!PoolInit

LEMMA PoolReturn == ASSUME TypeOK, PutsBack PROVE \E S \in SUBSET Tasks : Pool!Return(S)
<1>1. PICK S : PutBack(S) /\ task_index' = task_index
  BY DEF PutsBack
<1>2. doneSet' = doneSet
  BY <1>1 DEF PutBack, doneSet
<1>3. holderOf' = [t \in Tasks |-> IF t \in S \intersect Tasks THEN NoPid ELSE holderOf[t]]
  BY <1>1 DEF PutBack, holderOf
<1>4. Pool!Return(S \intersect Tasks)
  BY <1>1, <1>2, <1>3 DEF Pool!Return
<1> QED BY <1>4

LEMMA PoolGets ==
  ASSUME TypeOK, NEW c \in Clients, ChildGets(c)
  PROVE  \/ \E t \in Tasks : Pool!Assign(c, t) \/ Pool!HandAgain(c, t)
         \/ Pool!Refuse(c)
<1>0. /\ assigned_to \in [Tasks -> Clients \union {NoPid}] /\ completed \in [Tasks -> BOOLEAN]
      /\ NoPid \notin Clients /\ completed' = completed /\ doneSet' = doneSet
      /\ \A t \in Tasks : holderOf[t] = c <=> t \in Held(c)
      /\ \A t \in Tasks : t \in Free <=> t \notin doneSet /\ holderOf[t] = NoPid
  <2>1. completed' = completed
    BY DEF ChildGets
  <2> QED BY <2>1, Messages DEF TypeOK, doneSet, holderOf, Held, Free
<1>1. ASSUME NEW t \in Tasks, IsFirst(t, Held(c)),
             task_index' = [task_index EXCEPT ![c] = t], UNCHANGED <<assigned_to, overdue>>
      PROVE  Pool!HandAgain(c, t)
  <2>1. holderOf[t] = c
    BY <1>0, <1>1 DEF IsFirst
  <2>2. holderOf' = holderOf
    BY <1>0, <1>1 DEF holderOf
  <2> QED BY <1>0, <1>1, <2>1, <2>2 DEF Pool!HandAgain
<1>2. ASSUME NEW t \in Tasks, MayAssign(c, t),
             task_index' = [task_index EXCEPT ![c] = t],
             assigned_to' = [assigned_to EXCEPT ![t] = c]
      PROVE  Pool!Assign(c, t)
  <2>1. t \in Free /\ Held(c) = {}
    BY <1>2 DEF MayAssign, IsFirst
  <2>2. t \notin doneSet /\ holderOf[t] = NoPid /\ \A u \in Tasks : holderOf[u] # c
    BY <1>0, <2>1
  <2>3. holderOf' = [holderOf EXCEPT ![t] = c]
    BY <1>0, <1>2, <2>2 DEF holderOf, doneSet
  <2> QED BY <1>0, <1>2, <2>2, <2>3 DEF Pool!Assign
<1>3. ASSUME Held(c) = {}, Free = {},
             task_index' = [task_index EXCEPT ![c] = NoTask], UNCHANGED <<assigned_to, overdue>>
      PROVE  Pool!Refuse(c)
  <2>1. \A t \in Tasks : t \in doneSet \/ holderOf[t] \notin {NoPid, c}
    BY <1>0, <1>3
  <2>2. holderOf' = holderOf
    BY <1>0, <1>3 DEF holderOf
  <2> QED BY <1>0, <1>3, <2>1, <2>2 DEF Pool!Refuse
<1> QED BY <1>1, <1>2, <1>3, GetsCases

LEMMA PoolCredits ==
  ASSUME TypeOK, NEW c \in Clients, ChildCredits(c)
  PROVE  \/ \E t \in Tasks : Pool!Complete(c, t)
         \/ UNCHANGED <<holderOf, doneSet, task_index>>
<1>0. /\ assigned_to \in [Tasks -> Clients \union {NoPid}] /\ completed \in [Tasks -> BOOLEAN]
      /\ task_index \in [Clients -> Tasks \union {NoTask}]
      /\ NoPid \notin Clients /\ NoTask \notin Tasks /\ assigned_to' = assigned_to
      /\ \A t \in Tasks : holderOf[t] = c <=> t \in Held(c)
  <2>1. assigned_to' = assigned_to
    BY DEF ChildCredits
  <2> QED BY <2>1, Messages DEF TypeOK, holderOf, Held, Tasks, NoTask
<1>1. ASSUME Credited(c, NoTask), task_index' = [task_index EXCEPT ![c] = NoTask],
             completed' = completed
      PROVE  UNCHANGED <<holderOf, doneSet, task_index>>
  <2>1. task_index[c] = NoTask
    BY <1>0, <1>1 DEF Credited, IsFirst, Held
  <2> QED BY <1>0, <1>1, <2>1 DEF holderOf, doneSet
<1>2. ASSUME NEW t \in Tasks, Credited(c, t), task_index' = [task_index EXCEPT ![c] = t],
             completed' = [completed EXCEPT ![t] = TRUE]
      PROVE  Pool!Complete(c, t)
  <2>1. \/ holderOf[t] = c
        \/ task_index[c] = t /\ \A u \in Tasks : holderOf[u] # c
    BY <1>0, <1>2 DEF Credited, IsFirst
  <2>2. holderOf' = [holderOf EXCEPT ![t] = NoPid]
    BY <1>0, <1>2 DEF holderOf
  <2>3. doneSet' = doneSet \union {t}
    BY <1>0, <1>2 DEF doneSet
  <2> QED BY <1>2, <2>1, <2>2, <2>3 DEF Pool!Complete
<1> QED BY <1>1, <1>2, CreditsCases

(* The server hands out, takes back and completes tasks only as TaskPool   *)
(* allows, whatever the order in which its processes run.                  *)
THEOREM Refinement == Spec => ImplementsPool
<1>1. IInv /\ [Next]_vars => [Pool!PoolNext]_(Pool!poolVars)
  <2> SUFFICES ASSUME IInv, [Next]_vars PROVE [Pool!PoolNext]_(Pool!poolVars)
    OBVIOUS
  <2>1. CASE PutsBack
    BY <2>1, PoolReturn DEF IInv, Pool!PoolNext
  <2>2. CASE TableKept
    BY <2>2 DEF TableKept, Pool!poolVars, holderOf, doneSet
  <2>3. ASSUME NEW c \in Clients, ChildGets(c) PROVE Pool!PoolNext
    BY <2>3, PoolGets DEF IInv, Pool!PoolNext
  <2>4. ASSUME NEW c \in Clients, ChildCredits(c) PROVE [Pool!PoolNext]_(Pool!poolVars)
    BY <2>4, PoolCredits DEF IInv, Pool!PoolNext, Pool!poolVars
  <2> QED BY <2>1, <2>2, <2>3, <2>4, TableStep
<1>2. Init => Pool!PoolInit
  BY PoolInitial
<1> QED BY <1>1, <1>2, Invariance, PTL DEF Spec, ImplementsPool, Pool!PoolSpec
=============================================================================
