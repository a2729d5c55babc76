------------------------------ MODULE TaskQueue ------------------------------
(***************************************************************************)
(* The task-queue server of LA5: a main process that accepts connections   *)
(* and forks one child per client, a task table and two counters in shared *)
(* memory, one System V semaphore that guards them, a SIGCHLD handler that *)
(* runs inside the main process, and the clients at the other end of the   *)
(* TCP connections.                                                        *)
(*                                                                         *)
(* A client connects at most once, so a client, its connection and the     *)
(* child (pid) that serves it share one name.  Time is abstract: a task    *)
(* held for more than 30 seconds is a member of overdue, and the 60 second *)
(* idle limit of a session may elapse whenever the child polls.            *)
(***************************************************************************)
EXTENDS Integers, Sequences, FiniteSets

CONSTANTS
  Clients,    \* the clients, and the pids of the children that serve them
  NTasks,     \* task_count, the number of lines of tasks.txt
  NoPid,      \* the value 0 of assigned_to
  Impatient,  \* clients that may repeat GET_TASK while they wait for a task
  MaxQueued   \* bound on the messages an impatient client keeps in flight

ASSUME ClientsAssumption == IsFiniteSet(Clients) /\ NoPid \notin Clients
ASSUME NTasksAssumption  == NTasks \in Nat /\ MaxQueued \in Nat

Tasks  == 1..NTasks
NoTask == 0              \* the index -1 of the code

Requests == [type : {"GET_TASK", "RESULT", "exit"}, task : Tasks \union {NoTask}]
Replies  == [type : {"Task", "None"}, task : Tasks \union {NoTask}]

VARIABLES
  sem,                  \* value of the semaphore
  assigned_to,          \* task -> the pid it is assigned to, NoPid if unassigned
  completed,            \* task -> completed flag
  overdue,              \* unfinished tasks assigned more than TIMEOUT_SECONDS ago
  answer,               \* task -> expression whose value was printed as its result
  active_clients, all_tasks_completed,   \* the control segment
  mpc, eintr,           \* main: control point; the interrupted semop will fail
  hpc, hpid,            \* SIGCHLD handler: control point; pid waitpid returned
  sigchld,              \* SIGCHLD is pending for main
  reaped,               \* pids waitpid has returned
  pc, task_index,       \* child: control point and local task_index
  buffer,               \* child: expression whose value the received RESULT carries
  cpc, ctask,           \* client: control point; the task it is working on
  link,                 \* state of the connection as the child's socket sees it
  toSrv, toCli          \* bytes in flight or unread, one message per element

table    == <<assigned_to, completed, overdue, answer>>
control  == <<active_clients, all_tasks_completed>>
main     == <<mpc, eintr, reaped>>
handler  == <<hpc, hpid>>
child    == <<pc, task_index, buffer>>
client   == <<cpc, ctask>>
net      == <<link, toSrv, toCli>>
vars == <<sem, table, control, main, handler, sigchld, child, client, net>>
-----------------------------------------------------------------------------
(* Control points. *)

MainWaits   == {"timeoutWait", "incWait", "decWait"}       \* blocked in semop
MainCS      == {"timeout", "inc", "dec"}                   \* holding the semaphore
MainStopped == {"crashed", "terminated"}                   \* exit(1), exit(0)

ChildWaits  == {"getWait", "resultWait", "releaseWait", "timeoutWait"}
ChildCS     == {"get", "result", "release", "timeout"}
Gone        == {"exited", "killed"}                        \* zombie, or reaped
Unserved    == {"none", "backlog", "accepted", "refused"}  \* no child (yet)

Live(c)  == pc[c] \in {"recv"} \union ChildWaits \union ChildCS
Zombies  == {c \in Clients : pc[c] \in Gone /\ c \notin reaped}

(* A process that dies of SIGPIPE inside its critical section keeps the    *)
(* semaphore: the operations carry no SEM_UNDO.                            *)
ChildHolds(c) == pc[c] \in ChildCS \union {"killed"}
MainHolds     == mpc \in MainCS
HandlerHolds  == hpc = "in"

LockNoWait == sem' = sem - 1             \* mutant: semop does not block
Lock   == sem > 0 /\ sem' = sem - 1      \* lock_queue, when it returns
Unlock == sem' = sem + 1                 \* unlock_queue
-----------------------------------------------------------------------------
(* The task table. *)

Held(c)  == {t \in Tasks : assigned_to[t] = c /\ ~completed[t]}
FreeIfUndone == {t \in Tasks : ~completed[t]}   \* mutant: assigned is ignored
Free     == {t \in Tasks : assigned_to[t] = NoPid /\ ~completed[t]}
IsFirst(t, S) == t \in S /\ \A u \in S : t <= u

PutBack(S) ==
  /\ assigned_to' = [t \in Tasks |-> IF t \in S THEN NoPid ELSE assigned_to[t]]
  /\ overdue' = overdue \ S
  /\ UNCHANGED <<completed, answer>>

ReleaseNone(c) == PutBack({})      \* mutant: tasks of a dead client are kept
Release(c) == PutBack(Held(c))

check_task_timeouts == PutBack(overdue)

check_all_completed(done) == \A t \in Tasks : done[t]
-----------------------------------------------------------------------------
(* setup_server and load_tasks: the state in which main enters its loop.   *)
Init ==
  /\ sem = 1
  /\ assigned_to = [t \in Tasks |-> NoPid]
  /\ completed = [t \in Tasks |-> FALSE]
  /\ overdue = {}
  /\ answer = [t \in Tasks |-> NoTask]
  /\ active_clients = 0 /\ all_tasks_completed = FALSE
  /\ mpc = "timeoutWait" /\ eintr = FALSE /\ reaped = {}
  /\ hpc = "off" /\ hpid = NoPid
  /\ sigchld = FALSE
  /\ pc = [c \in Clients |-> "none"]
  /\ task_index = [c \in Clients |-> NoTask]
  /\ buffer = [c \in Clients |-> NoTask]
  /\ cpc = [c \in Clients |-> "start"]
  /\ ctask = [c \in Clients |-> NoTask]
  /\ link = [c \in Clients |-> "none"]
  /\ toSrv = [c \in Clients |-> <<>>]
  /\ toCli = [c \in Clients |-> <<>>]
-----------------------------------------------------------------------------
(* The main process.  Its steps wait while the SIGCHLD handler runs.       *)

MainAt(p) == mpc = p /\ hpc = "off"

MainAcquires(p, q) ==
  /\ MainAt(p)
  /\ Lock
  /\ mpc' = q
  /\ UNCHANGED <<table, control, eintr, reaped, handler, sigchld, child, client, net>>

MainLock ==
  \/ MainAcquires("timeoutWait", "timeout")
  \/ MainAcquires("incWait", "inc")
  \/ MainAcquires("decWait", "dec")

MainTimeouts ==
  /\ MainAt("timeout")
  /\ check_task_timeouts
  /\ Unlock
  /\ mpc' = "check"
  /\ UNCHANGED <<control, eintr, reaped, handler, sigchld, child, client, net>>

(* The exit test reads the control segment without the semaphore. *)
ShutdownOnFlag == all_tasks_completed  \* mutant: sessions are not waited for
ShutdownDue == all_tasks_completed /\ active_clients = 0

(* kill(0, SIGTERM) reaches every process of the group, main included:     *)
(* each runs termination_handler, which removes the segments and exits.    *)
MainTerminates ==
  /\ MainAt("check")
  /\ ShutdownDue
  /\ mpc' = "terminated"
  /\ pc' = [c \in Clients |-> IF Live(c) THEN "exited" ELSE pc[c]]
  /\ UNCHANGED <<sem, table, control, eintr, reaped, handler, sigchld,
                 task_index, buffer, client, net>>

MainAccepts ==
  /\ MainAt("check")
  /\ ~ShutdownDue
  /\ \E c \in Clients :
       /\ pc[c] = "backlog"
       /\ pc' = [pc EXCEPT ![c] = "accepted"]
  /\ mpc' = "incWait"
  /\ UNCHANGED <<sem, table, control, eintr, reaped, handler, sigchld,
                 task_index, buffer, client, net>>

MainFindsNobody ==
  /\ MainAt("check")
  /\ ~ShutdownDue
  /\ \A c \in Clients : pc[c] # "backlog"
  /\ mpc' = "timeoutWait"
  /\ UNCHANGED <<sem, table, control, eintr, reaped, handler, sigchld, child, client, net>>

MainCounts ==
  /\ MainAt("inc")
  /\ active_clients' = active_clients + 1
  /\ Unlock
  /\ mpc' = "fork"
  /\ UNCHANGED <<table, all_tasks_completed, eintr, reaped, handler, sigchld,
                 child, client, net>>

MainForks ==
  /\ MainAt("fork")
  /\ \E c \in Clients :
       /\ pc[c] = "accepted"
       /\ \/ pc' = [pc EXCEPT ![c] = "recv"]    /\ mpc' = "timeoutWait"
          \/ pc' = [pc EXCEPT ![c] = "refused"] /\ mpc' = "decWait"
  /\ UNCHANGED <<sem, table, control, eintr, reaped, handler, sigchld,
                 task_index, buffer, client, net>>

(* Mutant: the failure path of fork forgets the counter. *)
MainUncountsNot ==
  /\ MainAt("dec")
  /\ Unlock
  /\ mpc' = "timeoutWait"
  /\ UNCHANGED <<table, control, eintr, reaped, handler, sigchld, child, client, net>>

MainUncounts ==
  /\ MainAt("dec")
  /\ active_clients' = active_clients - 1
  /\ Unlock
  /\ mpc' = "timeoutWait"
  /\ UNCHANGED <<table, all_tasks_completed, eintr, reaped, handler, sigchld,
                 child, client, net>>

Main == \/ MainTimeouts \/ MainTerminates \/ MainAccepts \/ MainFindsNobody
        \/ MainCounts \/ MainForks \/ MainUncounts
-----------------------------------------------------------------------------
(* The SIGCHLD handler.  It interrupts main anywhere, except that SIGCHLD  *)
(* is blocked while the handler itself runs.  semop is never restarted: if *)
(* main was asleep in lock_queue, its semop fails with EINTR once the      *)
(* handler has returned and lock_queue calls exit(1).  When the semaphore  *)
(* is available main cannot be asleep in semop.                            *)
SignalArrives ==
  /\ sigchld /\ hpc = "off" /\ mpc \notin MainStopped
  /\ sigchld' = FALSE
  /\ hpc' = "reap"
  /\ eintr' \in IF mpc \in MainWaits /\ sem = 0 THEN BOOLEAN ELSE {FALSE}
  /\ UNCHANGED <<sem, table, control, mpc, reaped, hpid, child, client, net>>

HandlerReaps ==
  /\ hpc = "reap"
  /\ \E c \in Zombies :
       /\ hpid' = c
       /\ reaped' = reaped \union {c}
  /\ hpc' = "lock"
  /\ UNCHANGED <<sem, table, control, mpc, eintr, sigchld, child, client, net>>

HandlerLock ==
  /\ hpc = "lock"
  /\ Lock
  /\ hpc' = "in"
  /\ UNCHANGED <<table, control, main, hpid, sigchld, child, client, net>>

(* Mutant: an if in place of the while around waitpid. *)
HandlerReleasesOnce ==
  /\ hpc = "in"
  /\ active_clients' = active_clients - 1
  /\ Release(hpid)
  /\ Unlock
  /\ hpc' = "off" /\ hpid' = NoPid
  /\ UNCHANGED <<all_tasks_completed, main, sigchld, child, client, net>>

(* Mutant: the handler leaves active_clients alone. *)
HandlerUncountsNot ==
  /\ hpc = "in"
  /\ Release(hpid)
  /\ Unlock
  /\ hpc' = "reap" /\ hpid' = NoPid
  /\ UNCHANGED <<control, main, sigchld, child, client, net>>

HandlerReleases ==
  /\ hpc = "in"
  /\ active_clients' = active_clients - 1
  /\ Release(hpid)
  /\ Unlock
  /\ hpc' = "reap" /\ hpid' = NoPid
  /\ UNCHANGED <<all_tasks_completed, main, sigchld, child, client, net>>

HandlerReturns ==
  /\ hpc = "reap"
  /\ Zombies = {}
  /\ hpc' = "off"
  /\ mpc' = IF eintr THEN "crashed" ELSE mpc
  /\ eintr' = FALSE
  /\ UNCHANGED <<sem, table, control, reaped, hpid, sigchld, child, client, net>>

Handler == HandlerReaps \/ HandlerReleases \/ HandlerReturns
-----------------------------------------------------------------------------
(* A child: handle_client. *)

Goto(c, p) == pc' = [pc EXCEPT ![c] = p]

(* recv returns what has arrived: the first k messages, of which only the  *)
(* first is looked at.                                                     *)
ChildReceives(c) ==
  /\ pc[c] = "recv"
  /\ \E k \in 1..Len(toSrv[c]) :
       toSrv' = [toSrv EXCEPT ![c] = SubSeq(@, k + 1, Len(@))]
  /\ LET m == Head(toSrv[c]) IN
       /\ buffer' = [buffer EXCEPT ![c] = m.task]
       /\ Goto(c, CASE m.type = "GET_TASK" -> "getWait"
                    [] m.type = "RESULT"   -> "resultWait"
                    [] m.type = "exit"     -> "releaseWait")
  /\ UNCHANGED <<sem, table, control, main, handler, sigchld, task_index, client,
                 link, toCli>>

(* recv returns 0. *)
ChildSeesClose(c) ==
  /\ pc[c] = "recv"
  /\ toSrv[c] = <<>> /\ link[c] \in {"fin", "finrst"}
  /\ Goto(c, "releaseWait")
  /\ UNCHANGED <<sem, table, control, main, handler, sigchld, task_index, buffer,
                 client, net>>

(* The child leaves its loop: close and exit(0), after which the kernel    *)
(* queues SIGCHLD for main.  It touches nothing shared on the way.         *)
Exit(c, how) ==
  /\ Goto(c, how)
  /\ sigchld' = TRUE
  /\ link' = [link EXCEPT ![c] = "closed"]
  /\ toSrv' = [toSrv EXCEPT ![c] = <<>>]
  /\ buffer' = [buffer EXCEPT ![c] = NoTask]

(* recv fails after a reset, or the session was idle for 60 seconds.  The  *)
(* child exits without releasing its task.                                 *)
ChildQuits(c) ==
  /\ pc[c] = "recv"
  /\ \/ toSrv[c] = <<>> /\ link[c] = "rst"
     \/ TRUE    \* time(NULL) - last_activity > CLIENT_IDLE_TIMEOUT
  /\ Exit(c, "exited")
  /\ UNCHANGED <<sem, table, control, main, handler, task_index, client, toCli>>

ChildLock(c) ==
  /\ pc[c] \in ChildWaits
  /\ Lock
  /\ Goto(c, CASE pc[c] = "getWait"     -> "get"
               [] pc[c] = "resultWait"  -> "result"
               [] pc[c] = "releaseWait" -> "release"
               [] pc[c] = "timeoutWait" -> "timeout")
  /\ UNCHANGED <<table, control, main, handler, sigchld, task_index, buffer, client, net>>

(* send, inside the critical section.  To a client that has closed, the    *)
(* first send succeeds and is answered by a reset; a send after that       *)
(* raises SIGPIPE.  A reset that arrived first makes it fail instead.      *)
SendReply(c, m) ==
  \/ /\ link[c] = "open"
     /\ toCli' = [toCli EXCEPT ![c] = Append(@, m)]
     /\ Goto(c, "timeoutWait") /\ Unlock
     /\ UNCHANGED <<link, toSrv, sigchld, buffer>>
  \/ /\ link[c] = "fin"
     /\ link' = [link EXCEPT ![c] = "finrst"]
     /\ Goto(c, "timeoutWait") /\ Unlock
     /\ UNCHANGED <<toCli, toSrv, sigchld, buffer>>
  \/ /\ link[c] = "rst"
     /\ Exit(c, "exited") /\ Unlock
     /\ UNCHANGED toCli
  \/ /\ link[c] = "finrst"
     /\ Exit(c, "killed")
     /\ UNCHANGED <<toCli, sem>>

AssignAnyway(c, t) == IsFirst(t, Free)   \* mutant: no look at the pending task
MayAssign(c, t) == Held(c) = {} /\ IsFirst(t, Free)

(* GET_TASK: re-send the pending task, else assign the first free one,     *)
(* else say that there is none.                                            *)
ChildGets(c) ==
  /\ pc[c] = "get"
  /\ \/ \E t \in Tasks :
          /\ IsFirst(t, Held(c))
          /\ task_index' = [task_index EXCEPT ![c] = t]
          /\ SendReply(c, [type |-> "Task", task |-> t])
          /\ UNCHANGED <<assigned_to, overdue>>
     \/ \E t \in Tasks :
          /\ MayAssign(c, t)
          /\ task_index' = [task_index EXCEPT ![c] = t]
          /\ assigned_to' = [assigned_to EXCEPT ![t] = c]
          /\ overdue' = overdue \ {t}
          /\ SendReply(c, [type |-> "Task", task |-> t])
     \/ /\ Held(c) = {} /\ Free = {}
        /\ task_index' = [task_index EXCEPT ![c] = NoTask]
        /\ SendReply(c, [type |-> "None", task |-> NoTask])
        /\ UNCHANGED <<assigned_to, overdue>>
  /\ UNCHANGED <<completed, answer, control, main, handler, client>>

(* RESULT: credited to the task assigned to this child, or else to         *)
(* whatever task_index was left at by an earlier message.                  *)
CreditedAnyones(c, t) ==      \* mutant: assigned_to is not compared
  \/ IsFirst(t, UNION {Held(d) : d \in Clients})
  \/ UNION {Held(d) : d \in Clients} = {} /\ t = task_index[c]

Credited(c, t) ==
  \/ IsFirst(t, Held(c))
  \/ Held(c) = {} /\ t = task_index[c]

ChildCredits(c) ==
  /\ pc[c] = "result"
  /\ \E t \in Tasks \union {NoTask} :
       /\ Credited(c, t)
       /\ task_index' = [task_index EXCEPT ![c] = t]
       /\ IF t = NoTask
            THEN UNCHANGED <<completed, overdue, answer, all_tasks_completed>>
            ELSE /\ completed' = [completed EXCEPT ![t] = TRUE]
                 /\ answer' = [answer EXCEPT ![t] = buffer[c]]
                 /\ overdue' = overdue \ {t}
                 /\ all_tasks_completed' =
                      (all_tasks_completed \/ check_all_completed(completed'))
  /\ Unlock
  /\ Goto(c, "timeoutWait")
  /\ UNCHANGED <<assigned_to, active_clients, main, handler, sigchld,
                 buffer, client, net>>

(* exit, or recv returned 0. *)
ChildReleases(c) ==
  /\ pc[c] = "release"
  /\ Release(c)
  /\ Unlock
  /\ Exit(c, "exited")
  /\ UNCHANGED <<control, main, handler, task_index, client, toCli>>

ChildTimeouts(c) ==
  /\ pc[c] = "timeout"
  /\ check_task_timeouts
  /\ Unlock
  /\ Goto(c, "recv")
  /\ buffer' = [buffer EXCEPT ![c] = NoTask]
  /\ UNCHANGED <<control, main, handler, sigchld, task_index, client, net>>

Child(c) == \/ ChildReceives(c) \/ ChildSeesClose(c) \/ ChildQuits(c) \/ ChildGets(c)
            \/ ChildCredits(c) \/ ChildReleases(c) \/ ChildTimeouts(c)
-----------------------------------------------------------------------------
(* A client: main of client.c. *)

ClientOnly == UNCHANGED <<sem, table, control, main, handler, sigchld, task_index, buffer>>

Connect(c) ==
  /\ cpc[c] = "start" /\ mpc \notin MainStopped
  /\ cpc' = [cpc EXCEPT ![c] = "request"]
  /\ link' = [link EXCEPT ![c] = "open"]
  /\ Goto(c, "backlog")
  /\ ClientOnly /\ UNCHANGED <<ctask, toSrv, toCli>>

(* The server's end of the connection is closed. *)
ServerClosed(c) ==
  \/ pc[c] \in Gone \union {"refused"}
  \/ pc[c] \in {"backlog", "accepted"} /\ mpc \in MainStopped

Send(c, m) == ~ServerClosed(c) /\ toSrv' = [toSrv EXCEPT ![c] = Append(@, m)]

ClientRequests(c) ==
  /\ cpc[c] = "request"
  /\ Send(c, [type |-> "GET_TASK", task |-> NoTask])
  /\ cpc' = [cpc EXCEPT ![c] = "await"]
  /\ ClientOnly /\ UNCHANGED <<pc, ctask, link, toCli>>

(* Not in client.c: the misbehaviour of section 1 of the readme. *)
ClientRepeats(c) ==
  /\ c \in Impatient /\ cpc[c] = "await"
  /\ Len(toSrv[c]) + Len(toCli[c]) < MaxQueued
  /\ Send(c, [type |-> "GET_TASK", task |-> NoTask])
  /\ ClientOnly /\ UNCHANGED <<pc, client, link, toCli>>

(* recv again returns all that has arrived and only the first reply counts. *)
ClientReads(c) == \E k \in 1..Len(toCli[c]) :
                    toCli' = [toCli EXCEPT ![c] = SubSeq(@, k + 1, Len(@))]

ClientTakesTask(c) ==
  /\ cpc[c] = "await"
  /\ ClientReads(c)
  /\ Head(toCli[c]).type = "Task"
  /\ ctask' = [ctask EXCEPT ![c] = Head(toCli[c]).task]
  /\ cpc' = [cpc EXCEPT ![c] = "compute"]
  /\ ClientOnly /\ UNCHANGED <<pc, link, toSrv>>

ClientAnswers(c) ==
  /\ cpc[c] = "compute"
  /\ Send(c, [type |-> "RESULT", task |-> ctask[c]])
  /\ cpc' = [cpc EXCEPT ![c] = "request"]
  /\ ctask' = [ctask EXCEPT ![c] = NoTask]
  /\ ClientOnly /\ UNCHANGED <<pc, link, toCli>>

(* Closing with unread data, or with data still on its way, resets the     *)
(* connection; the reset may overtake the FIN or follow it.                *)
Close(c, unread) ==
  /\ cpc' = [cpc EXCEPT ![c] = "done"]
  /\ \E l \in IF unread = <<>> THEN {"fin"} ELSE {"rst", "finrst"} :
       link' = [link EXCEPT ![c] = l]

ClientLeaves(c) ==
  /\ cpc[c] = "await"
  /\ toCli[c] # <<>> /\ Head(toCli[c]).type = "None"
  /\ Send(c, [type |-> "exit", task |-> NoTask])
  /\ toCli' = [toCli EXCEPT ![c] = <<>>]
  /\ Close(c, Tail(toCli[c]))
  /\ ClientOnly /\ UNCHANGED <<pc, ctask>>

(* The client crashes or closes the connection arbitrarily. *)
ClientCloses(c) ==
  /\ cpc[c] \in {"request", "await", "compute"} /\ ~ServerClosed(c)
  /\ Close(c, toCli[c])
  /\ toCli' = [toCli EXCEPT ![c] = <<>>]
  /\ ctask' = [ctask EXCEPT ![c] = NoTask]
  /\ ClientOnly /\ UNCHANGED <<pc, toSrv>>

(* recv returns 0 or an error, or a send fails, or the client crashes      *)
(* after the server has closed.                                            *)
ClientSeesClose(c) ==
  /\ cpc[c] \in {"request", "await", "compute"} /\ ServerClosed(c)
  /\ cpc' = [cpc EXCEPT ![c] = "done"]
  /\ toCli' = [toCli EXCEPT ![c] = <<>>]
  /\ ctask' = [ctask EXCEPT ![c] = NoTask]
  /\ ClientOnly /\ UNCHANGED <<pc, link, toSrv>>

Client(c) == \/ Connect(c) \/ ClientRequests(c) \/ ClientRepeats(c) \/ ClientTakesTask(c)
             \/ ClientAnswers(c) \/ ClientLeaves(c) \/ ClientCloses(c) \/ ClientSeesClose(c)

(* 30 seconds pass since the assignment of t. *)
TaskAges(t) ==
  /\ assigned_to[t] # NoPid /\ ~completed[t] /\ t \notin overdue
  /\ overdue' = overdue \union {t}
  /\ UNCHANGED <<sem, assigned_to, completed, answer, control, main, handler, sigchld,
                 child, client, net>>
-----------------------------------------------------------------------------
Next ==
  \/ MainLock \/ Main
  \/ SignalArrives \/ HandlerLock \/ Handler
  \/ \E c \in Clients : ChildLock(c) \/ Child(c) \/ Client(c)
  \/ \E t \in Tasks : TaskAges(t)

Spec == Init /\ [][Next]_vars

(* The kernel serves semop callers in order, so a process that asks for    *)
(* the semaphore again and again obtains it (strong fairness); every other *)
(* step of a server process and the delivery of the signal happen once     *)
(* enabled (weak fairness).  Nothing is assumed of the clients.            *)
Fairness ==
  /\ WF_vars(Main) /\ SF_vars(MainLock)
  /\ WF_vars(SignalArrives) /\ WF_vars(Handler) /\ SF_vars(HandlerLock)
  /\ \A c \in Clients : WF_vars(Child(c)) /\ SF_vars(ChildLock(c))

FairSpec == Spec /\ Fairness
-----------------------------------------------------------------------------
(* The table as a pool of tasks (module TaskPool): the processes, the      *)
(* semaphore, the signal and the messages implement its steps.             *)
holderOf == [t \in Tasks |-> IF completed[t] THEN NoPid ELSE assigned_to[t]]
doneSet  == {t \in Tasks : completed[t]}

Pool == INSTANCE TaskPool WITH Nobody <- NoPid, holder <- holderOf,
                               done <- doneSet, given <- task_index

(* Every step of the server moves tasks as TaskPool allows                 *)
(* (server.c:96-147, 183-190, 251-347).                                    *)
ImplementsPool == Pool!PoolSpec

(* Every variable keeps its type; in particular the semaphore is never     *)
(* released twice (server.c:70-83).                                        *)
TypeOK ==
  /\ sem \in 0..1
  /\ assigned_to \in [Tasks -> Clients \union {NoPid}]
  /\ completed \in [Tasks -> BOOLEAN]
  /\ overdue \subseteq Tasks
  /\ answer \in [Tasks -> Tasks \union {NoTask}]
  /\ active_clients \in Int /\ all_tasks_completed \in BOOLEAN
  /\ mpc \in {"check", "fork"} \union MainWaits \union MainCS \union MainStopped
  /\ eintr \in BOOLEAN /\ sigchld \in BOOLEAN
  /\ hpc \in {"off", "reap", "lock", "in"}
  /\ hpid \in Clients \union {NoPid}
  /\ reaped \subseteq Clients
  /\ pc \in [Clients -> {"recv"} \union ChildWaits \union ChildCS
                        \union Gone \union Unserved]
  /\ task_index \in [Clients -> Tasks \union {NoTask}]
  /\ buffer \in [Clients -> Tasks \union {NoTask}]
  /\ cpc \in [Clients -> {"start", "request", "await", "compute", "done"}]
  /\ ctask \in [Clients -> Tasks \union {NoTask}]
  /\ link \in [Clients -> {"none", "open", "fin", "rst", "finrst", "closed"}]
  /\ toSrv \in [Clients -> Seq(Requests)]
  /\ toCli \in [Clients -> Seq(Replies)]

(* At most one process is between lock_queue and unlock_queue, and the     *)
(* semaphore is 0 exactly then; the handler counts as a process of its own.*)
OnlyOne(p, q) == ~(p /\ q)
MutualExclusion ==
  /\ sem = 0 <=> MainHolds \/ HandlerHolds \/ \E c \in Clients : ChildHolds(c)
  /\ OnlyOne(MainHolds, HandlerHolds)
  /\ \A c \in Clients : OnlyOne(ChildHolds(c), MainHolds \/ HandlerHolds)
  /\ \A c, d \in Clients : ChildHolds(c) /\ ChildHolds(d) => c = d

(* A client never holds two unfinished tasks, whatever it sends and        *)
(* whichever of its tasks time out (server.c:255-283, readme section 1).   *)
OneTaskPerClient ==
  \A c \in Clients : \A t, u \in Held(c) : t = u

(* An unfinished task that is assigned belongs to a child that is alive or *)
(* whose death the handler has still to act upon: no task is left with a   *)
(* pid that nobody will look at again (server.c:118-147).                  *)
Accountable(c) ==
  \/ Live(c)
  \/ c \in Zombies
  \/ c = hpid /\ hpc \in {"lock", "in"}
NoTaskLost == \A c \in Clients : Held(c) # {} => Accountable(c)

(* While there is a dead child that was not reaped, a SIGCHLD is pending   *)
(* or the handler is still to call waitpid again: deaths during the        *)
(* handler, and deaths that share one signal, are not forgotten            *)
(* (server.c:118-147).                                                     *)
NoZombieForgotten == Zombies # {} => sigchld \/ hpc # "off" \/ mpc \in MainStopped

(* The value printed as the result of a task is the value of its own       *)
(* expression, for clients that follow client.c: late results, reassigned  *)
(* tasks and stale task_index values never credit the wrong task           *)
(* (server.c:308-333).                                                     *)
RightAnswer == \A t \in Tasks : completed[t] => answer[t] = t

(* active_clients counts the children whose death has not been handled and *)
(* the one main is about to fork or failed to fork, until main dies in     *)
(* lock_queue (server.c:129, 520-535).                                     *)
Counted == {c \in Clients : pc[c] \notin Unserved /\ c \notin reaped}
ActiveClientsExact ==
  mpc # "crashed" =>
    active_clients = Cardinality(Counted)
                     + (IF hpc \in {"lock", "in"} THEN 1 ELSE 0)
                     + (IF mpc \in {"fork", "decWait", "dec"} THEN 1 ELSE 0)

(* The normal shutdown kills no session and leaves no task undone, though  *)
(* its test reads both control fields without the semaphore                *)
(* (server.c:498-501, 364).                                                *)
CleanShutdown ==
  [][mpc' = "terminated" /\ mpc # "terminated" =>
       /\ \A c \in Clients : ~Live(c)
       /\ \A t \in Tasks : completed[t]]_vars

(* A wedged server makes no more promises: main died in lock_queue with    *)
(* EINTR, main's handler waits for the semaphore main itself holds, or a   *)
(* child was killed by SIGPIPE while holding it.                           *)
Wedged ==
  \/ mpc = "crashed"
  \/ hpc = "lock" /\ MainHolds
  \/ \E c \in Clients : pc[c] = "killed"

(* The task of a child that died returns to the queue or is completed by   *)
(* somebody, unless the server is wedged: these are the only ways out of   *)
(* the promise of readme section 4 (server.c:118-147).                     *)
Orphaned(t) == \E c \in Clients : pc[c] \in Gone /\ t \in Held(c)
DeathReleases == \A t \in Tasks : Orphaned(t) ~> (~Orphaned(t) \/ Wedged)

(* Once all tasks are completed the server terminates, even if clients     *)
(* hang, because the idle limit ends their sessions; again unless it is    *)
(* wedged (server.c:205-208, 498-501).                                     *)
ServerTerminates ==
  (Tasks # {} /\ \A t \in Tasks : completed[t]) ~> (mpc = "terminated" \/ Wedged)

(* Readme section 4: the SIGCHLD handler "detects this termination and     *)
(* releases any tasks assigned to that client".                            *)
ReadmeDeathReleases ==
  \A c \in Clients, t \in Tasks :
    (pc[c] \in Gone /\ cpc[c] = "done" /\ t \in Held(c)) ~> t \notin Held(c)
=============================================================================
