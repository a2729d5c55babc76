------------------------------ MODULE TaskPool ------------------------------
(***************************************************************************)
(* What the task-queue server of LA5 promises about tasks, without         *)
(* processes, locks, signals or messages: an unfinished task has at most   *)
(* one holder, passes from one holder to another only through the pool, is *)
(* handed only to a client that holds nothing, and is finished only by a   *)
(* client to which it is or was last handed; a finished task stays so.     *)
(***************************************************************************)
CONSTANTS Clients, Tasks, Nobody, NoTask

VARIABLES
  holder,   \* task -> the client that holds it unfinished, or Nobody
  done,     \* the finished tasks
  given     \* client -> the task it was last handed, or NoTask

poolVars == <<holder, done, given>>

PoolInit ==
  /\ holder = [t \in Tasks |-> Nobody]
  /\ done = {}
  /\ given = [c \in Clients |-> NoTask]

(* A free task is handed to a client that holds none. *)
Assign(c, t) ==
  /\ t \notin done /\ holder[t] = Nobody
  /\ \A u \in Tasks : holder[u] # c
  /\ holder' = [holder EXCEPT ![t] = c]
  /\ given' = [given EXCEPT ![c] = t]
  /\ UNCHANGED done

(* The task a client still holds is handed to it once more. *)
HandAgain(c, t) ==
  /\ holder[t] = c
  /\ given' = [given EXCEPT ![c] = t]
  /\ UNCHANGED <<holder, done>>

(* A client is told that there is no task: every other one is held or done.*)
Refuse(c) ==
  /\ \A t \in Tasks : t \in done \/ holder[t] \notin {Nobody, c}
  /\ given' = [given EXCEPT ![c] = NoTask]
  /\ UNCHANGED <<holder, done>>

(* Tasks of dead, leaving or slow clients go back to the pool. *)
Return(S) ==
  /\ holder' = [t \in Tasks |-> IF t \in S THEN Nobody ELSE holder[t]]
  /\ UNCHANGED <<done, given>>

(* A client finishes the task it holds; or, late, the one it was given last*)
(* and that was taken from it, provided it holds no other.                 *)
Complete(c, t) ==
  /\ \/ holder[t] = c
     \/ given[c] = t /\ \A u \in Tasks : holder[u] # c
  /\ holder' = [holder EXCEPT ![t] = Nobody]
  /\ done' = done \union {t}
  /\ given' = [given EXCEPT ![c] = t]

PoolNext ==
  \/ \E c \in Clients, t \in Tasks : Assign(c, t) \/ HandAgain(c, t) \/ Complete(c, t)
  \/ \E c \in Clients : Refuse(c)
  \/ \E S \in SUBSET Tasks : Return(S)

PoolSpec == PoolInit /\ [][PoolNext]_poolVars
=============================================================================
