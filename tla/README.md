# Verification of the network programs of CNlab_CS39006

The repository holds the solutions of a computer networks laboratory in C. Six of them
are small distributed systems with real concurrency, an unreliable network or a stream protocol that is easy to get wrong. This project models
those six in TLA+, checks them with TLC and proves every safety property that the passing runs check, for all values of the constants, with TLAPS.
References of the form `LA5/server.c:128` are relative to `src/`.

## 1. Inventory

| Part | State it keeps | Operations | What is hard | What makes it correct |
|---|---|---|---|---|
| **LA5 task-queue server** (`server.c`) | task table and two counters in shared memory, one semaphore, one child process per client | accept and fork, SIGCHLD handler, `GET_TASK` / `RESULT` / `exit`, task and session timeouts, shutdown | a signal handler that takes the same lock as the code it interrupts; EINTR; SIGPIPE in a critical section; coalesced messages and signals; late results of reassigned tasks; an unlocked shutdown test | mutual exclusion; a task is held by one client and a client by one task; no task is stuck with a dead client; results are credited to their own task; the client counter is exact; clean shutdown |
| LA5 client (`client.c`) | socket, a waiting flag | ask, compute, answer, exit | may crash anywhere | follows the protocol of the server |
| **LA4.0 KTP library** (`ksocket.c`) | per socket `next_seqno`, `last_ackno`, `exp_seqno` | `k_socket`, `k_bind`, `k_sendto`, `k_recvfrom`, `k_close` | loss, duplication, reordering, a one-byte sequence number, acks of acks | exactly-once in-order delivery; a returned `k_sendto` means delivery |
| LA4.0 programs (`user1.c`, `user2.c`) | the file position | send all chunks and `#`; receive up to `#` | closing while the last ack is lost | the file arrives |
| **LA6 mail server** (`mysmtp_server.c`) | per thread: `state`, `email_domain`, `sender`, `recipient`; mailbox files | HELO, MAIL FROM, RCPT TO, DATA, LIST, GET_MAIL, QUIT | descriptor passed by address to the thread; concurrent appends; writes that fail unnoticed; refused commands that leave traces | stored mail has a checked sender; what was answered 200 is stored; mail numbers are stable; every command is answered once |
| LA6 client (`mysmtp_client.c`) | socket | one command, one response | may leave at any time | one outstanding command |
| **LA7 CLDP client** (`cldp_client.c`) | list of up to 64 servers, the current transaction | listening window, query round, clean-up, summary | late, lost, duplicated answers; list changed while a round is on | a round counts only its own answers and keeps the servers it heard |
| LA7 CLDP server (`cldp_server.c`) | time of its last announcement | announce, answer | | answers carry the id of their query |
| **LT1 number rounds, set B** (`LT1_22CS10082_B/chatserver.c`, `chatclient.c`) | table of clients, one number per client and round | select loop: accept, read a number, end a round | one loop for all: starvation at a full table; clients that leave in a round; numbers received together or cut in two; duplicates | a round counts one number per member and ends with the maximum; nobody holds up the others |
| **LA3 encryption service** (`doencfileserver.c`, `retrieveencfileclient.c`) | per child: key, temporary file; client: file, key, reply | fork per client, receive key and file, encrypt, send back, ask for another | a byte stream without boundaries searched for a marker; losing one's place in it; failed `fopen` in the middle; a full disk | the right file comes back under the right key; nobody waits for ever; no child stays behind |
| LT1 chat relay, set A | table of clients | select loop that forwards lines | as set B, without rounds | |
| LA2 word transfer | file position | request / reply over UDP | no retransmission | words in order |
| LT2 echo server | list of sockets | non-blocking echo | | echo is complete |
| tutorials, captures, PDFs | | | | not part of the programs |

Interaction: the LA5 processes share memory and a semaphore and get SIGCHLD, and talk to the clients over
TCP; the LA4 library is called by two processes over UDP; the LA6 threads share the accept
loop's variable, the descriptor table and the mailbox files; the CLDP nodes exchange raw IP datagrams. The LT1 server serves all its clients from one process; an LA3 child and its client share a connection and nothing else. The six
systems do not interact with each other, so no module composes two of them; within
each, one module composes all its actors.

The hazards of the code, each at its line and with the properties that would notice it, are in
`PROJECT.json` under `hazards`.

## 2. Modules

| Module | Models |
|---|---|
| `TaskPool` | abstract: tasks are handed out, handed back and finished |
| `TaskQueue` | LA5: main, SIGCHLD handler, children, clients, connections |
| `MCTaskQueue` | finite instances of `TaskQueue` |
| `TaskQueueProof` | theorems about `TaskQueue` |
| `AnswerProof` | the theorem that results go to their own tasks, with its invariant on the messages of each connection |
| `ReliableTransfer` | abstract: a file is delivered chunk by chunk |
| `Ktp` | LA4.0: two KTP sockets, the network, `user1` and `user2` |
| `MCKtp`, `KtpProof` | its instances, its theorems |
| `Smtp` | LA6: accept loop, threads, mailbox files, clients |
| `MCSmtp`, `SmtpProof` | its instances, its theorems |
| `Cldp` | LA7: servers, network, client |
| `MCCldp`, `CldpProof` | its instance, its theorems |
| `NumberRounds` | abstract: each member gives one number, the round ends with the largest |
| `Rounds` | LT1 set B: the select loop, the connections, the clients |
| `MCRounds`, `RoundsProof` | its instance, its theorems |
| `EncFile` | LA3: a client, the child forked for it, the byte stream between them |
| `MCEncFile`, `EncFileProof` | its instance, its theorems |

### 2.1 TaskQueue (LA5)

*Processes.* Main, its signal handler and one child per client each have a control point
(`mpc`, `hpc`, `pc[c]`). A step ends where another process could see a difference: at `lock_queue`,
at `unlock_queue`, at `recv`, at `fork`, at the unlocked shutdown test. What a process does inside its
critical section is one action (`MainTimeouts`, `HandlerReleases`, `ChildGets`, `ChildCredits`,
`ChildReleases`, ...), since everything it touches there is guarded by the semaphore; the taking of the semaphore is an
action of its own, so that everything else, the handler included, can happen while the section is open. The shutdown
test and the `accept` after it are one step at control point `check`: the test
reads values that are stable once it is true (proved below), and `accept` commutes with the steps of others. Leaving the loop,
`close` and `exit(0)` of a child are one step, `Exit`: nothing shared is touched between them.
A client connects once, so a client, its connection and its child have one name.

*The signal.* `sigchld` is the pending bit, so several deaths may give one signal. The handler runs
inside main: main's actions need `hpc = "off"`. It may start anywhere, also while main is in its
critical section (then it waits for a semaphore that main cannot release) and while main sleeps in
`semop`. `semop` is never restarted after a handler, so `eintr` records that it
will fail; then `lock_queue` calls `exit(1)`: `mpc = "crashed"`. The handler is installed with `signal()`, which on
Linux blocks SIGCHLD during the handler.

*TCP.* `link[c]` is what the child's socket knows: `open`, `fin` (client closed), `rst` (reset
received), `finrst` (closed, and a reset has followed). Sending to `fin` succeeds and provokes a reset, sending
to `rst` fails, sending to `finrst` raises SIGPIPE, which nobody handles: the child dies inside the critical section and, as the
operations have no `SEM_UNDO`, keeps the semaphore (`pc[c] = "killed"`). `recv` returns the
first one or more messages and only the first is looked at, as the `strncmp` chain does.

*Abstractions.* An expression is the number of its task and a result is known by the expression it
was computed from. Time is abstract: `TaskAges` may make an assigned task overdue at any moment, and the idle limit of 60
seconds may strike whenever a child polls. `Impatient` clients repeat `GET_TASK`; they
are not in `client.c`, section 1 of `LA5/readme.md` describes them. Of the flags
`assigned` and `assigned_to` one is kept, because every assignment sets both.

### 2.2 Ktp (LA4.0)

`mode[e]` is the call endpoint `e` is in. One iteration of the loop of `k_sendto` or
`k_recvfrom` is one action: a datagram dropped by `dropMessage`, accepted, or ignored;
an iteration of `k_sendto` that does not end the call ends with the `sendto` of the next one, so `Resend` and
`SendIgnores` transmit. The network is a set: reordering comes from choosing any element, duplication from
leaving a copy behind, loss from `Lose`. `Header` is the assignment of an int to a signed `char`; both ends compare the
char with the int. A file is its number of packets and the position of the first packet that contains a `#`, which is where
`user2` stops.

### 2.3 Smtp (LA6)

The accept loop has two steps, so that `client_socket` may change between `pthread_create` and the first
instruction of the thread (`ThreadStarts`). A thread takes one command and carries it out in one action, except DATA:
opening the file creates it, the buffered text is written when the file is closed, and the answer is sent
after that (`OpensMailbox`, `WritesMessage`, `AnswersStored`). A sender is known by its domain; a member of `Others` stands for an address
without `@` or of a domain nobody gives in HELO. The failure codes are one. A mailbox is a sequence of messages. `store_email` ignores what `fprintf` and `fclose`
return, so a write may also fail (`WriteFails`): nothing, or a piece of the message (`Torn`), is then in the file, and the thread answers 200 as ever. A piece hides the first line of the
message behind it or has one of its own, so `GET_MAIL` may count a message more or less there (`Intact`). A `Torn` piece at the end is also what a kill in the middle of
the write leaves. `acked`, `failed` and `refused` are history variables.
`Restart` is the server process killed at any point and started again: `mailbox/` survives, the sessions, the connections and a
message that was not yet written do not.

### 2.4 Cldp (LA7)

The client's table is the sequence `server_list` of addresses and `active` flags. A round is `SendQueries`, any number of
`WaitReceives`, `WaitEnds`. Sending the queries is one step, since the client reads nothing until all are sent.
The age test of `cleanup_server_list` is left out: all entries are made inactive before a round and an entry
that is active at its end was refreshed within the last seconds, so the test never decides. Its loop over the array is a recursive
function on the position reached (`kept`). Servers keep nothing a client
could notice, so a server that stops is one whose packets are lost. `queried`, `served`, `answered`, `heard`, `doubled` and
`timedout` are the history of a round.

### 2.5 Rounds (LT1 set B)

`SelectReturns` is `select` with the `accept` that may follow it, `ReadsClient` one iteration of the loop over the table, `EndsRound` the
end of an iteration of the server's loop in which the round has become complete. `curfds` is what `select` found readable and the loop has still to
read, so what clients do while the loop is under way is not seen before the next `select`. With the table full and a connection pending the loop goes back to
`select` and changes nothing, so the server is then disabled: this is the starvation at line 59.
`link` is what the server's socket knows of its client, as in `TaskQueue`: after a client has left, a reset comes at once if the client had data unread, else after the
next send; a send after that raises SIGPIPE and ends the server (`alive`). `recv` returns any number of the numbers at hand and `sscanf` reads the first of
them; with nothing at hand `nn` is uninitialised: any number a client might have sent, or none. A client that has left is never removed from the table and stays readable.
`printed` is the line with the result, kept until the next number or member. `typed` and `cut` are history.

The bytes of a connection are the numbers in `inbox`, and `rest` says whether the end of a number whose beginning was received comes before them. A `recv` takes any part of this (`Recv`): the
rest, any number of whole numbers, and perhaps a part of the next, because of the size of the buffer (line 79) or of TCP's segments. A number received whole and first is the one `sscanf` reads. What it
reads of a part may be any number or none at all (`Garbage`, an over-approximation): the first digits, the last digits, or a lone NUL, for which `nn` stays uninitialised. A number is cut once at
most, and its rest is at hand at once; that it comes late only means that `select` sees it later. A connection that is reset without a close (`reset`) fails the next `recv` or `send` with
ECONNRESET, without a signal; the send after that raises SIGPIPE.

### 2.6 EncFile (LA3)

`c2s` and `s2c` are the two directions of the connection as sequences of the pieces that were sent. A `recv` takes any
number of them, which is all that TCP promises; the marker is seen only at the head of what it took. Text cut in two is joined again by the file it is written to, so
only pieces that mean something are ever cut: when a buffer is filled by text taken for a key or by an answer with more behind it, the rest of the last
piece is `Junk`. Three texts are told apart: ordinary text, the marker, and the text that a key turns into the marker (`Preimage`); `encrypt` is
injective apart from that one. `trouble` collects the five things the protocol does not survive, so that the properties can say that nothing else harms it. One of them is a full disk: the results of `fprintf`, `fputc`
and `fclose` are ignored, and the end of the text is lost (`LosesText`; that the temporary file is cut or only the encrypted one makes no difference to what is sent back, so both are cut in `Encrypts`). When the child
cannot open a file it goes back to wait for a key, whatever the client is doing. What an exited client has not read, and its variables, are dropped.
Connections share nothing (the names of the temporary files contain address and port), so one is modelled; the parent's `accept` and `fork` are `Forks`.

## 3. Runs

| Run | Instance | Properties | Shows |
|---|---|---|---|
| `task_queue_safety` | 2 clients, 2 tasks | `TypeOK`, `MutualExclusion`, `NoTaskLost`, `NoZombieForgotten`, `RightAnswer`, `ActiveClientsExact`, `CleanShutdown`, `ImplementsPool` | 0.9 M states: the table, lock and counters are right in every interleaving, and the whole implements `TaskPool` |
| `task_queue_impatient` | 1 impatient client, 2 tasks, 3 messages | `MutualExclusion`, `OneTaskPerClient`, `ServerTerminates` | repeated requests, coalesced messages and SIGPIPE; once all tasks are done the server ends, unless wedged |
| `task_queue_liveness` | 2 clients, 1 task | `DeathReleases` | the task of a dead child comes back unless the server is wedged |
| `task_queue_wedge` | as above | `ReadmeDeathReleases` | **violated**: the readme's promise fails when SIGCHLD interrupts main in its critical section |
| `ktp_file` | files of up to 4 packets, CHAR_MAX 3 | `TypeOK`, `StopAndWait`, `AckMeansDelivered`, `CharLimit`, `ImplementsTransfer`, `TransferCompletes` | in-order exactly-once delivery, and where it must stop |
| `ktp_duplex` | both ends send and receive, 2 packets | `AckMeansDelivered` | **violated**: an ack is acknowledged and taken for the ack of data |
| `smtp_safety` | 2 clients, 1 domain and foreign addresses, 1 mailbox, 2 mails of which 1 may fail to be written, restarts of the server | `TypeOK`, `SenderChecked`, `OnePlace`, `AckedIsStored`, `IdsStable` | 1.1 M states: also with two threads on one socket, and over a kill and restart; concurrent appends, a failed one and a kill cost no message but one whose own write failed, and renumber none |
| `smtp_sender` | 1 client, 2 domains | `DomainMustMatch` | **violated**: a refused sender is stored |
| `smtp_thread` | 2 clients | `DedicatedThread` | **violated**: two threads on one connection |
| `cldp_rounds` | 3 servers, table of 2, 2 ids | `TypeOK`, `DistinctAddresses`, `FreshAnswers`, `RoundKeepsHeard`, `EarlyEndIsComplete`, `SummaryCounts` | any number of rounds over a bad network, and when the printed summary is the right one |
| `rounds` | 3 clients, table of 2, numbers 1 and 2, 3 sends | `TypeOK`, `CountedWasSent`, `ImplementsRounds`, `NumbersAreRead`, `RoundEnds` | 0.3 M states: implements `NumberRounds`, what is counted was sent unless it was cut, a number is read and a full round ends unless the server starves, SIGPIPE has ended it, or a number was cut |
| `encfile` | 2 keys, 2 files of 2 pieces together | `TypeOK`, `SavedIsEncrypted`, `NeverBothWait`, `Answered`, `ChildEnds` | 0.2 M states: right file, an answer, nobody waits for a partner that waits, no child left behind; the five cases in `trouble` are the only exceptions |

*Bounds.* Two clients suffice for every pairwise race on a task, the lock and the counters, with main and its handler as
further processes; the theorems remove this bound. Two tasks are needed for a stale `task_index` and for a
task that passes on. `MaxQueued` bounds only the messages of impatient clients; three let one `recv` return several.
`CharMax = 3` with four packets makes the sequence number wrap as 127 does with 128. `MaxMails = 2` lets two threads append to one
file, and `MaxFails = 1` puts a whole message before or behind a torn one. There is one HELO domain in the passing runs, so that a session that
identifies itself anew under another domain is covered by the theorem `StoresCheckedSenders` only. A table of two with three servers fills up and makes room again; two ids make
answers of an earlier round arrive in a later one. Three clients for a table of two fill it and leave one waiting; three sends allow a
round and a duplicate, two numbers received together, or a number cut in two with another behind it.
The bound on the sends also ends duplicates, which helps `NumbersAreRead`: that a client's numbers are all read at some time is checked for finitely many of them. A client that joins in the middle of a round needs a table of three, which the
theorem covers. Two files let the second be shorter than the first, or empty, and come under another key. Symmetry is used only in runs without liveness. In `rounds` the constraint
`InOrder` takes its place: clients differ only in their names and `accept` takes connections in the order in which they were made, so the first to connect may be called `c1`, the next `c2`.
It cuts off steps of clients and the `accept` of a later connection before an earlier one; a server that has a step keeps one, so fairness means what it says.

The view `Live` of `smtp_safety` leaves out what is overwritten before it is read again, so states that differ in nothing else have the same future: stale addresses of a session, the accept
loop's variable once every thread has read it, and which code an answer carries.

*Deadlock.* The check is off for LA5, LA4, LA6, LT1 and LA3: their programs may stop (normal termination, a crash in `lock_queue`, closed
sockets, clients that have left, a starving server). It is on for LA7.

*Fairness.* `TaskQueue`: the kernel wakes `semop` callers in the order they came, so whoever asks again
and again gets the semaphore (strong fairness of the `Lock` actions); every other step of a server process and the
delivery of the signal happen once they can (weak fairness). Nothing is assumed of clients: they may hang for ever.
The idle limit that then ends their session is part of the child's weak fairness. `Ktp`: the programs and their timeouts run on (weak fairness); a
packet that is sent for ever is handled at some time, as `dropMessage` discards with probability 0.1 and the network does
not discard everything (strong fairness of accepting a packet). `Rounds`: the server's loop goes on (weak fairness of `Server`); clients may be silent for ever. `EncFile`: the child
and the client program run on (weak fairness of `Server` and `ClientRuns`); the user may never answer and never leave. No fairness is used in `Smtp` and `Cldp`.

## 4. What disagrees with the documents

1. **LA5, `server.c:128`.** The SIGCHLD handler locks a semaphore its own process may hold and waits for ever.
   Two more ways to wedge are found by the same model and named in `Wedged`: `exit(1)` after EINTR in
   `lock_queue`, and SIGPIPE in a critical section. `DeathReleases` and `ServerTerminates` show that these three are the only ones.
2. **LA4.0, `ksocket.c:264`.** `k_recvfrom` acknowledges acks. With traffic in both directions `k_sendto` returns for
   a packet that was not delivered. The programs in the repository send one way only, for which the property is proved.
3. **LA6, `mysmtp_server.c:161`.** A refused MAIL FROM replaces the sender of an earlier granted one.
4. **LA6, `mysmtp_server.c:114`.** The thread reads the accept loop's variable too late.

Observations that are stated as the exceptions of properties:

- **LA7, `cldp_client.c:356`.** The total of the summary is computed after the clean-up, so with silent servers it is not the number of
  servers queried: one queried without an answer prints `[0/0]`, two with one answer `[1/1]`. `SummaryCounts` says what the two numbers are and when they are
  those of the sessions in the readme.
- **LA4.0.** A KTP transfer ends at packet 127 (`CharLimit`, `TransferCompletes`), and its sender may stay for ever when the ack of the last packet is lost.
- **LT1, `chatserver.c:59`.** One client too many starves all others (`Starving`); line 131: a departed client ends the server at its second send;
  line 96: for a departed client an uninitialised number is counted, so the maximum of a round may be one nobody sent; line 79: a number cut by `recv` counts as two, of which neither need be what a
  client that is still connected has sent, the second one for a later round perhaps (`cut`, the exception of `CountedWasSent` and `RoundEnds`).
- **LA6, `mysmtp_server.c:266`.** `store_email` does not look at what `fprintf` and `fclose` return, so a message that was not written, or only in part, is answered `200 Message stored successfully`. This is
  the `failed` in `AckedIsStored`, which shows that nothing but its own failed write loses a message that was acknowledged.
- **LA6, `mysmtp_server.c:116`.** When `pthread_create` fails, the accept loop closes a socket another thread may be serving; the command in the hands of that thread is never answered. This is why
  `OnePlace` asks for an open connection.
- **LA6.** Behind a torn message LIST, which skips the two lines after a first line, and GET_MAIL, which does not, may count differently; `IdsStable` speaks of the place in the file.
- **LA3.** An empty answer to "another file?" sends nothing, and the server takes the next key for the answer (`retrieveencfileclient.c:156`);
  a marker received behind the last text is not seen (`doencfileserver.c:91`); after a failed `fopen` text is taken for a key (line 81); a full disk shortens the file that is sent back, with its marker (lines 98-121). When the connection
  ends early the client still announces success (`retrieveencfileclient.c:143`), which is why `SavedIsEncrypted` asks for `ended`.

## 5. Proofs

The seven proof modules prove their theorems for every value of the constants that meets the ASSUMEs. The bounds of the runs (`MaxMails`, `MaxFiles`,
`MaxPieces`, `MaxSends`, ...) remain as constants of the modules, so the theorems hold for every value of them. Each module has the same shape: lemmas about its operators,
an inductive invariant `IInv` with one lemma per action, `THEOREM Invariance`, and the theorems that follow from it. TLC checked each `IInv` on the instance of the
component's run before it was proved.

**TaskQueueProof**: any finite set of clients, any number of tasks. The inductive invariant is
`IInv == TypeOK /\ MutualExclusion /\ Bookkeeping /\ ActiveClientsExact`. None of its parts is inductive alone: `sem` stays in `0..1` only because
whoever unlocks is the one holder; there is one holder only because a dead child cannot act, which needs that reaped pids are
dead (`Bookkeeping`); the counter is exact only because the handler works on a pid that was reaped and not yet
counted. From it follow

- `Types`, `Exclusion`, `ExactCount`: its conjuncts;
- `TerminatesCleanly`: if the unlocked test succeeds, the counter is 0, so by exactness no child is alive, and the completion flag tells the truth;
- `OneTask`: an assignment needs `Held(c) = {}` and every other step only shrinks what a client holds (`TableStep`, `HeldStep`);
- `NothingLost`: a child that dies is accounted for until the handler has released its tasks (`AccountStep`);
- `DeathsAreNoticed`: every death leaves a pending SIGCHLD, and a handler that has taken it calls `waitpid` until there is no zombie (`ZombieStep`). With `NothingLost` this is
  the safety half of `DeathReleases`: what is left to liveness is that the handler gets the semaphore;
- `Refinement`: `Init` maps to `PoolInit`, a step to a step of `TaskPool` or a stutter.

**AnswerProof**: any finite set of clients, any number of tasks, under `Impatient = {}`: all clients wait for the reply to a `GET_TASK`, as `client.c` does.
A RESULT does not say which task it is the result of. That it is credited to the right one depends on what can be under way in a connection. `Orderly(c)` says it:
at most one request, one reply or one result is outstanding; a client's child holds no task but the one in its `task_index`; and whatever
task a reply, the client's computation, a RESULT on its way or the child's buffer speaks of is that one. `task_index` changes only while a `GET_TASK` is served, and then nothing else is
under way. So `CreditsTheRightTask`, although tasks time out, move to another client and are answered late by the first. The hypothesis is needed: on the instance of
`task_queue_impatient` TLC finds `RightAnswer` violated in a state where the reply to a repeated request has changed `task_index`.

**KtpProof**: any file length, any CHAR_MAX, under `OneWay` (one sender, one receiver), which is how `user1` and `user2` use the library and which
`ktp_duplex` shows to be needed. `IInv` adds to the types what every packet in the network may say (`NetInv`: a data packet
carries the cast of its number, an ack of the current number exists only once it is delivered), what the
sender and the receiver have counted, that the receiver is in step with the sender, and that neither gets beyond
`CHAR_MAX + 1` (because `Header(n) <= n`, a number above `CHAR_MAX` never equals a char). From it follow `Types`, `InStepAlways`,
`SentIsDelivered`, `NoMoreThanCharMax` and `Refinement` of `ReliableTransfer`.

**RoundsProof**: any clients, any numbers, any size of the table. `IInv` adds to the types that nobody is in the table twice, that unused positions hold
no number and that numbers are there only when two clients are (`TableInv`: without it a join could bring an old number into the
round, and one client could end it), and that inboxes hold what was typed and `select`'s findings are still true when they are read while a client is connected (`InboxInv`: only the
server takes from an inbox, which is what lets it call a blocking `recv` after `select`). `RecvShrinks` says what a `recv` that may cut a number leaves: only a number received whole and first is sure to be one that was
typed, which is why `CountsWhatWasSent` excepts the clients in `cut`. From it follow `Types`, `CountsWhatWasSent` and `Refinement`: an `accept` is a
`Join`, a number counted a `Give`, the end of a round a `Finish`, everything else a stutter (`AcceptJoins`, `ReadGives`, `EndFinishes`, `Stutters`).

**CldpProof**: any finite set of servers, any transaction ids, any size of the table. `IInv` adds to the properties themselves that a packet with the current
id is a query of a server that was asked or the answer of one that handled it (`NetInv`: a round takes an id that no packet in the network carries; with 65535
ids and packets that live for seconds the repetition that `rand()` allows is left aside); that there is no transaction between rounds (`BetweenRounds`); and that during a round nobody asked leaves the table, the active entries are
the servers heard and the counter counts the answers (`RoundInv`). `FreshAnswers` and `EarlyEndIsComplete` are not inductive without the first and the last.
The clean-up at the end is a loop over the table: what it keeps, in which order and how often, is proved by induction on the position, as a least
counterexample (`Least`, from the well-foundedness of `<` on the naturals), since an induction theorem with an operator as parameter cannot be used. From `IInv` follow `Types`,
`NobodyTwice`, `CountsFreshAnswers`, `KeepsWhomItHeard`, `EndsEarlyComplete` and `SummaryIsRight`.

**SmtpProof**: any finite set of clients, any domains and mailboxes, with restarts. `IInv` adds to the types that a thread's socket belongs to a client that
has connected, though perhaps not to the client it was created for (`SocketInv`); that a command is with the client, under way, in the hands of one thread or answered, in one of
these only (`CommandInv`: this is what keeps two threads on one socket from answering twice), and in one of them while the server has the connection open (`NoneLost`); that a session's state
promises its sender and recipient (`SessionInv`); and
that the whole messages of a mailbox and the failed writes account for what was acknowledged and what is stored without an answer yet (`StoreInv`: without the second, `AckedIsStored` is not inductive). From it
follow `Types`, `StoresCheckedSenders`, `LosesNoAckedMail`, `AnswersOnce` and the action property `NumbersStay`, for which `BoxGrows` shows that a step
leaves a mailbox alone or appends one message or a piece of one.

**EncFileProof**: any keys, any number and length of files. While `trouble` is empty and the client is there, `StreamInv` says where every piece of the
file is in each phase: on its way behind the key (`AtKey`), split between the temporary file and the stream (`AtRecv`), complete in the temporary file (`AtEncrypt`), split
between what the client has saved, what is on its way and what the child has still to send (`AtReply`), all sent (`AtChoice`). A `recv` of any number of pieces only moves
the boundary (`Splits`, `Moves`, `Joins`); that the receiver stops exactly at the marker needs that no text is a marker or encrypts to one (`Plain`, `MarkerEnds`). From it follow `Types`,
`SavesTheEncryptedFile` and `NoMutualWait`, the safety half of `Answered`: while the client waits for its reply the marker is either still on its way to the child (`temp` is a
prefix of the file, so the marker is not in it) or on its way back.

*Only model-checked*: all liveness (`DeathReleases`, `ServerTerminates`, `TransferCompletes`, `NumbersAreRead`, `RoundEnds`, `Answered`,
`ChildEnds`). The prover has no rules for fairness beyond propositional temporal logic and cannot reason about ENABLED, so these stay with TLC. The four violated properties are
shown by TLC's counterexamples.

## 6. Plan

Done, in this order: `TaskPool`, `TaskQueue` and its proofs, `ReliableTransfer`, `Ktp` and its proofs, `Smtp`, `Cldp`, `NumberRounds`, `Rounds` and
its proofs, `EncFile`, restarts in `Smtp`, `CldpProof`, `SmtpProof`, `EncFileProof`, `AnswerProof`, numbers cut in two in `Rounds`, failing writes in `Smtp` and `EncFile`.

To do:

1. An abstract specification of the LA3 exchange (a request, the encrypted file, another request), with `EncFile` shown to implement it while `trouble` is empty;
   `StreamInv` has what the refinement needs.
2. The safety halves of the other liveness properties as theorems, as `DeathsAreNoticed` and `NoMutualWait` are: for `Rounds` that a number at hand is always seen by the
   next `select` unless the server starves, for `Ktp` that a sender that waits has its packet or the ack in the network or can send again.

## 7. Not modelled

- LT1 set A (a relay of the same select-loop shape as set B without rounds), LT2 (an echo server without state across clients) and LA2 (strict
  request and reply of one client over UDP: nothing is interleaved, a lost datagram stops both sides): small programs whose behaviour is close to that of a modelled one.
- LA5: set-up errors and signals from an operator. The handler of SIGTERM runs in the children too and removes the shared segments under all
  others.
- LA4.0: the table of several sockets per process and the argument errors; each program of the repository uses one socket.
- LA6: the text format of mailboxes; a write in two parts with another thread's message between them (a message longer than a stdio buffer, or a short write that is continued); commands and responses split
  over several `recv`, so also a LIST longer than the client's buffer; reuse of descriptors; SIGPIPE.
- LA7: the metadata texts, IP headers, and time: a window without an announcement is one of the behaviours.
- LT1, LA3: set-up errors; what the clients print; a full disk on the side of the LA3 client; binary files, which `fprintf` with `%s` cuts at a zero byte.
- The captures, reports and tutorial programs.
