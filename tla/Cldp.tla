-------------------------------- MODULE Cldp --------------------------------
(***************************************************************************)
(* The discovery protocol of LA7: servers that announce themselves and     *)
(* answer queries, and the client that keeps a list of servers, queries    *)
(* all of them in rounds and drops those it did not hear from.  The        *)
(* packets are raw IP datagrams: they can be lost, duplicated, reordered   *)
(* and late.  Time is abstract: a server may announce itself at any moment *)
(* and the client may end a wait at any moment.                            *)
(***************************************************************************)
EXTENDS Integers, Sequences, SequencesExt, FiniteSets

CONSTANTS
  Servers,      \* addresses of the nodes that run a server
  TransIds,     \* transaction ids, rand() % 65535
  MaxServers    \* MAX_SERVERS

ASSUME ServersAssumption == IsFiniteSet(Servers) /\ TransIds # {}
ASSUME MaxServersAssumption == MaxServers \in Nat \ {0}

NoId == 0       \* a HELLO carries no transaction
ASSUME NoIdAssumption == NoId \notin TransIds

Packets == [type : {"QUERY", "RESPONSE"}, node : Servers, id : TransIds]
             \union [type : {"HELLO"}, node : Servers, id : {NoId}]

VARIABLES
  net,                  \* datagrams in flight or in a socket buffer; node is the server's end
  server_list,          \* the client's table
  phase,                \* what the client is doing
  trans_id, responses_received,    \* locals of query_all_servers
  summary,              \* the two numbers it printed at the end of the round
  queried, served, answered,       \* history of the round: asked; handled it; counted
  heard,                \* history of the round: answered or announced itself
  doubled, timedout     \* history of the round: counted twice; ended by the clock

round == <<queried, served, answered, heard, doubled, timedout>>
client == <<server_list, phase, trans_id, responses_received, summary>>
vars == <<net, client, round>>

Entry(s, a) == [addr |-> s, active |-> a]
server_count == Len(server_list)
Listed == {server_list[i].addr : i \in 1..server_count}

To(s, i)   == [type |-> "QUERY", node |-> s, id |-> i]
From(t, s, i) == [type |-> t, node |-> s, id |-> i]

(* A datagram that is received may have a copy still on its way. *)
Taken(m) == {net \ {m}, net}
-----------------------------------------------------------------------------
Init ==
  /\ net = {}
  /\ server_list = <<>> /\ phase = "listen"
  /\ trans_id = NoId /\ responses_received = 0 /\ summary = <<0, 0>>
  /\ queried = {} /\ served = {} /\ answered = {} /\ heard = {}
  /\ doubled = FALSE /\ timedout = FALSE
-----------------------------------------------------------------------------
(* A server.  All it remembers is when it last announced itself, so one    *)
(* that stops or starts again is one whose packets are lost.               *)

SendHello(s) ==
  /\ net' = net \union {From("HELLO", s, NoId)}
  /\ UNCHANGED <<client, round>>

process_query(s, m) ==
  /\ m.type = "QUERY" /\ m.node = s
  /\ \E left \in Taken(m) : net' = left \union {From("RESPONSE", s, m.id)}
  /\ served' = IF m.id = trans_id THEN served \union {s} ELSE served
  /\ UNCHANGED <<client, queried, answered, heard, doubled, timedout>>

Lose(m) ==
  /\ net' = net \ {m}
  /\ UNCHANGED <<client, round>>
-----------------------------------------------------------------------------
(* The history of a round that queries the servers S. *)
NewRound(S) ==
  /\ queried' = S /\ served' = {} /\ answered' = {} /\ heard' = {}
  /\ doubled' = FALSE /\ timedout' = FALSE

(* The client's list. *)

Active(list, s) ==
  [i \in 1..Len(list) |-> IF list[i].addr = s THEN Entry(s, TRUE) ELSE list[i]]

(* Mutant: a server that is in the list is entered again. *)
AddsAlways(s) ==
  server_list' = IF server_count < MaxServers THEN Append(server_list, Entry(s, TRUE))
                                              ELSE Active(server_list, s)

(* Mutant: the space in the table is not looked at. *)
AddsBeyond(s) ==
  server_list' = IF s \notin Listed THEN Append(server_list, Entry(s, TRUE))
                                    ELSE Active(server_list, s)

update_server_list(s) ==
  server_list' = IF s \notin Listed /\ server_count < MaxServers
                   THEN Append(server_list, Entry(s, TRUE))
                   ELSE Active(server_list, s)

(* The age test never decides: every entry was inactive when the round     *)
(* began, and one that has become active was seen during the 5 seconds of  *)
(* the wait, less than SERVER_TIMEOUT ago.                                 *)
Unresponsive(e) == ~e.active        \* mutant, as Responsive: the test inverted
Responsive(e) == e.active
RemovesOne(list) ==                 \* mutant: an if in place of the while
  LET i == SelectInSeq(list, Unresponsive)
  IN IF i = 0 THEN list ELSE RemoveAt(list, i)
cleanup_server_list(list) ==
  LET kept[i \in 0..Len(list)] ==         \* what is left of the first i entries
        IF i = 0 THEN <<>>
        ELSE IF Responsive(list[i]) THEN Append(kept[i - 1], list[i]) ELSE kept[i - 1]
  IN kept[Len(list)]
-----------------------------------------------------------------------------
(* listen_for_hello: everything that is not a HELLO is discarded. *)
ListenReceives(m) ==
  /\ phase = "listen" /\ m.type # "QUERY"
  /\ net' \in Taken(m)
  /\ IF m.type = "HELLO" THEN update_server_list(m.node) ELSE UNCHANGED server_list
  /\ UNCHANGED <<phase, trans_id, responses_received, summary, round>>

ListenEnds ==
  /\ phase = "listen"
  /\ phase' = IF server_count = 0 THEN "prompt" ELSE "query"
  /\ UNCHANGED <<net, server_list, trans_id, responses_received, summary, round>>

(* query_all_servers up to its wait.  The new id is one that no packet     *)
(* still carries: with 65535 ids and packets that live for seconds a       *)
(* repetition within the life of a packet is left aside.                   *)
SendQueries ==
  /\ phase = "query"
  /\ server_list' = [i \in 1..server_count |-> Entry(server_list[i].addr, FALSE)]
  /\ \E id \in TransIds :
       /\ \A m \in net : m.id # id
       /\ trans_id' = id
       /\ net' = net \union {To(s, id) : s \in Listed}
  /\ responses_received' = 0
  /\ phase' = "wait"
  /\ NewRound(Listed)
  /\ UNCHANGED summary

AllButOne   == responses_received >= server_count - 1   \* mutant: off by one
AllAnswered == responses_received >= server_count

AnyResponse(m) == m.type = "RESPONSE"                   \* mutant: the id is ignored
Matches(m)     == m.type = "RESPONSE" /\ m.id = trans_id

Counts(m) ==
  /\ Matches(m)
  /\ IF m.node \in Listed
       THEN /\ server_list' = Active(server_list, m.node)
            /\ responses_received' = responses_received + 1
            /\ answered' = answered \union {m.node}
            /\ heard' = heard \union {m.node}
            /\ doubled' = (doubled \/ m.node \in answered)
       ELSE UNCHANGED <<server_list, responses_received, answered, heard, doubled>>

Hears(m) ==
  /\ m.type = "HELLO"
  /\ update_server_list(m.node)
  /\ heard' = heard \union {m.node}
  /\ UNCHANGED <<responses_received, answered, doubled>>

Ignores(m) ==
  /\ m.type = "RESPONSE" /\ ~Matches(m)
  /\ UNCHANGED <<server_list, responses_received, answered, heard, doubled>>

WaitReceives(m) ==
  /\ phase = "wait" /\ ~AllAnswered
  /\ Counts(m) \/ Hears(m) \/ Ignores(m)
  /\ net' \in Taken(m)
  /\ UNCHANGED <<phase, trans_id, summary, queried, served, timedout>>

(* The loop ends, by the clock or by its count; then clean-up and summary. *)
WaitEnds ==
  /\ phase = "wait"
  /\ timedout' = ~AllAnswered
  /\ server_list' = cleanup_server_list(server_list)
  /\ summary' = <<responses_received,
                  Len(server_list') + (Len(server_list') - responses_received)>>
  /\ phase' = "prompt"
  /\ trans_id' = NoId /\ responses_received' = 0       \* the locals are gone
  /\ UNCHANGED <<net, queried, served, answered, heard, doubled>>

(* The user presses Enter or types exit. *)
Repeats ==
  /\ phase = "prompt"
  /\ phase' \in {"listen", "exit"}
  /\ NewRound({}) /\ summary' = <<0, 0>>
  /\ UNCHANGED <<net, server_list, trans_id, responses_received>>
-----------------------------------------------------------------------------
Next ==
  \/ \E s \in Servers : SendHello(s)
  \/ \E m \in net :
       \/ Lose(m) \/ ListenReceives(m) \/ WaitReceives(m)
       \/ \E s \in Servers : process_query(s, m)
  \/ ListenEnds \/ SendQueries \/ WaitEnds \/ Repeats

Spec == Init /\ [][Next]_vars
-----------------------------------------------------------------------------
(* Every variable keeps its type, and the table never overflows            *)
(* (cldp_client.c:90).                                                     *)
TypeOK ==
  /\ net \subseteq Packets
  /\ server_list \in Seq([addr : Servers, active : BOOLEAN]) /\ server_count <= MaxServers
  /\ phase \in {"listen", "query", "wait", "prompt", "exit"}
  /\ trans_id \in TransIds \union {NoId} /\ responses_received \in 0..MaxServers
  /\ summary \in (0..MaxServers) \X Int
  /\ {queried, served, answered, heard} \subseteq SUBSET Servers
  /\ doubled \in BOOLEAN /\ timedout \in BOOLEAN

(* No address is in the list twice, over all additions and removals, so a  *)
(* server is queried once per round and one answer settles it              *)
(* (cldp_client.c:81-96, 104-123, 323-338).                                *)
DistinctAddresses ==
  \A i, j \in 1..server_count : server_list[i].addr = server_list[j].addr => i = j

(* A counted answer was given to a query of this very round; late answers  *)
(* to earlier rounds are never counted (cldp_client.c:245, 321,            *)
(* cldp_server.c:123, 151).                                                *)
FreshAnswers == answered \subseteq served

(* After a round the list holds the servers heard during it: nobody that   *)
(* was queried and heard is dropped, nobody else survives (cldp_client.c:  *)
(* 239-242, 325, 343-353).                                                 *)
RoundKeepsHeard ==
  phase = "prompt" /\ queried # {} =>
    heard \intersect queried \subseteq Listed /\ Listed \subseteq heard

(* A round that ends before its timeout has an answer of every server it   *)
(* queried, unless some answer was counted twice: duplicates are counted   *)
(* as answers of others (cldp_client.c:291, 327).                          *)
EarlyEndIsComplete ==
  phase = "prompt" /\ ~timedout /\ ~doubled => queried \subseteq answered

(* "[%d/%d] servers responded": unless an answer was counted twice, the     *)
(* first number is that of the servers that answered and not above the     *)
(* second; the second is that of the servers queried, as the readme has    *)
(* it, when these and no others were heard and all answered - it is        *)
(* computed after the clean-up (cldp_client.c:288, 327, 353-356).          *)
SummaryCounts ==
  phase = "prompt" /\ ~doubled =>
    /\ summary[1] = Cardinality(answered) /\ summary[1] <= summary[2]
    /\ answered = queried /\ heard = queried => summary[2] = Cardinality(queried)
=============================================================================
