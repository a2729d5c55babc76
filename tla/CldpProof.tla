----------------------------- MODULE CldpProof -----------------------------
(***************************************************************************)
(* Proofs about Cldp for any number of servers, any transaction ids and    *)
(* any size of the client's table.                                         *)
(***************************************************************************)
EXTENDS Cldp, FiniteSetTheorems, TLAPS

Entries == [addr : Servers, active : BOOLEAN]
Distinct(list) == \A i, j \in 1..Len(list) : list[i].addr = list[j].addr => i = j

(* A packet of the current transaction is a query of a server that was     *)
(* asked or the answer of one that handled it.                             *)
NetInv ==
  \A m \in net :
    /\ m.type = "QUERY" /\ m.id = trans_id => m.node \in queried
    /\ m.type = "RESPONSE" /\ m.id = trans_id => m.node \in served

(* Between rounds there is no transaction, and before a round no history   *)
(* and no summary.                                                         *)
BetweenRounds ==
  /\ phase # "wait" => trans_id = NoId /\ responses_received = 0
  /\ phase \in {"listen", "query"} =>
       /\ queried = {} /\ answered = {} /\ heard = {}
       /\ ~doubled /\ ~timedout /\ summary = <<0, 0>>

(* The history of a round, and while it lasts: nobody asked has left the   *)
(* table, the active entries are the servers heard, and the count is that  *)
(* of the answers unless one was counted twice.                            *)
RoundInv ==
  /\ served \subseteq queried /\ answered \subseteq heard
  /\ phase = "wait" =>
       /\ queried \subseteq Listed
       /\ \A i \in 1..server_count : server_list[i].active <=> server_list[i].addr \in heard
       /\ ~doubled => responses_received = Cardinality(answered)

IInv ==
  /\ TypeOK /\ DistinctAddresses /\ NetInv /\ BetweenRounds /\ RoundInv
  /\ FreshAnswers /\ RoundKeepsHeard /\ EarlyEndIsComplete /\ SummaryCounts
-----------------------------------------------------------------------------
(* A set of naturals that is not empty has a least element: induction by   *)
(* the least counterexample.                                               *)
LEMMA Least ==
  ASSUME NEW T \in SUBSET Nat, T # {}
  PROVE  \E n \in T : \A m \in T : n <= m
<1> DEFINE R == OpToRel(<, Nat)
<1>1. IsWellFoundedOn(R, Nat)
  BY NatLessThanWellFounded
<1>2. \A m, n \in Nat : m < n => <<m, n>> \in R
  BY DEF OpToRel
<1> HIDE DEF R
<1>3. PICK n \in T : \A m \in T : ~ (<<m, n>> \in R)
  BY <1>1, WFMin
<1>4. \A m \in T : m \in Nat /\ n \in Nat /\ ~ (m < n)
  BY <1>2, <1>3
<1> QED BY <1>4

(* The function that cleanup_server_list is defined with exists.           *)
LEMMA KeptExists ==
  ASSUME NEW list \in Seq(Entries)
  PROVE  \E kept :
           /\ cleanup_server_list(list) = kept[Len(list)]
           /\ kept = [i \in 0..Len(list) |->
                       IF i = 0 THEN <<>>
                       ELSE IF Responsive(list[i]) THEN Append(kept[i - 1], list[i])
                                                   ELSE kept[i - 1]]
<1> DEFINE Def(k, i) == IF i = 0 THEN <<>>
                        ELSE IF Responsive(list[i]) THEN Append(k[i - 1], list[i])
                                                    ELSE k[i - 1]
           K == CHOOSE kept : kept = [i \in 0..Len(list) |-> Def(kept, i)]
           Bad == {n \in Nat : ~ \E k : k = [i \in 0..n |-> Def(k, i)]}
<1>1. cleanup_server_list(list) = K[Len(list)]
  BY DEF cleanup_server_list
<1>2. Bad = {}
  <2> SUFFICES ASSUME Bad # {} PROVE FALSE
    OBVIOUS
  <2>1. PICK n \in Bad : \A m \in Bad : n <= m
    <3> HIDE DEF Bad
    <3>1. Bad \subseteq Nat
      BY DEF Bad
    <3> QED BY <3>1, Least
  <2>2. n # 0
    <3> DEFINE z == [i \in 0..0 |-> <<>>]
    <3>1. z = [i \in 0..0 |-> Def(z, i)]
      OBVIOUS
    <3>2. \E k : k = [i \in 0..0 |-> Def(k, i)]
      BY <3>1
    <3> QED BY <3>2
  <2>3. n - 1 \in Nat /\ n - 1 \notin Bad
    <3> HIDE DEF Bad
    <3>1. Bad \subseteq Nat
      BY DEF Bad
    <3> QED BY <2>1, <2>2, <3>1
  <2>4. PICK k : k = [i \in 0..(n - 1) |-> Def(k, i)]
    BY <2>3
  <2> DEFINE g == [i \in 0..n |-> IF i = n THEN Def(k, n) ELSE k[i]]
  <2>5. g = [i \in 0..n |-> Def(g, i)]
    <3>1. \A i \in 0..n : i # n => i \in 0..(n - 1) /\ (i # 0 => i - 1 \in 0..(n - 1))
      BY <2>3
    <3>2. \A i \in 0..(n - 1) : k[i] = Def(k, i)
      BY <2>4
    <3>3. \A i \in 0..n : g[i] = Def(g, i)
      BY <2>2, <2>3, <3>1, <3>2
    <3> QED BY <3>3
  <2> QED BY <2>1, <2>5
<1>3. \E k : k = [i \in 0..Len(list) |-> Def(k, i)]
  BY <1>2
<1>4. K = [i \in 0..Len(list) |-> Def(K, i)]
  BY <1>3
<1> QED BY <1>1, <1>4

(* What s has to be when the clean-up of list has passed n entries. *)
Cleaned(list, n, s) ==
  /\ s \in Seq(Entries) /\ Len(s) <= n /\ Distinct(s)
  /\ \A j \in 1..Len(s) : \E i \in 1..n : list[i].active /\ s[j] = list[i]
  /\ \A i \in 1..n : list[i].active => \E j \in 1..Len(s) : s[j] = list[i]

LEMMA CleanedStep ==
  ASSUME NEW list \in Seq(Entries), Distinct(list), NEW n \in 1..Len(list),
         NEW s, Cleaned(list, n - 1, s)
  PROVE  Cleaned(list, n, IF Responsive(list[n]) THEN Append(s, list[n]) ELSE s)
<1>0. /\ list[n] \in Entries /\ s \in Seq(Entries) /\ Len(s) \in Nat /\ n \in Nat
      /\ 1..n = (1..(n - 1)) \union {n}
  BY DEF Cleaned
<1>1. CASE list[n].active
  <2> DEFINE t == Append(s, list[n])
  <2>1. /\ t \in Seq(Entries) /\ Len(t) = Len(s) + 1 /\ t[Len(s) + 1] = list[n]
        /\ \A j \in 1..Len(s) : t[j] = s[j]
        /\ 1..Len(t) = (1..Len(s)) \union {Len(s) + 1}
    BY <1>0
  <2> HIDE DEF t
  <2>2. ASSUME NEW j \in 1..Len(t) PROVE \E i \in 1..n : list[i].active /\ t[j] = list[i]
    <3>1. CASE j = Len(s) + 1
      BY <1>0, <1>1, <2>1, <3>1
    <3>2. CASE j \in 1..Len(s)
      <4>1. PICK i \in 1..(n - 1) : list[i].active /\ s[j] = list[i]
        BY <3>2 DEF Cleaned
      <4> QED BY <1>0, <2>1, <3>2, <4>1
    <3> QED BY <2>1, <3>1, <3>2
  <2>3. ASSUME NEW i \in 1..n, list[i].active PROVE \E j \in 1..Len(t) : t[j] = list[i]
    <3>1. CASE i = n
      BY <1>0, <2>1, <3>1
    <3>2. CASE i \in 1..(n - 1)
      <4>1. PICK j \in 1..Len(s) : s[j] = list[i]
        BY <2>3, <3>2 DEF Cleaned
      <4> QED BY <2>1, <4>1
    <3> QED BY <1>0, <3>1, <3>2
  <2>4. Distinct(t)
    <3>1. \A j \in 1..Len(s) : s[j].addr # list[n].addr
      <4> SUFFICES ASSUME NEW j \in 1..Len(s), s[j].addr = list[n].addr PROVE FALSE
        OBVIOUS
      <4>1. PICK i \in 1..(n - 1) : s[j] = list[i]
        BY DEF Cleaned
      <4> QED BY <1>0, <4>1 DEF Distinct
    <3> QED BY <1>0, <2>1, <3>1 DEF Distinct, Cleaned
  <2>5. Len(t) <= n
    BY <1>0, <2>1 DEF Cleaned
  <2>6. Cleaned(list, n, t)
    BY <2>1, <2>2, <2>3, <2>4, <2>5 DEF Cleaned
  <2> QED BY <1>1, <2>6 DEF Responsive, t
<1>2. CASE ~list[n].active
  <2>1. Cleaned(list, n, s)
    BY <1>0, <1>2 DEF Cleaned
  <2> QED BY <1>2, <2>1 DEF Responsive
<1> QED BY <1>0, <1>1, <1>2 DEF Entries

(* cleanup_server_list keeps exactly the active entries, each once. *)
LEMMA CleanupCleans ==
  ASSUME NEW list \in Seq(Entries), Distinct(list)
  PROVE  Cleaned(list, Len(list), cleanup_server_list(list))
<1>1. PICK K : /\ cleanup_server_list(list) = K[Len(list)]
               /\ K = [i \in 0..Len(list) |->
                        IF i = 0 THEN <<>>
                        ELSE IF Responsive(list[i]) THEN Append(K[i - 1], list[i])
                                                    ELSE K[i - 1]]
  BY KeptExists
<1> DEFINE Bad == {n \in 0..Len(list) : ~Cleaned(list, n, K[n])}
<1>2. Len(list) \in Nat
  OBVIOUS
<1>3. Bad = {}
  <2> SUFFICES ASSUME Bad # {} PROVE FALSE
    OBVIOUS
  <2>1. PICK n \in Bad : \A m \in Bad : n <= m
    <3>1. Bad \subseteq Nat
      OBVIOUS
    <3> HIDE DEF Bad
    <3> QED BY <3>1, Least
  <2>2. n # 0
    <3>1. K[0] = <<>>
      BY <1>1, <1>2
    <3>2. Cleaned(list, 0, <<>>)
      BY DEF Cleaned, Distinct
    <3> QED BY <3>1, <3>2
  <2>3. n \in 1..Len(list) /\ n - 1 \in 0..Len(list)
    BY <1>2, <2>2
  <2>4. n - 1 \notin Bad
    BY <1>2, <2>1, <2>3
  <2>5. Cleaned(list, n - 1, K[n - 1])
    BY <2>3, <2>4
  <2>6. K[n] = IF Responsive(list[n]) THEN Append(K[n - 1], list[n]) ELSE K[n - 1]
    <3> HIDE DEF Bad
    <3>1. n \in 0..Len(list) /\ n # 0
      BY <1>2, <2>3
    <3> QED BY <1>1, <3>1
  <2> QED BY <2>3, <2>5, <2>6, CleanedStep
<1>4. Len(list) \in 0..Len(list)
  BY <1>2
<1> QED BY <1>1, <1>3, <1>4

(* In a list without repetition there are as many addresses as entries.    *)
LEMMA AddressCount ==
  ASSUME NEW list \in Seq(Entries), Distinct(list)
  PROVE  /\ IsFiniteSet({list[i].addr : i \in 1..Len(list)})
         /\ Cardinality({list[i].addr : i \in 1..Len(list)}) = Len(list)
<1> DEFINE A == {list[i].addr : i \in 1..Len(list)}
           f == [i \in 1..Len(list) |-> list[i].addr]
<1>1. f \in Bijection(1..Len(list), A)
  BY DEF Bijection, Injection, Surjection, Distinct, IsInjective
<1> HIDE DEF A, f
<1>2. ExistsBijection(1..Len(list), A) /\ Len(list) \in Nat
  BY <1>1 DEF ExistsBijection
<1>3. Cardinality(A) = Len(list) /\ IsFiniteSet(A)
  BY <1>2, FS_CountingElements, FS_NatBijection
<1> QED BY <1>3 DEF A
-----------------------------------------------------------------------------
(* The number of entries is the length of the table throughout. *)
USE DEF server_count

(* What the types say, in the form the steps below need. *)
LEMMA Typed ==
  ASSUME TypeOK
  PROVE  /\ server_list \in Seq(Entries) /\ server_count \in Nat /\ server_count <= MaxServers
         /\ \A i \in 1..server_count : server_list[i] \in Entries
         /\ queried \subseteq Servers /\ served \subseteq Servers
         /\ answered \subseteq Servers /\ heard \subseteq Servers
         /\ Listed \subseteq Servers
         /\ IsFiniteSet(queried) /\ IsFiniteSet(answered) /\ IsFiniteSet(Servers)
         /\ MaxServers \in Nat /\ responses_received \in 0..MaxServers
         /\ \A m \in net : /\ m \in Packets /\ m.node \in Servers
                           /\ m.type \in {"QUERY", "RESPONSE", "HELLO"}
                           /\ m.type # "HELLO" => m.id \in TransIds /\ m.id # NoId
         /\ \A m : \A left \in Taken(m) : left \subseteq net
<1>1. queried \subseteq Servers /\ answered \subseteq Servers
  BY DEF TypeOK
<1>2. IsFiniteSet(queried) /\ IsFiniteSet(answered) /\ IsFiniteSet(Servers)
  BY <1>1, ServersAssumption, FS_Subset
<1>a. server_list \in Seq(Entries) /\ server_count <= MaxServers
  BY DEF TypeOK, Entries
<1>3. server_count \in Nat /\ \A i \in 1..server_count : server_list[i] \in Entries
  BY <1>a
<1>4. Listed \subseteq Servers
  BY <1>3 DEF Listed, Entries
<1>5. \A m \in net : /\ m \in Packets /\ m.node \in Servers
                     /\ m.type \in {"QUERY", "RESPONSE", "HELLO"}
                     /\ m.type # "HELLO" => m.id \in TransIds /\ m.id # NoId
  BY NoIdAssumption DEF TypeOK, Packets
<1> QED BY <1>1, <1>2, <1>a, <1>3, <1>4, <1>5, MaxServersAssumption DEF TypeOK, Taken

(* The table after the server s has been heard: the entries stay where     *)
(* they are, that of s is active, and at most s is new.                    *)
Refreshed(old, new, s) ==
  /\ new \in Seq(Entries) /\ Distinct(new) /\ Len(old) <= Len(new)
  /\ \A i \in 1..Len(old) : /\ new[i].addr = old[i].addr
                            /\ new[i].active <=> old[i].active \/ old[i].addr = s
  /\ \A i \in 1..Len(new) : i > Len(old) => new[i].addr = s /\ new[i].active

LEMMA ActiveRefreshes ==
  ASSUME NEW list \in Seq(Entries), Distinct(list), NEW s \in Servers
  PROVE  Refreshed(list, Active(list, s), s) /\ Len(Active(list, s)) = Len(list)
<1> DEFINE new == Active(list, s)
<1>0. Len(list) \in Nat /\ \A i \in 1..Len(list) : list[i] \in Entries
  OBVIOUS
<1>1. ASSUME NEW i \in 1..Len(list)
      PROVE  /\ new[i] \in Entries /\ new[i].addr = list[i].addr
             /\ new[i].active <=> list[i].active \/ list[i].addr = s
  <2>1. CASE list[i].addr = s
    BY <2>1 DEF Active, Entry, Entries
  <2>2. CASE list[i].addr # s
    BY <1>0, <2>2 DEF Active
  <2> QED BY <2>1, <2>2
<1>2. new = [i \in 1..Len(list) |-> new[i]]
  BY DEF Active
<1> HIDE DEF new
<1>3. new \in Seq(Entries) /\ Len(new) = Len(list)
  BY <1>0, <1>1, <1>2
<1>4. Distinct(new)
  BY <1>1, <1>3 DEF Distinct
<1>5. Refreshed(list, new, s)
  BY <1>0, <1>1, <1>3, <1>4 DEF Refreshed
<1> QED BY <1>3, <1>5 DEF new

LEMMA AppendRefreshes ==
  ASSUME NEW list \in Seq(Entries), Distinct(list), NEW e \in Entries, e.active,
         \A i \in 1..Len(list) : list[i].addr # e.addr
  PROVE  /\ Refreshed(list, Append(list, e), e.addr)
         /\ Len(Append(list, e)) = Len(list) + 1
<1> DEFINE new == Append(list, e)
<1>1. /\ new \in Seq(Entries) /\ Len(new) = Len(list) + 1 /\ new[Len(list) + 1] = e
      /\ \A i \in 1..Len(list) : new[i] = list[i]
      /\ Len(list) \in Nat
  OBVIOUS
<1>2. \A i \in 1..Len(new) : i \in 1..Len(list) \/ i = Len(list) + 1
  BY <1>1
<1> HIDE DEF new
<1>3. Distinct(new)
  <2> SUFFICES ASSUME NEW i \in 1..Len(new), NEW j \in 1..Len(new), new[i].addr = new[j].addr
               PROVE  i = j
    BY DEF Distinct
  <2>1. CASE i \in 1..Len(list) /\ j \in 1..Len(list)
    BY <1>1, <2>1 DEF Distinct
  <2> QED BY <1>1, <1>2, <2>1
<1>4. Refreshed(list, new, e.addr)
  BY <1>1, <1>2, <1>3 DEF Refreshed
<1> QED BY <1>1, <1>4 DEF new

LEMMA UpdateRefreshes ==
  ASSUME TypeOK, DistinctAddresses, NEW s \in Servers, update_server_list(s)
  PROVE  Refreshed(server_list, server_list', s) /\ server_count' <= MaxServers
<1>0. /\ server_list \in Seq(Entries) /\ Distinct(server_list)
      /\ server_count \in Nat /\ server_count <= MaxServers /\ MaxServers \in Nat
  BY Typed DEF DistinctAddresses, Distinct
<1>1. CASE s \notin Listed /\ server_count < MaxServers
  <2> DEFINE e == Entry(s, TRUE)
  <2>1. e \in Entries /\ e.addr = s /\ e.active
    BY DEF Entry, Entries
  <2>2. server_list' = Append(server_list, e)
    BY <1>1 DEF update_server_list
  <2>3. \A i \in 1..Len(server_list) : server_list[i].addr # s
    BY <1>1 DEF Listed
  <2> HIDE DEF e
  <2> QED BY <1>0, <1>1, <2>1, <2>2, <2>3, AppendRefreshes
<1>2. CASE ~(s \notin Listed /\ server_count < MaxServers)
  BY <1>0, <1>2, ActiveRefreshes DEF update_server_list
<1> QED BY <1>1, <1>2

(* What the rest of the proof needs of it. *)
LEMMA RefreshedTable ==
  ASSUME TypeOK, NEW s \in Servers, Refreshed(server_list, server_list', s)
  PROVE  /\ server_list' \in Seq([addr : Servers, active : BOOLEAN])
         /\ DistinctAddresses' /\ Listed \subseteq Listed'
         /\ (\A i \in 1..server_count : server_list[i].active <=> server_list[i].addr \in heard)
              => \A i \in 1..server_count' :
                   server_list'[i].active <=> server_list'[i].addr \in heard \union {s}
<1>0. /\ server_count \in Nat /\ server_count' \in Nat /\ server_count <= server_count'
  BY Typed DEF Refreshed
<1>1. DistinctAddresses'
  BY DEF Refreshed, Distinct, DistinctAddresses
<1>2. \A i \in 1..server_count : i \in 1..server_count' /\ server_list'[i].addr = server_list[i].addr
  BY <1>0 DEF Refreshed
<1>3. Listed \subseteq Listed'
  BY <1>2 DEF Listed
<1>4. ASSUME \A i \in 1..server_count : server_list[i].active <=> server_list[i].addr \in heard,
             NEW i \in 1..server_count'
      PROVE  server_list'[i].active <=> server_list'[i].addr \in heard \union {s}
  <2>1. CASE i \in 1..server_count
    BY <1>4, <2>1 DEF Refreshed
  <2>2. CASE i > server_count
    BY <2>2 DEF Refreshed
  <2> QED BY <1>0, <2>1, <2>2
<1> QED BY <1>1, <1>3, <1>4 DEF Refreshed, Entries
-----------------------------------------------------------------------------
(* The initial state satisfies the invariant. *)
LEMMA InitInv == ASSUME Init PROVE IInv
<1>1. TypeOK
  <2>1. /\ server_list \in Seq([addr : Servers, active : BOOLEAN])
        /\ Len(server_list) <= MaxServers /\ MaxServers \in Nat
    BY MaxServersAssumption DEF Init
  <2>2. summary \in (0..MaxServers) \X Int /\ responses_received \in 0..MaxServers
    BY <2>1 DEF Init
  <2>3. {queried, served, answered, heard} \subseteq SUBSET Servers
    BY DEF Init
  <2> QED BY <2>1, <2>2, <2>3 DEF Init, TypeOK
<1>2. DistinctAddresses /\ NetInv /\ BetweenRounds
  BY DEF Init, DistinctAddresses, NetInv, BetweenRounds
<1>3. RoundInv /\ FreshAnswers /\ RoundKeepsHeard /\ EarlyEndIsComplete /\ SummaryCounts
  BY DEF Init, RoundInv, FreshAnswers, RoundKeepsHeard, EarlyEndIsComplete, SummaryCounts
<1> QED BY <1>1, <1>2, <1>3 DEF IInv

(* What the client and the history do not notice keeps the invariant when  *)
(* the network still says the truth.                                       *)
LEMMA QuietStep ==
  ASSUME IInv, UNCHANGED <<client, queried, answered, heard, doubled, timedout>>,
         net' \subseteq Packets, served \subseteq served', served' \subseteq queried,
         NetInv'
  PROVE  IInv'
<1> USE DEF IInv, client
<1>1. TypeOK'
  <2>1. served' \subseteq Servers
    BY Typed
  <2> QED BY <2>1 DEF TypeOK
<1>2. DistinctAddresses' /\ BetweenRounds'
  BY DEF DistinctAddresses, BetweenRounds
<1>3. RoundInv' /\ FreshAnswers'
  BY DEF RoundInv, FreshAnswers, Listed
<1>4. RoundKeepsHeard' /\ EarlyEndIsComplete' /\ SummaryCounts'
  BY DEF RoundKeepsHeard, EarlyEndIsComplete, SummaryCounts, Listed
<1> QED BY <1>1, <1>2, <1>3, <1>4

(* An announcement, a loss, an answer to a query. *)
LEMMA HelloInv == ASSUME IInv, NEW s \in Servers, SendHello(s) PROVE IInv'
<1>0. UNCHANGED <<client, round>> /\ net' = net \union {From("HELLO", s, NoId)}
  BY DEF SendHello
<1>1. net' \subseteq Packets
  BY <1>0 DEF IInv, TypeOK, Packets, From
<1>2. NetInv'
  BY <1>0 DEF IInv, NetInv, From, client, round
<1>3. served' \subseteq queried
  BY <1>0 DEF IInv, RoundInv, round
<1> QED BY <1>0, <1>1, <1>2, <1>3, QuietStep DEF round

LEMMA LoseInv == ASSUME IInv, NEW m \in net, Lose(m) PROVE IInv'
<1>0. UNCHANGED <<client, round>> /\ net' \subseteq net
  BY DEF Lose
<1>1. net' \subseteq Packets
  BY <1>0 DEF IInv, TypeOK
<1>2. NetInv'
  BY <1>0 DEF IInv, NetInv, client, round
<1>3. served' \subseteq queried
  BY <1>0 DEF IInv, RoundInv, round
<1> QED BY <1>0, <1>1, <1>2, <1>3, QuietStep DEF round

LEMMA QueryInv ==
  ASSUME IInv, NEW s \in Servers, NEW m \in net, process_query(s, m)
  PROVE  IInv'
<1> USE DEF IInv
<1>0. /\ m.type = "QUERY" /\ m.node = s
      /\ UNCHANGED <<client, queried, answered, heard, doubled, timedout>>
      /\ served' = IF m.id = trans_id THEN served \union {s} ELSE served
  BY DEF process_query
<1>1. PICK left \in Taken(m) : net' = left \union {From("RESPONSE", s, m.id)}
  BY DEF process_query
<1>2. left \subseteq net /\ m.id \in TransIds
  BY <1>0, Typed
<1>3. net' \subseteq Packets
  BY <1>1, <1>2 DEF TypeOK, Packets, From
<1>4. served \subseteq served' /\ served' \subseteq queried
  BY <1>0 DEF NetInv, RoundInv
<1>5. NetInv'
  BY <1>0, <1>1, <1>2 DEF NetInv, From, client
<1> QED BY <1>0, <1>3, <1>4, <1>5, QuietStep
-----------------------------------------------------------------------------
(* The listening window. *)
LEMMA ListenInv == ASSUME IInv, NEW m \in net, ListenReceives(m) PROVE IInv'
<1> USE DEF IInv
<1>0. /\ phase = "listen" /\ net' \subseteq net
      /\ UNCHANGED <<phase, trans_id, responses_received, summary, round>>
  BY Typed DEF ListenReceives
<1>1. /\ server_list' \in Seq([addr : Servers, active : BOOLEAN])
      /\ DistinctAddresses' /\ server_count' <= MaxServers
  <2>1. CASE m.type = "HELLO"
    BY <2>1, Typed, UpdateRefreshes, RefreshedTable DEF ListenReceives
  <2>2. CASE m.type # "HELLO"
    BY <2>2 DEF ListenReceives, TypeOK, DistinctAddresses
  <2> QED BY <2>1, <2>2
<1>2. TypeOK'
  BY <1>0, <1>1 DEF TypeOK, round
<1>3. NetInv' /\ BetweenRounds'
  BY <1>0 DEF NetInv, BetweenRounds, round
<1>4. RoundInv' /\ FreshAnswers' /\ RoundKeepsHeard' /\ EarlyEndIsComplete' /\ SummaryCounts'
  BY <1>0 DEF RoundInv, FreshAnswers, RoundKeepsHeard, EarlyEndIsComplete, SummaryCounts, round
<1> QED BY <1>1, <1>2, <1>3, <1>4

LEMMA ListenEndInv == ASSUME IInv, ListenEnds PROVE IInv'
<1> USE DEF IInv
<1>0. /\ phase = "listen" /\ phase' \in {"prompt", "query"}
      /\ UNCHANGED <<net, server_list, trans_id, responses_received, summary, round>>
  BY DEF ListenEnds
<1>e. /\ queried = {} /\ answered = {} /\ heard = {} /\ ~doubled /\ summary = <<0, 0>>
      /\ trans_id = NoId /\ responses_received = 0
  BY <1>0 DEF BetweenRounds
<1>1. TypeOK' /\ DistinctAddresses'
  BY <1>0 DEF TypeOK, DistinctAddresses, round
<1>2. NetInv' /\ BetweenRounds'
  BY <1>0, <1>e DEF NetInv, BetweenRounds, round
<1>3. RoundInv' /\ FreshAnswers' /\ RoundKeepsHeard' /\ EarlyEndIsComplete'
  BY <1>0, <1>e DEF RoundInv, FreshAnswers, RoundKeepsHeard, EarlyEndIsComplete, round
<1>4. SummaryCounts'
  BY <1>0, <1>e, FS_EmptySet DEF SummaryCounts, round
<1> QED BY <1>1, <1>2, <1>3, <1>4
-----------------------------------------------------------------------------
(* A round begins: everybody in the table is asked. *)
LEMMA SendQueriesInv == ASSUME IInv, SendQueries PROVE IInv'
<1> USE DEF IInv
<1>0. /\ phase = "query" /\ phase' = "wait" /\ NewRound(Listed) /\ UNCHANGED summary
      /\ server_list' = [i \in 1..server_count |-> Entry(server_list[i].addr, FALSE)]
      /\ responses_received' = 0
  BY DEF SendQueries
<1>1. PICK id \in TransIds : /\ \A m \in net : m.id # id
                             /\ trans_id' = id
                             /\ net' = net \union {To(s, id) : s \in Listed}
  BY DEF SendQueries
<1>2. /\ server_count \in Nat /\ server_count <= MaxServers /\ Listed \subseteq Servers
      /\ \A i \in 1..server_count : server_list[i].addr \in Servers
  BY Typed DEF Entries
<1>3. ASSUME NEW i \in 1..server_count
      PROVE  /\ server_list'[i] \in Entries /\ ~ server_list'[i].active
             /\ server_list'[i].addr = server_list[i].addr
  BY <1>0, <1>2 DEF Entry, Entries
<1>4. server_list' \in Seq(Entries) /\ server_count' = server_count
  <2>1. server_list' = [i \in 1..server_count |-> server_list'[i]]
    BY <1>0
  <2> QED BY <1>2, <1>3, <2>1
<1>5. Listed' = Listed
  BY <1>3, <1>4 DEF Listed
<1>6. DistinctAddresses'
  BY <1>3, <1>4 DEF DistinctAddresses
<1>7. net' \subseteq Packets
  BY <1>1, <1>2 DEF TypeOK, Packets, To
<1>8. TypeOK'
  <2>1. server_list' \in Seq([addr : Servers, active : BOOLEAN]) /\ server_count' <= MaxServers
    BY <1>2, <1>4 DEF Entries
  <2>2. summary' \in (0..MaxServers) \X Int
    BY <1>0 DEF TypeOK
  <2>3. trans_id' \in TransIds /\ responses_received' \in 0..MaxServers
    BY <1>0, <1>1, Typed
  <2>4. {queried', served', answered', heard'} \subseteq SUBSET Servers
    BY <1>0, <1>2 DEF NewRound
  <2> QED BY <1>0, <1>7, <2>1, <2>2, <2>3, <2>4 DEF TypeOK, NewRound
<1>9. NetInv'
  BY <1>0, <1>1 DEF NetInv, NewRound, To
<1>10. BetweenRounds' /\ FreshAnswers' /\ RoundKeepsHeard' /\ EarlyEndIsComplete' /\ SummaryCounts'
  BY <1>0 DEF BetweenRounds, FreshAnswers, RoundKeepsHeard, EarlyEndIsComplete,
              SummaryCounts, NewRound
<1>11. RoundInv'
  <2>1. queried' = Listed' /\ served' = {} /\ answered' = {} /\ heard' = {}
    BY <1>0, <1>5 DEF NewRound
  <2>2. \A i \in 1..server_count' : server_list'[i].active <=> server_list'[i].addr \in heard'
    BY <1>3, <1>4, <2>1
  <2> QED BY <1>0, <2>1, <2>2, FS_EmptySet DEF RoundInv
<1> QED BY <1>6, <1>8, <1>9, <1>10, <1>11

(* A packet during the wait: an answer that counts, an announcement, or    *)
(* something the client passes over.                                       *)
LEMMA WaitReceivesInv == ASSUME IInv, NEW m \in net, WaitReceives(m) PROVE IInv'
<1> USE DEF IInv
<1>0. /\ phase = "wait" /\ ~AllAnswered /\ net' \subseteq net /\ m.node \in Servers
      /\ UNCHANGED <<phase, trans_id, summary, queried, served, timedout>>
  BY Typed DEF WaitReceives
<1>1. NetInv' /\ BetweenRounds' /\ RoundKeepsHeard' /\ EarlyEndIsComplete' /\ SummaryCounts'
  BY <1>0 DEF NetInv, BetweenRounds, RoundKeepsHeard, EarlyEndIsComplete, SummaryCounts
<1>2. CASE UNCHANGED <<server_list, responses_received, answered, heard, doubled>>
  <2>1. TypeOK' /\ DistinctAddresses'
    BY <1>0, <1>2 DEF TypeOK, DistinctAddresses
  <2>2. RoundInv' /\ FreshAnswers'
    BY <1>0, <1>2 DEF RoundInv, FreshAnswers, Listed
  <2> QED BY <1>1, <2>1, <2>2
<1>3. ASSUME /\ Refreshed(server_list, server_list', m.node) /\ server_count' <= MaxServers
             /\ heard' = heard \union {m.node}
             /\ answered \subseteq answered' /\ answered' \subseteq answered \union {m.node}
             /\ answered' \subseteq served
             /\ responses_received' \in 0..MaxServers /\ doubled' \in BOOLEAN
             /\ ~doubled' => responses_received' = Cardinality(answered')
      PROVE  IInv'
  <2>1. /\ server_list' \in Seq([addr : Servers, active : BOOLEAN])
        /\ DistinctAddresses' /\ Listed \subseteq Listed'
        /\ \A i \in 1..server_count' : server_list'[i].active <=> server_list'[i].addr \in heard'
    BY <1>0, <1>3, RefreshedTable DEF RoundInv
  <2>2. {queried', served', answered', heard'} \subseteq SUBSET Servers
    BY <1>0, <1>3, Typed
  <2>3. TypeOK'
    BY <1>0, <1>3, <2>1, <2>2 DEF TypeOK
  <2>4. RoundInv'
    BY <1>0, <1>3, <2>1 DEF RoundInv
  <2>5. FreshAnswers'
    BY <1>0, <1>3 DEF FreshAnswers
  <2> QED BY <1>1, <2>1, <2>3, <2>4, <2>5
<1>4. CASE Counts(m) /\ m.node \in Listed
  <2>1. /\ server_list' = Active(server_list, m.node)
        /\ responses_received' = responses_received + 1
        /\ answered' = answered \union {m.node} /\ heard' = heard \union {m.node}
        /\ doubled' = (doubled \/ m.node \in answered)
    BY <1>4 DEF Counts
  <2>2. m.node \in served
    BY <1>4 DEF Counts, Matches, NetInv
  <2>3. Refreshed(server_list, server_list', m.node) /\ server_count' <= MaxServers
    BY <1>0, <2>1, ActiveRefreshes, Typed DEF DistinctAddresses, Distinct
  <2>4. responses_received' \in 0..MaxServers
    BY <1>0, <2>1, Typed DEF AllAnswered
  <2>5. ~doubled' => responses_received' = Cardinality(answered')
    BY <1>0, <2>1, Typed, FS_AddElement DEF RoundInv
  <2>6. answered' \subseteq served
    BY <2>1, <2>2 DEF FreshAnswers
  <2>7. doubled' \in BOOLEAN
    BY <2>1 DEF TypeOK
  <2> QED BY <1>3, <2>1, <2>3, <2>4, <2>5, <2>6, <2>7
<1>5. CASE Hears(m)
  <2>1. /\ update_server_list(m.node) /\ heard' = heard \union {m.node}
        /\ UNCHANGED <<responses_received, answered, doubled>>
    BY <1>5 DEF Hears
  <2>2. Refreshed(server_list, server_list', m.node) /\ server_count' <= MaxServers
    BY <1>0, <2>1, UpdateRefreshes
  <2>3. /\ responses_received' \in 0..MaxServers /\ doubled' \in BOOLEAN
        /\ ~doubled' => responses_received' = Cardinality(answered')
        /\ answered' \subseteq served
    BY <1>0, <2>1 DEF TypeOK, RoundInv, FreshAnswers
  <2> QED BY <1>3, <2>1, <2>2, <2>3
<1> QED BY <1>2, <1>4, <1>5 DEF WaitReceives, Counts, Ignores

(* A round ends: what survives the clean-up is who was heard, and a round  *)
(* that was not cut short has heard all it asked.                          *)
LEMMA WaitEndsInv == ASSUME IInv, WaitEnds PROVE IInv'
<1> USE DEF IInv
<1>0. /\ phase = "wait" /\ phase' = "prompt" /\ trans_id' = NoId /\ responses_received' = 0
      /\ timedout' = ~AllAnswered
      /\ server_list' = cleanup_server_list(server_list)
      /\ summary' = <<responses_received,
                      Len(server_list') + (Len(server_list') - responses_received)>>
      /\ UNCHANGED <<net, queried, served, answered, heard, doubled>>
  BY DEF WaitEnds
<1>t. /\ server_list \in Seq(Entries) /\ Distinct(server_list)
      /\ server_count \in Nat /\ server_count <= MaxServers
      /\ responses_received \in 0..MaxServers /\ MaxServers \in Nat
      /\ IsFiniteSet(queried) /\ IsFiniteSet(answered)
  BY Typed DEF DistinctAddresses, Distinct
<1>1. Cleaned(server_list, server_count, server_list')
  BY <1>0, <1>t, CleanupCleans
<1>2. /\ server_list' \in Seq(Entries) /\ Distinct(server_list')
      /\ server_count' \in Nat /\ server_count' <= MaxServers
  BY <1>t, <1>1 DEF Cleaned
<1>3. Listed' = Listed \intersect heard
  <2>1. ASSUME NEW j \in 1..server_count' PROVE server_list'[j].addr \in Listed \intersect heard
    <3>1. PICK i \in 1..server_count : server_list[i].active /\ server_list'[j] = server_list[i]
      BY <1>1, <2>1 DEF Cleaned
    <3> QED BY <1>0, <3>1 DEF RoundInv, Listed
  <2>2. ASSUME NEW i \in 1..server_count, server_list[i].addr \in heard
        PROVE  server_list[i].addr \in Listed'
    <3>1. server_list[i].active
      BY <1>0, <2>2 DEF RoundInv
    <3>2. PICK j \in 1..server_count' : server_list'[j] = server_list[i]
      BY <1>1, <3>1 DEF Cleaned
    <3> QED BY <3>2 DEF Listed
  <2> QED BY <2>1, <2>2 DEF Listed
<1>4. IsFiniteSet(Listed) /\ Cardinality(Listed) = server_count
  BY <1>t, AddressCount DEF Listed
<1>5. IsFiniteSet(Listed') /\ Cardinality(Listed') = server_count'
  BY <1>2, AddressCount DEF Listed
<1>6. answered \subseteq queried /\ answered \subseteq heard /\ queried \subseteq Listed
  BY <1>0 DEF RoundInv, FreshAnswers
<1>7. TypeOK'
  <2>1. server_list' \in Seq([addr : Servers, active : BOOLEAN])
    BY <1>2 DEF Entries
  <2>2. summary' \in (0..MaxServers) \X Int
    BY <1>0, <1>t, <1>2
  <2>3. timedout' \in BOOLEAN
    BY <1>0
  <2> QED BY <1>0, <1>t, <1>2, <2>1, <2>2, <2>3 DEF TypeOK
<1>8. DistinctAddresses'
  BY <1>2 DEF DistinctAddresses, Distinct
<1>9. NetInv'
  BY <1>0, Typed DEF NetInv
<1>10. BetweenRounds' /\ RoundInv' /\ FreshAnswers'
  BY <1>0 DEF BetweenRounds, RoundInv, FreshAnswers
<1>11. RoundKeepsHeard'
  BY <1>0, <1>3, <1>6 DEF RoundKeepsHeard
<1>12. EarlyEndIsComplete'
  <2> SUFFICES ASSUME ~timedout', ~doubled PROVE queried \subseteq answered
    BY <1>0 DEF EarlyEndIsComplete
  <2>1. Cardinality(answered) >= server_count
    BY <1>0 DEF RoundInv, AllAnswered
  <2>2. Cardinality(queried) <= server_count
    BY <1>4, <1>6, FS_Subset
  <2>3. Cardinality(answered) <= Cardinality(queried)
        /\ (Cardinality(queried) = Cardinality(answered) => queried = answered)
    BY <1>t, <1>6, FS_Subset
  <2>4. Cardinality(queried) \in Nat /\ Cardinality(answered) \in Nat
    BY <1>t, FS_CardinalityType
  <2> QED BY <1>t, <2>1, <2>2, <2>3, <2>4
<1>13. SummaryCounts'
  <2> SUFFICES ASSUME ~doubled
               PROVE  /\ summary'[1] = Cardinality(answered) /\ summary'[1] <= summary'[2]
                      /\ answered = queried /\ heard = queried
                           => summary'[2] = Cardinality(queried)
    BY <1>0 DEF SummaryCounts
  <2>1. responses_received = Cardinality(answered)
    BY <1>0 DEF RoundInv
  <2>2. answered \subseteq Listed'
    BY <1>3, <1>6
  <2>3. Cardinality(answered) <= server_count'
    BY <1>5, <2>2, FS_Subset
  <2>4. summary'[1] = responses_received
        /\ summary'[2] = server_count' + (server_count' - responses_received)
    BY <1>0
  <2>5. summary'[1] <= summary'[2]
    BY <1>t, <1>2, <2>1, <2>3, <2>4
  <2>6. ASSUME answered = queried, heard = queried PROVE summary'[2] = Cardinality(queried)
    <3>1. Listed' = queried
      BY <1>3, <2>2, <2>6
    <3>2. server_count' = Cardinality(queried) /\ responses_received = server_count'
      BY <1>5, <2>1, <2>6, <3>1
    <3> QED BY <1>2, <2>4, <3>2
  <2> QED BY <2>1, <2>4, <2>5, <2>6
<1> QED BY <1>7, <1>8, <1>9, <1>10, <1>11, <1>12, <1>13

(* The user goes on or leaves. *)
LEMMA RepeatsInv == ASSUME IInv, Repeats PROVE IInv'
<1> USE DEF IInv
<1>0. /\ phase = "prompt" /\ phase' \in {"listen", "exit"} /\ summary' = <<0, 0>>
      /\ queried' = {} /\ served' = {} /\ answered' = {} /\ heard' = {}
      /\ doubled' = FALSE /\ timedout' = FALSE
      /\ UNCHANGED <<net, server_list, trans_id, responses_received>>
  BY DEF Repeats, NewRound
<1>1. TypeOK'
  <2>1. summary' \in (0..MaxServers) \X Int
    BY <1>0, MaxServersAssumption
  <2>2. {queried', served', answered', heard'} \subseteq SUBSET Servers
    BY <1>0
  <2>3. doubled' \in BOOLEAN /\ timedout' \in BOOLEAN
    BY <1>0
  <2> QED BY <1>0, <2>1, <2>2, <2>3 DEF TypeOK
<1>2. NetInv'
  BY <1>0, Typed DEF NetInv, BetweenRounds
<1>3. DistinctAddresses' /\ BetweenRounds' /\ RoundInv' /\ FreshAnswers'
  BY <1>0 DEF DistinctAddresses, BetweenRounds, RoundInv, FreshAnswers
<1>4. RoundKeepsHeard' /\ EarlyEndIsComplete' /\ SummaryCounts'
  BY <1>0 DEF RoundKeepsHeard, EarlyEndIsComplete, SummaryCounts
<1> QED BY <1>1, <1>2, <1>3, <1>4
-----------------------------------------------------------------------------
(* The invariant is inductive. *)
LEMMA NextInv == ASSUME IInv, [Next]_vars PROVE IInv'
<1>1. ASSUME NEW s \in Servers, SendHello(s) PROVE IInv'
  BY <1>1, HelloInv
<1>2. ASSUME NEW m \in net, Lose(m) PROVE IInv'
  BY <1>2, LoseInv
<1>3. ASSUME NEW m \in net, ListenReceives(m) PROVE IInv'
  BY <1>3, ListenInv
<1>4. ASSUME NEW m \in net, WaitReceives(m) PROVE IInv'
  BY <1>4, WaitReceivesInv
<1>5. ASSUME NEW m \in net, NEW s \in Servers, process_query(s, m) PROVE IInv'
  BY <1>5, QueryInv
<1>6. CASE ListenEnds
  BY <1>6, ListenEndInv
<1>7. CASE SendQueries
  BY <1>7, SendQueriesInv
<1>8. CASE WaitEnds
  BY <1>8, WaitEndsInv
<1>9. CASE Repeats
  BY <1>9, RepeatsInv
<1>10. CASE UNCHANGED vars
  <2>1. UNCHANGED <<net, client, round>>
    BY <1>10 DEF vars
  <2>2. net' \subseteq Packets /\ served' \subseteq queried /\ NetInv'
    BY <2>1 DEF IInv, TypeOK, RoundInv, NetInv, client, round
  <2> QED BY <2>1, <2>2, QuietStep DEF round
<1> QED BY <1>1, <1>2, <1>3, <1>4, <1>5, <1>6, <1>7, <1>8, <1>9, <1>10 DEF Next

(* The inductive invariant holds in every reachable state.                 *)
THEOREM Invariance == Spec => []IInv
<1>1. Init => IInv
  BY InitInv
<1>2. IInv /\ [Next]_vars => IInv'
  BY NextInv
<1> QED BY <1>1, <1>2, PTL DEF Spec

(* Every variable keeps its type and the table never overflows             *)
(* (cldp_client.c:90).                                                     *)
THEOREM Types == Spec => []TypeOK
<1>1. IInv => TypeOK
  BY DEF IInv
<1> QED BY <1>1, Invariance, PTL

(* No server is in the table twice, whatever is added and removed and for  *)
(* any size of the table (cldp_client.c:81-96, 104-123).                   *)
THEOREM NobodyTwice == Spec => []DistinctAddresses
<1>1. IInv => DistinctAddresses
  BY DEF IInv
<1> QED BY <1>1, Invariance, PTL

(* An answer that is counted answers a query of the round it is counted    *)
(* in, over a network that loses, repeats and delays (cldp_client.c:321).  *)
THEOREM CountsFreshAnswers == Spec => []FreshAnswers
<1>1. IInv => FreshAnswers
  BY DEF IInv
<1> QED BY <1>1, Invariance, PTL

(* A round keeps whom it asked and heard, and nobody it did not hear       *)
(* (cldp_client.c:239-242, 325, 343-353).                                  *)
THEOREM KeepsWhomItHeard == Spec => []RoundKeepsHeard
<1>1. IInv => RoundKeepsHeard
  BY DEF IInv
<1> QED BY <1>1, Invariance, PTL

(* A round that ends before its timeout has all its answers unless one was *)
(* counted twice (cldp_client.c:291, 327).                                 *)
THEOREM EndsEarlyComplete == Spec => []EarlyEndIsComplete
<1>1. IInv => EarlyEndIsComplete
  BY DEF IInv
<1> QED BY <1>1, Invariance, PTL

(* What the two numbers of the summary mean (cldp_client.c:353-356).       *)
THEOREM SummaryIsRight == Spec => []SummaryCounts
<1>1. IInv => SummaryCounts
  BY DEF IInv
<1> QED BY <1>1, Invariance, PTL
=============================================================================
