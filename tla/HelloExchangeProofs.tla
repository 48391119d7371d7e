------------------------- MODULE HelloExchangeProofs -------------------------
(***************************************************************************)
(* Theorems about HelloExchange, for every set of nodes, every bound, and  *)
(* whatever UDP and the users do.                                          *)
(***************************************************************************)
EXTENDS HelloExchange, FiniteSetTheorems, TLAPS

LEMMA WithoutType ==
  ASSUME NEW S, NEW s \in Seq(S), NEW i \in 1..Len(s)
  PROVE  Without(s, i) \in Seq(S) /\ Len(Without(s, i)) = Len(s) - 1
<1> DEFINE a == SubSeq(s, 1, i - 1)
           b == SubSeq(s, i + 1, Len(s))
<1>1. a \in Seq(S) /\ Len(a) = i - 1
  OBVIOUS
<1>2. b \in Seq(S) /\ Len(b) = Len(s) - i
  OBVIOUS
<1>3. Without(s, i) = a \o b
  BY DEF Without
<1> HIDE DEF a, b
<1>4. a \o b \in Seq(S) /\ Len(a \o b) = Len(a) + Len(b)
  BY <1>1, <1>2
<1>5. Len(s) \in Nat
  OBVIOUS
<1> QED  BY <1>1, <1>2, <1>3, <1>4, <1>5

LEMMA HelloType ==
  ASSUME NEW n \in Nodes, NEW x \in Nodes, NEW g \in Generation
  PROVE  HelloTo(n, x, g) \in Hello
BY DEF HelloTo, Hello

LEMMA DatagramType ==
  ASSUME TypeOK, NEW i \in 1..Len(net)
  PROVE  /\ net[i] \in Hello
         /\ net[i].from \in Nodes /\ net[i].to \in Nodes
         /\ net[i].gen \in Generation
<1>1. net[i] \in Hello
  BY DEF TypeOK
<1> QED  BY <1>1 DEF Hello

-----------------------------------------------------------------------------
LEMMA InitTypeOK == Init => TypeOK
BY HelloAssumption DEF Init, TypeOK, Generation, NoNode

LEMMA CycleType ==
  ASSUME TypeOK, NEW n \in Nodes, Cycle(n)
  PROVE  /\ cycles' \in [Nodes -> 0..CyclesBeforeSend]
         /\ sent' \in [Nodes -> {"no", "neighbour", "undefined"}]
<1>1. Turns(n) \in 0..CyclesBeforeSend
  BY HelloAssumption DEF TypeOK, Turns
<1>2. /\ cycles \in [Nodes -> 0..CyclesBeforeSend]
      /\ sent \in [Nodes -> {"no", "neighbour", "undefined"}]
  BY DEF TypeOK
<1>3. cycles' \in [Nodes -> 0..CyclesBeforeSend]
  BY <1>1, <1>2 DEF Cycle
<1>4. sent' \in [Nodes -> {"no", "neighbour", "undefined"}]
  BY <1>2 DEF Cycle
<1> QED  BY <1>3, <1>4

LEMMA CheckType ==
  ASSUME TypeOK, NEW n \in Nodes, NEW i \in 1..Len(net), CheckSendingHello(n, i)
  PROVE  /\ pending' \subseteq Nodes \X Nodes
         /\ net' \in Seq(Hello)
         /\ count' \in [Events -> Nat]
<1> DEFINE x == net[i].from
<1>1. x \in Nodes
  BY DatagramType
<1>2. Without(net, i) \in Seq(Hello)
  BY WithoutType DEF TypeOK
<1>3. HelloTo(n, x, starts[n]) \in Hello
  BY <1>1, HelloType DEF TypeOK
<1>4. Append(Without(net, i), HelloTo(n, x, starts[n])) \in Seq(Hello)
  BY <1>2, <1>3
<1>5. CASE <<n, x>> \notin pending
  <2>1. count' = [count EXCEPT !["hellos"] = @ + 1]
    BY <1>5 DEF CheckSendingHello
  <2>2. count' \in [Events -> Nat]
    BY <2>1 DEF TypeOK, Events
  <2>3. pending' = pending \cup {<<n, x>>} /\ <<n, x>> \in Nodes \X Nodes
    BY <1>1, <1>5 DEF CheckSendingHello
  <2>4. net' = Append(Without(net, i), HelloTo(n, x, starts[n]))
    BY <1>5 DEF CheckSendingHello
  <2> QED  BY <1>4, <2>2, <2>3, <2>4 DEF TypeOK
<1>6. CASE <<n, x>> \in pending
  BY <1>2, <1>6 DEF TypeOK, CheckSendingHello
<1> QED  BY <1>5, <1>6

LEMMA FinitePending == ASSUME TypeOK PROVE IsFiniteSet(pending)
BY FS_Product, FS_Subset, HelloAssumption DEF TypeOK

LEMMA ProcessTypeOK ==
  ASSUME TypeOK, NEW n \in Nodes, Process(n) PROVE TypeOK'
<1>1. ASSUME starts[n] < MaxStarts PROVE starts[n] + 1 \in Generation
  BY <1>1, HelloAssumption DEF TypeOK, Generation
<1>2. CASE StartPassive(n)
  BY <1>1, <1>2 DEF StartPassive, TypeOK
<1>3. ASSUME NEW x \in Nodes, StartDialling(n, x) PROVE TypeOK'
  <2>1. starts[n] + 1 \in Generation
    BY <1>1, <1>3 DEF StartDialling
  <2>2. HelloTo(n, x, starts[n] + 1) \in Hello
    BY <2>1, HelloType
  <2>3. Append(net, HelloTo(n, x, starts[n] + 1)) \in Seq(Hello)
    BY <2>2 DEF TypeOK
  <2>4. count' \in [Events -> Nat]
    <3>1. count' = [count EXCEPT !["dials"] = @ + 1, !["hellos"] = @ + 1]
      BY <1>3 DEF StartDialling
    <3> DEFINE c == [count EXCEPT !["dials"] = @ + 1]
    <3>2. c \in [Events -> Nat]
      BY DEF TypeOK, Events
    <3>3. count' = [c EXCEPT !["hellos"] = @ + 1]
      BY <3>1
    <3> HIDE DEF c
    <3> QED  BY <3>2, <3>3 DEF Events
  <2> QED  BY <1>3, <2>1, <2>3, <2>4 DEF StartDialling, TypeOK
<1>4. CASE Stop(n)
  <2>1. Cardinality(OfNode(n)) \in Nat
    BY FinitePending, FS_Subset, FS_CardinalityType DEF OfNode
  <2>2. count' \in [Events -> Nat]
    BY <1>4, <2>1 DEF Stop, TypeOK, Events
  <2>3. 0 \in Generation /\ 0 \in 0..CyclesBeforeSend
    BY HelloAssumption DEF Generation
  <2> QED  BY <1>4, <2>2, <2>3 DEF Stop, TypeOK
<1>5. CASE Receive(n)
  <2> PICK i \in 1..Len(net) :
        /\ AddNeighbor(n, net[i])
        /\ CheckSendingHello(n, i)
        /\ Cycle(n)
        /\ UNCHANGED proc
    BY <1>5 DEF Receive
  <2>1. known' \in [Nodes -> [Nodes -> Generation]]
    BY DatagramType DEF AddNeighbor, TypeOK
  <2> QED  BY <2>1, CheckType, CycleType DEF TypeOK, proc
<1>6. CASE Idle(n)
  BY <1>6, CycleType DEF Idle, TypeOK, proc
<1> QED  BY <1>2, <1>3, <1>4, <1>5, <1>6 DEF Process

LEMMA UdpTypeOK == ASSUME TypeOK, Udp PROVE TypeOK'
<1> PICK i \in 1..Len(net) : Lose(i) \/ Duplicate(i)
  BY DEF Udp
<1>1. CASE Lose(i)
  <2>1. Without(net, i) \in Seq(Hello)
    BY WithoutType DEF TypeOK
  <2> QED  BY <1>1, <2>1 DEF Lose, TypeOK, proc, Events
<1>2. CASE Duplicate(i)
  <2>1. Append(net, net[i]) \in Seq(Hello)
    BY DatagramType DEF TypeOK
  <2> QED  BY <1>2, <2>1 DEF Duplicate, TypeOK, proc, Events
<1> QED  BY <1>1, <1>2

LEMMA NextTypeOK == TypeOK /\ [Next]_vars => TypeOK'
<1> SUFFICES ASSUME TypeOK, [Next]_vars PROVE TypeOK'
  OBVIOUS
<1>1. CASE UNCHANGED vars
  BY <1>1 DEF TypeOK, vars, proc
<1> QED  BY <1>1, ProcessTypeOK, UdpTypeOK DEF Next

\* Every variable of the nodes and of the network keeps its type.
THEOREM TypeCorrect == Spec => []TypeOK
BY InitTypeOK, NextTypeOK, PTL DEF Spec

-----------------------------------------------------------------------------
(* HelloBalance.  It is inductive together with: who does not run waits    *)
(* for nobody.  Otherwise a start with an argument might not add to        *)
(* pending what it adds to the network.                                    *)

DownWaitsForNobody == \A n \in Nodes : ~up[n] => OfNode(n) = {}

BalanceInv == TypeOK /\ DownWaitsForNobody /\ HelloBalance

LEMMA Counters ==
  ASSUME TypeOK
  PROVE  /\ Len(net) \in Nat /\ Cardinality(pending) \in Nat
         /\ count["hellos"] \in Nat /\ count["lost"] \in Nat
         /\ count["dials"] \in Nat /\ count["dups"] \in Nat
         /\ count["forgotten"] \in Nat
BY FinitePending, FS_CardinalityType DEF TypeOK, Events

LEMMA InitBalance == Init => BalanceInv
<1> SUFFICES ASSUME Init PROVE BalanceInv
  OBVIOUS
<1>1. TypeOK
  BY InitTypeOK
<1>2. Cardinality(pending) = 0 /\ Len(net) = 0
  BY FS_EmptySet DEF Init
<1>3. \A e \in Events : count[e] = 0
  BY DEF Init
<1>4. HelloBalance
  BY <1>2, <1>3 DEF HelloBalance, Events
<1> QED  BY <1>1, <1>4 DEF BalanceInv, DownWaitsForNobody, OfNode, Init

\* The seven numbers of the balance.
Numbers(h, m, l, d, u, k, f) ==
  /\ count["hellos"] = h /\ Len(net) = m /\ count["lost"] = l
  /\ count["dials"] = d /\ count["dups"] = u
  /\ Cardinality(pending) = k /\ count["forgotten"] = f

LEMMA Named ==
  ASSUME TypeOK, HelloBalance
  PROVE  \E h, m, l, d, u, k, f \in Nat :
           Numbers(h, m, l, d, u, k, f) /\ h + m + l = d + u + k + f
<1>1. Numbers(count["hellos"], Len(net), count["lost"], count["dials"],
              count["dups"], Cardinality(pending), count["forgotten"])
  BY DEF Numbers
<1>2. count["hellos"] + Len(net) + count["lost"]
        = count["dials"] + count["dups"] + Cardinality(pending) + count["forgotten"]
  BY DEF HelloBalance
<1> DEFINE h == count["hellos"]
           m == Len(net)
           l == count["lost"]
           d == count["dials"]
           u == count["dups"]
           k == Cardinality(pending)
           f == count["forgotten"]
<1>3. /\ h \in Nat /\ m \in Nat /\ l \in Nat /\ d \in Nat
      /\ u \in Nat /\ k \in Nat /\ f \in Nat
  BY Counters
<1>4. Numbers(h, m, l, d, u, k, f) /\ h + m + l = d + u + k + f
  BY <1>1, <1>2
<1> HIDE DEF h, m, l, d, u, k, f
<1> QED  BY <1>3, <1>4

LEMMA NetSizes ==
  ASSUME TypeOK, NEW i \in 1..Len(net)
  PROVE  /\ Without(net, i) \in Seq(Hello) /\ Len(Without(net, i)) = Len(net) - 1
         /\ Len(net) \in Nat /\ Len(net) >= 1
         /\ Len(Append(net, net[i])) = Len(net) + 1
<1>1. net \in Seq(Hello) /\ net[i] \in Hello
  BY DatagramType DEF TypeOK
<1>2. Len(net) \in Nat /\ Len(net) >= 1
  BY <1>1
<1>3. Len(Append(net, net[i])) = Len(net) + 1
  BY <1>1
<1> QED  BY <1>1, <1>2, <1>3, WithoutType

LEMMA CountType == BalanceInv => count \in [Events -> Nat]
BY DEF BalanceInv, TypeOK

LEMMA StartBalance ==
  ASSUME BalanceInv, TypeOK', NEW n \in Nodes, NEW x \in Nodes, StartDialling(n, x)
  PROVE  HelloBalance'
<1> PICK h \in Nat, m \in Nat, l \in Nat, d \in Nat, u \in Nat, k \in Nat, f \in Nat :
      Numbers(h, m, l, d, u, k, f) /\ h + m + l = d + u + k + f
  BY Named DEF BalanceInv
<1>1. <<n, x>> \notin pending
  BY DEF BalanceInv, DownWaitsForNobody, OfNode, StartDialling
<1>2. Cardinality(pending') = k + 1
  BY <1>1, FinitePending, FS_AddElement DEF BalanceInv, StartDialling, Numbers
<1>3. Len(net') = m + 1
  <2>1. net \in Seq(Hello) /\ Len(net) = m
    BY DEF BalanceInv, TypeOK, Numbers
  <2>2. \E g : net' = Append(net, g)
    BY DEF StartDialling
  <2> QED  BY <2>1, <2>2
<1>4. count'["dials"] = d + 1 /\ count'["hellos"] = h + 1
  <2> DEFINE c == [count EXCEPT !["dials"] = @ + 1]
  <2>1. c \in [Events -> Nat] /\ c["dials"] = d + 1 /\ c["hellos"] = h
    BY CountType DEF Events, Numbers
  <2>2. count' = [c EXCEPT !["hellos"] = @ + 1]
    BY DEF StartDialling
  <2> HIDE DEF c
  <2> QED  BY <2>1, <2>2 DEF Events
<1>5. UNCHANGED <<count["lost"], count["dups"], count["forgotten"]>>
  BY DEF BalanceInv, TypeOK, Events, StartDialling
<1>6. Numbers(h + 1, m + 1, l, d + 1, u, k + 1, f)'
  BY <1>2, <1>3, <1>4, <1>5 DEF Numbers
<1>7. (h + 1) + (m + 1) + l = (d + 1) + u + (k + 1) + f
  OBVIOUS
<1> QED  BY <1>6, <1>7 DEF Numbers, HelloBalance

LEMMA StopBalance ==
  ASSUME BalanceInv, NEW n \in Nodes, Stop(n) PROVE HelloBalance'
<1> PICK h \in Nat, m \in Nat, l \in Nat, d \in Nat, u \in Nat, k \in Nat, f \in Nat :
      Numbers(h, m, l, d, u, k, f) /\ h + m + l = d + u + k + f
  BY Named DEF BalanceInv
<1>1. IsFiniteSet(pending) /\ IsFiniteSet(OfNode(n)) /\ OfNode(n) \subseteq pending
  BY FinitePending, FS_Subset DEF BalanceInv, OfNode
<1> PICK q \in Nat : q = Cardinality(OfNode(n))
  BY <1>1, FS_CardinalityType
<1>2. q <= k
  BY <1>1, FS_Subset DEF Numbers
<1>3. Cardinality(pending') = k - q
  <2>1. pending \cap OfNode(n) = OfNode(n) /\ pending' = pending \ OfNode(n)
    BY <1>1 DEF Stop
  <2>2. Cardinality(pending \ OfNode(n)) = Cardinality(pending) - Cardinality(OfNode(n))
    <3> DEFINE a == pending
               b == OfNode(n)
    <3> HIDE DEF a, b
    <3>1. IsFiniteSet(a)
      BY <1>1 DEF a
    <3>2. Cardinality(a \ b) = Cardinality(a) - Cardinality(a \cap b)
      BY <3>1, FS_Difference
    <3> QED  BY <2>1, <3>2, Zenon DEF a, b
  <2> QED  BY <2>1, <2>2 DEF Numbers
<1> PICK r \in Nat : k = q + r
  <2>1. k - q \in Nat /\ k = q + (k - q)
    BY <1>2
  <2> QED  BY <2>1
<1>4. count'["forgotten"] = f + q
  BY DEF BalanceInv, TypeOK, Events, Stop, Numbers
<1>5. UNCHANGED <<net, count["hellos"], count["lost"], count["dials"], count["dups"]>>
  BY DEF BalanceInv, TypeOK, Events, Stop
<1>6. Numbers(h, m, l, d, u, r, f + q)'
  BY <1>3, <1>4, <1>5 DEF Numbers
<1>7. h + m + l = d + u + r + (f + q)
  OBVIOUS
<1> QED  BY <1>6, <1>7 DEF Numbers, HelloBalance

LEMMA CheckBalance ==
  ASSUME BalanceInv, NEW n \in Nodes, NEW i \in 1..Len(net), CheckSendingHello(n, i)
  PROVE  HelloBalance'
<1> PICK h \in Nat, m \in Nat, l \in Nat, d \in Nat, u \in Nat, k \in Nat, f \in Nat :
      Numbers(h, m, l, d, u, k, f) /\ h + m + l = d + u + k + f
  BY Named DEF BalanceInv
<1> DEFINE x == net[i].from
<1>1. IsFiniteSet(pending)
  BY FinitePending DEF BalanceInv
<1>2. Without(net, i) \in Seq(Hello) /\ Len(Without(net, i)) = m - 1 /\ m >= 1
  BY NetSizes DEF BalanceInv, Numbers
<1>3. CASE <<n, x>> \notin pending
  <2>1. Cardinality(pending') = k + 1
    BY <1>1, <1>3, FS_AddElement DEF CheckSendingHello, Numbers
  <2>2. HelloTo(n, x, starts[n]) \in Hello
    BY DatagramType, HelloType DEF BalanceInv, TypeOK
  <2>3. Len(net') = m
    <3>1. net' = Append(Without(net, i), HelloTo(n, x, starts[n]))
      BY <1>3 DEF CheckSendingHello
    <3> HIDE DEF x
    <3> QED  BY <1>2, <2>2, <3>1
  <2>4. count'["hellos"] = h + 1
    BY <1>3 DEF BalanceInv, TypeOK, Events, CheckSendingHello, Numbers
  <2>5. UNCHANGED <<count["lost"], count["dials"], count["dups"], count["forgotten"]>>
    BY <1>3 DEF BalanceInv, TypeOK, Events, CheckSendingHello
  <2>6. Numbers(h + 1, m, l, d, u, k + 1, f)'
    BY <2>1, <2>3, <2>4, <2>5 DEF Numbers
  <2>7. (h + 1) + m + l = d + u + (k + 1) + f
    OBVIOUS
  <2> QED  BY <2>6, <2>7 DEF Numbers, HelloBalance
<1>4. CASE <<n, x>> \in pending
  <2>1. Cardinality(pending') = k - 1
    BY <1>1, <1>4, FS_RemoveElement DEF CheckSendingHello, Numbers
  <2>2. net' = Without(net, i) /\ UNCHANGED count
    BY <1>4 DEF CheckSendingHello
  <2>3. Numbers(h, m - 1, l, d, u, k - 1, f)'
    BY <1>2, <2>1, <2>2 DEF Numbers
  <2>4. h + (m - 1) + l = d + u + (k - 1) + f
    OBVIOUS
  <2> QED  BY <2>3, <2>4 DEF Numbers, HelloBalance
<1> QED  BY <1>3, <1>4

LEMMA UdpBalance == ASSUME BalanceInv, Udp PROVE HelloBalance'
<1> PICK h \in Nat, m \in Nat, l \in Nat, d \in Nat, u \in Nat, k \in Nat, f \in Nat :
      Numbers(h, m, l, d, u, k, f) /\ h + m + l = d + u + k + f
  BY Named DEF BalanceInv
<1> PICK i \in 1..Len(net) : Lose(i) \/ Duplicate(i)
  BY DEF Udp
<1>1. CASE Lose(i)
  <2>1. Len(net') = m - 1 /\ m >= 1
    BY <1>1, NetSizes DEF BalanceInv, Lose, Numbers
  <2>2. count'["lost"] = l + 1
    BY <1>1 DEF BalanceInv, TypeOK, Events, Lose, Numbers
  <2>3. UNCHANGED <<pending, count["hellos"], count["dials"], count["dups"], count["forgotten"]>>
    BY <1>1 DEF BalanceInv, TypeOK, Events, Lose
  <2>4. Numbers(h, m - 1, l + 1, d, u, k, f)'
    BY <2>1, <2>2, <2>3 DEF Numbers
  <2>5. h + (m - 1) + (l + 1) = d + u + k + f
    OBVIOUS
  <2> QED  BY <2>4, <2>5 DEF Numbers, HelloBalance
<1>2. CASE Duplicate(i)
  <2>1. Len(net') = m + 1
    BY <1>2, NetSizes DEF BalanceInv, Duplicate, Numbers
  <2>2. count'["dups"] = u + 1
    BY <1>2 DEF BalanceInv, TypeOK, Events, Duplicate, Numbers
  <2>3. UNCHANGED <<pending, count["hellos"], count["dials"], count["lost"], count["forgotten"]>>
    BY <1>2 DEF BalanceInv, TypeOK, Events, Duplicate
  <2>4. Numbers(h, m + 1, l, d, u + 1, k, f)'
    BY <2>1, <2>2, <2>3 DEF Numbers
  <2>5. h + (m + 1) + l = d + (u + 1) + k + f
    OBVIOUS
  <2> QED  BY <2>4, <2>5 DEF Numbers, HelloBalance
<1> QED  BY <1>1, <1>2

LEMMA NextDown == ASSUME BalanceInv, Next PROVE DownWaitsForNobody'
<1> SUFFICES ASSUME NEW y \in Nodes, ~up'[y] PROVE \A pair \in pending' : pair[1] # y
  BY DEF DownWaitsForNobody, OfNode
<1>1. ~up[y] => \A pair \in pending : pair[1] # y
  BY DEF BalanceInv, DownWaitsForNobody, OfNode
<1>2. CASE Udp
  BY <1>1, <1>2 DEF Udp, Lose, Duplicate, proc
<1>3. ASSUME NEW n \in Nodes, Process(n) PROVE \A pair \in pending' : pair[1] # y
  <2>1. CASE StartPassive(n)
    BY <1>1, <2>1 DEF StartPassive, BalanceInv, TypeOK
  <2>2. ASSUME NEW x \in Nodes, StartDialling(n, x) PROVE \A pair \in pending' : pair[1] # y
    <3>1. n # y /\ ~up[y]
      BY <2>2 DEF StartDialling, BalanceInv, TypeOK
    <3> QED  BY <1>1, <2>2, <3>1 DEF StartDialling
  <2>3. CASE Stop(n)
    BY <1>1, <2>3 DEF Stop, OfNode, BalanceInv, TypeOK
  <2>4. CASE Receive(n)
    <3> PICK i \in 1..Len(net) : up[n] /\ CheckSendingHello(n, i) /\ UNCHANGED proc
      BY <2>4 DEF Receive
    <3>1. n # y /\ ~up[y]
      BY DEF proc
    <3>2. pending' \subseteq pending \cup {<<n, net[i].from>>}
      BY DEF CheckSendingHello
    <3> QED  BY <1>1, <3>1, <3>2
  <2>5. CASE Idle(n)
    BY <1>1, <2>5 DEF Idle, proc
  <2> QED  BY <1>3, <2>1, <2>2, <2>3, <2>4, <2>5 DEF Process
<1> QED  BY <1>2, <1>3 DEF Next

LEMMA NextBalance == BalanceInv /\ [Next]_vars => BalanceInv'
<1> SUFFICES ASSUME BalanceInv, [Next]_vars PROVE BalanceInv'
  OBVIOUS
<1>1. CASE UNCHANGED vars
  BY <1>1 DEF BalanceInv, TypeOK, DownWaitsForNobody, OfNode, HelloBalance, vars, proc
<1>2. CASE Next
  <2>1. TypeOK'
    BY <1>2, NextTypeOK DEF BalanceInv
  <2>2. DownWaitsForNobody'
    BY <1>2, NextDown
  <2>3. CASE Udp
    BY <2>1, <2>2, <2>3, UdpBalance DEF BalanceInv
  <2>4. ASSUME NEW n \in Nodes, Process(n) PROVE HelloBalance'
    <3>1. CASE StartPassive(n) \/ Idle(n)
      BY <3>1 DEF StartPassive, Idle, HelloBalance, BalanceInv
    <3>2. ASSUME NEW x \in Nodes, StartDialling(n, x) PROVE HelloBalance'
      BY <2>1, <3>2, StartBalance
    <3>3. CASE Stop(n)
      BY <3>3, StopBalance
    <3>4. CASE Receive(n)
      BY <3>4, CheckBalance DEF Receive
    <3> QED  BY <2>4, <3>1, <3>2, <3>3, <3>4 DEF Process
  <2> QED  BY <1>2, <2>1, <2>2, <2>3, <2>4 DEF BalanceInv, Next
<1> QED  BY <1>1, <1>2

\* Every hello is paid for: with any number of nodes, restarts, losses and
\* duplicates, answers are never answered without end.
THEOREM BalanceHolds == Spec => []HelloBalance
<1>1. BalanceInv => HelloBalance
  BY DEF BalanceInv
<1> QED  BY <1>1, InitBalance, NextBalance, PTL DEF Spec
=============================================================================
