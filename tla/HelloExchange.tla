---------------------------- MODULE HelloExchange ----------------------------
(***************************************************************************)
(* RDMA/udp1: nodes tell each other the address of their UD queue pair in  *)
(* "hello" datagrams.  A node started with an <ip> argument (app.cpp)      *)
(* greets that node and, eleven turns of its main loop later, builds a     *)
(* send request for the first neighbour it knows; a node that is greeted   *)
(* answers once.  UDP loses, duplicates and reorders; nodes come and go.   *)
(***************************************************************************)
EXTENDS Integers, Sequences, FiniteSets

CONSTANTS
  Nodes,             \* IP addresses, as the keys of neighbor_map (uint32_t)
  CyclesBeforeSend,  \* turns of the main loop before the request (11)
  MaxStarts,         \* bound: how often a node is started
  MaxLost, MaxDups,  \* bounds: datagrams UDP loses, and duplicates
  Orderly            \* a node is only greeted when it runs, and answers in time

NoNode == 0

ASSUME HelloAssumption ==
  /\ Nodes \subseteq Nat \ {NoNode} /\ IsFiniteSet(Nodes)
  /\ CyclesBeforeSend \in Nat \ {0}
  /\ MaxStarts \in Nat /\ MaxLost \in Nat /\ MaxDups \in Nat
  /\ Orderly \in BOOLEAN

VARIABLES
  up,       \* up[n]: the process runs
  starts,   \* starts[n]: its number; every process has a new queue pair number
  target,   \* target[n]: argv[1]
  known,    \* known[n][x]: the process whose address is in n's neighbor_map
            \* under x, 0 if there is no entry
  pending,  \* pairs <<n, x>> with x in n's pending_hello
  cycles,   \* cycles[n] of main
  sent,     \* sent[n]: what main's send request was built for
  net,      \* datagrams under way
  count     \* history: events since the beginning

proc == <<up, starts, target>>
vars == <<proc, known, pending, cycles, sent, net, count>>

Generation == 0..MaxStarts
Hello == [from : Nodes, to : Nodes, gen : Generation]
Events == {"dials", "hellos", "lost", "dups", "forgotten"}

TypeOK ==
  /\ up \in [Nodes -> BOOLEAN]
  /\ starts \in [Nodes -> Generation]
  /\ target \in [Nodes -> Nodes \cup {NoNode}]
  /\ known \in [Nodes -> [Nodes -> Generation]]
  /\ pending \subseteq Nodes \X Nodes
  /\ cycles \in [Nodes -> 0..CyclesBeforeSend]
  /\ sent \in [Nodes -> {"no", "neighbour", "undefined"}]
  /\ net \in Seq(Hello)
  /\ count \in [Events -> Nat]

Init ==
  /\ up = [n \in Nodes |-> FALSE]
  /\ starts = [n \in Nodes |-> 0]
  /\ target = [n \in Nodes |-> NoNode]
  /\ known = [n \in Nodes |-> [x \in Nodes |-> 0]]
  /\ pending = {}
  /\ cycles = [n \in Nodes |-> 0]
  /\ sent = [n \in Nodes |-> "no"]
  /\ net = <<>>
  /\ count = [e \in Events |-> 0]

Without(s, i) == SubSeq(s, 1, i - 1) \o SubSeq(s, i + 1, Len(s))

HelloTo(n, x, gen) == [from |-> n, to |-> x, gen |-> gen]

-----------------------------------------------------------------------------
(* Processes.                                                              *)

\* main up to the loop: a node without argument only waits.
StartPassive(n) ==
  /\ ~up[n] /\ starts[n] < MaxStarts
  /\ up' = [up EXCEPT ![n] = TRUE]
  /\ starts' = [starts EXCEPT ![n] = @ + 1]
  /\ UNCHANGED <<target, known, pending, cycles, sent, net, count>>

\* The other calls send_hello(argv[1]).
StartDialling(n, x) ==
  /\ ~up[n] /\ starts[n] < MaxStarts
  /\ up' = [up EXCEPT ![n] = TRUE]
  /\ Orderly => up'[x]
  /\ starts' = [starts EXCEPT ![n] = @ + 1]
  /\ target' = [target EXCEPT ![n] = x]
  /\ pending' = pending \cup {<<n, x>>}
  /\ net' = Append(net, HelloTo(n, x, starts[n] + 1))
  /\ count' = [count EXCEPT !["dials"] = @ + 1, !["hellos"] = @ + 1]
  /\ UNCHANGED <<known, cycles, sent>>

OfNode(n) == {pair \in pending : pair[1] = n}

\* A process ends, and with it all it knows.
Stop(n) ==
  /\ up[n] /\ starts[n] < MaxStarts
  /\ up' = [up EXCEPT ![n] = FALSE]
  /\ target' = [target EXCEPT ![n] = NoNode]
  /\ known' = [known EXCEPT ![n] = [x \in Nodes |-> 0]]
  /\ pending' = pending \ OfNode(n)
  /\ cycles' = [cycles EXCEPT ![n] = 0]
  /\ sent' = [sent EXCEPT ![n] = "no"]
  /\ count' = [count EXCEPT !["forgotten"] = @ + Cardinality(OfNode(n))]
  /\ UNCHANGED <<starts, net>>

-----------------------------------------------------------------------------
(* One turn of the main loop.                                              *)

\* add_neighbor keeps the address of the first hello of x.
AddNeighbor(n, m) ==
  known' = [known EXCEPT ![n][m.from] = IF @ = 0 THEN m.gen ELSE @]

\* Mutants of check_sending_hello: it answers always; it answers without
\* remembering that it has.
AnswerAlways(n, i) ==
  LET x == net[i].from IN
  /\ pending' = pending \cup {<<n, x>>}
  /\ net' = Append(Without(net, i), HelloTo(n, x, starts[n]))
  /\ UNCHANGED count

AnswerUnrecorded(n, i) ==
  LET x == net[i].from IN
  IF <<n, x>> \notin pending
  THEN /\ net' = Append(Without(net, i), HelloTo(n, x, starts[n]))
       /\ count' = [count EXCEPT !["hellos"] = @ + 1]
       /\ UNCHANGED pending
  ELSE /\ pending' = pending \ {<<n, x>>}
       /\ net' = Without(net, i)
       /\ UNCHANGED count

\* check_sending_hello: who is not waited for is greeted, and waited for.
CheckSendingHello(n, i) ==
  LET x == net[i].from IN
  IF <<n, x>> \notin pending
  THEN /\ pending' = pending \cup {<<n, x>>}
       /\ net' = Append(Without(net, i), HelloTo(n, x, starts[n]))
       /\ count' = [count EXCEPT !["hellos"] = @ + 1]
  ELSE /\ pending' = pending \ {<<n, x>>}
       /\ net' = Without(net, i)
       /\ UNCHANGED count

\* Mutant: the initiator does not wait.
HasWaitedNever(n) == cycles'[n] > 0

Turns(n) == IF cycles[n] < CyclesBeforeSend THEN cycles[n] + 1 ELSE cycles[n]

HasWaited(n) == cycles'[n] >= CyclesBeforeSend

\* The end of the loop body.  get_app_dest dereferences neighbor_map.begin(),
\* which is undefined in an empty map; a process that does not survive it is a
\* Stop.
Cycle(n) ==
  IF target[n] = NoNode THEN UNCHANGED <<cycles, sent>> ELSE
  /\ cycles' = [cycles EXCEPT ![n] = Turns(n)]
  /\ sent' = [sent EXCEPT ![n] =
                IF @ # "no" \/ ~HasWaited(n) THEN @
                ELSE IF \E x \in Nodes : known'[n][x] # 0 THEN "neighbour"
                ELSE "undefined"]

\* epoll_wait reports the socket: one datagram is received.
Receive(n) ==
  \E i \in 1..Len(net) :
    /\ up[n]
    /\ net[i].to = n
    /\ AddNeighbor(n, net[i])
    /\ CheckSendingHello(n, i)
    /\ Cycle(n)
    /\ UNCHANGED proc

\* In an orderly world nothing n could still hear of takes longer than the
\* turns n waits (10 ms each).
Overdue(n) ==
  /\ cycles[n] = CyclesBeforeSend - 1
  /\ \E i \in 1..Len(net) : n \in {net[i].from, net[i].to}

\* epoll_wait times out.
Idle(n) ==
  /\ up[n]
  /\ Orderly => ~Overdue(n)
  /\ UNCHANGED <<proc, known, pending, net, count>>
  /\ Cycle(n)

-----------------------------------------------------------------------------
(* UDP.                                                                    *)

\* A datagram gets lost, or meets no process.
Lose(i) ==
  /\ count["lost"] < MaxLost \/ ~up[net[i].to]
  /\ net' = Without(net, i)
  /\ count' = [count EXCEPT !["lost"] = @ + 1]
  /\ UNCHANGED <<proc, known, pending, cycles, sent>>

Duplicate(i) ==
  /\ count["dups"] < MaxDups
  /\ net' = Append(net, net[i])
  /\ count' = [count EXCEPT !["dups"] = @ + 1]
  /\ UNCHANGED <<proc, known, pending, cycles, sent>>

Udp == \E i \in 1..Len(net) : Lose(i) \/ Duplicate(i)

Undeliverable == \E i \in 1..Len(net) : ~up[net[i].to] /\ Lose(i)

Process(n) == \/ StartPassive(n) \/ Stop(n)
              \/ \E x \in Nodes : StartDialling(n, x)
              \/ Receive(n) \/ Idle(n)

Next == Udp \/ \E n \in Nodes : Process(n)

\* epoll_wait does not overlook a datagram, and none stays in the network for
\* ever.  Nobody has to start or to stop a node.
Fairness == /\ WF_vars(Undeliverable)
            /\ \A n \in Nodes : WF_vars(Receive(n))

Spec == Init /\ [][Next]_vars

FairSpec == Spec /\ Fairness

-----------------------------------------------------------------------------
\* Every hello is paid for: by a start with an argument, a duplicate UDP made
\* or an entry of pending_hello (also one that ended with its process), less
\* the datagrams that are still under way or were never received.  So a node
\* does not answer answers without end.
HelloBalance ==
  count["hellos"] + Len(net) + count["lost"]
    = count["dials"] + count["dups"] + Cardinality(pending) + count["forgotten"]

\* A node that has been told whom to greet gets to know it, and in time: when
\* it builds its send request, get_app_dest is not called on an empty
\* neighbor_map.
TargetGetsKnown ==
  \A n, x \in Nodes :
    (up[n] /\ target[n] = x) ~> (known[n][x] # 0 /\ sent[n] # "undefined")

\* Whatever UDP does and whoever restarts, the network gets quiet.
GoesQuiet == <>[](net = <<>>)
=============================================================================
