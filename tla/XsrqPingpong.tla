---------------------------- MODULE XsrqPingpong -----------------------------
(***************************************************************************)
(* xsrq_pingpong.c of RDMA/examples: a server plays with N clients of one   *)
(* host over extended reliable connections.  Its sends to client i take     *)
(* turns on all its queue pairs: message k to client i goes to the target   *)
(* queue pair of client (i + k) % N and from there to the shared receive    *)
(* queue of client i.  No client may close before all have their messages.  *)
(***************************************************************************)
EXTENDS Naturals, Sequences, FiniteSets

CONSTANTS NumClients,  \* option -c of the server
          NumTests,    \* option -n, the same everywhere
          UseEvent,    \* the values option -e may have in a process
          Faults       \* what may go wrong, or nothing does

ASSUME XsrqAssumption ==
  /\ NumClients \in Nat \ {0} /\ NumTests \in Nat \ {0}
  /\ UseEvent \subseteq BOOLEAN
  /\ Faults \subseteq {"verbs", "retry"}

Clients == 0..(NumClients - 1)   \* in the order in which they are accepted
Server == NumClients
Nodes == Clients \cup {Server}

\* num_clients in each process: a client is its own only one.
Links(x) == IF x = Server THEN Clients ELSE {x}
Count(x) == Cardinality(Links(x))
Total(x) == Count(x) * NumTests

VARIABLES
  faults, use_event, pc,
  i,                \* loop variable of the server
  cnt, wc,
  pp_cnt,           \* rem_dest[].pp_cnt: sends to each partner
  tcp,              \* what is under way to each end of the N TCP connections
  conn,             \* <<x, j>>: the queue pairs of x for partner j are connected
  broken,           \* <<x, j>>: and this one has given up
  out,              \* messages posted on each queue pair and not arrived
  acks,             \* signalled sends that arrived and are not acknowledged
  rq,               \* receives in the shared receive queue
  recv_cq, send_cq, \* completion queues
  armed, events     \* notification of recv_cq

proc == <<i, cnt, wc, pp_cnt>>
link == <<conn, broken, out, acks>>
queues == <<rq, recv_cq, send_cq, armed, events>>
options == <<faults, use_event>>
vars == <<options, pc, proc, tcp, link, queues>>

Of(x) == [j \in Links(x) |-> 0]

Init ==
  /\ faults \in {{}, Faults}
  /\ use_event \in [Nodes -> UseEvent]
  /\ pc = [x \in Nodes |-> "start"]
  /\ i = 0
  /\ cnt = [x \in Nodes |-> 0] /\ wc = [x \in Nodes |-> x]
  /\ pp_cnt = [x \in Nodes |-> Of(x)]
  /\ tcp = [x \in Nodes |-> [j \in Links(x) |-> <<>>]]
  /\ conn = {} /\ broken = {}
  /\ out = [x \in Nodes |-> [j \in Links(x) |-> <<>>]]
  /\ acks = [x \in Nodes |-> 0]
  /\ rq = [x \in Nodes |-> 0]
  /\ recv_cq = [x \in Nodes |-> <<>>] /\ send_cq = [x \in Nodes |-> 0]
  /\ armed = [x \in Nodes |-> FALSE] /\ events = [x \in Nodes |-> 0]

Step(x, from, to) == pc[x] = from /\ pc' = [pc EXCEPT ![x] = to]

\* The process ends, and its queue pairs and queues with it.
Leave(x, how) ==
  /\ pc' = [pc EXCEPT ![x] = how]
  /\ conn' = conn \ ({x} \X Clients)
  /\ out' = [out EXCEPT ![x] = [j \in Links(x) |-> <<>>]]
  /\ acks' = [acks EXCEPT ![x] = 0]
  /\ UNCHANGED <<options, proc, tcp, broken, queues>>

-----------------------------------------------------------------------------
(* Start and connection.                                                   *)

\* pp_init_ctx, which arms the queue, and the first receives.
Prepare(x) ==
  /\ Step(x, "start", IF x = Server THEN "recv_dest" ELSE "send_dest")
  /\ x # Server => pc[Server] # "start"
  /\ rq' = [rq EXCEPT ![x] = Count(x)]
  /\ armed' = [armed EXCEPT ![x] = use_event[x]]
  /\ UNCHANGED <<options, proc, tcp, link, recv_cq, send_cq, events>>

\* The two ends of connection j are Server and j.
Far(x, j) == IF x = Server THEN j ELSE Server

Write(x, j, m) == tcp' = [tcp EXCEPT ![Far(x, j)][j] = Append(@, m)]

\* A read loops until it has a message, after the end of the stream for ever.
Read(x, j, m) == /\ tcp[x][j] # <<>> /\ Head(tcp[x][j]) = m
                 /\ tcp' = [tcp EXCEPT ![x][j] = Tail(@)]

TcpOnly == UNCHANGED <<options, cnt, wc, pp_cnt, link, queues>>

ConnectQps(x, j) ==
  /\ conn' = conn \cup {<<x, j>>}
  /\ UNCHANGED <<options, cnt, wc, pp_cnt, tcp, broken, out,
                 acks, queues>>

\* while (cnt < total)
LoopHead(x, c) == IF c >= Total(x) THEN "drain"
                  ELSE IF use_event[x] THEN "get_event" ELSE "poll"

ClientConnect(x) ==
  /\ UNCHANGED i
  /\ \/ Step(x, "send_dest", "recv_dest") /\ Write(x, x, "dest") /\ TcpOnly
     \/ Step(x, "recv_dest", "connect") /\ Read(x, x, "dest") /\ TcpOnly
     \/ Step(x, "connect", LoopHead(x, 0)) /\ ConnectQps(x, x)

\* One client after the other; then the first send to each.
ServerConnect ==
  \/ Step(Server, "recv_dest", "send_dest") /\ Read(Server, i, "dest")
     /\ UNCHANGED i /\ TcpOnly
  \/ Step(Server, "send_dest", "connect") /\ Write(Server, i, "dest")
     /\ UNCHANGED i /\ TcpOnly
  \/ /\ Step(Server, "connect", IF i + 1 < NumClients THEN "recv_dest"
                                ELSE "serve")
     /\ i' = (i + 1) % NumClients
     /\ ConnectQps(Server, i)

-----------------------------------------------------------------------------
(* Sends and receives.                                                     *)

\* A send to partner j takes the queue pair whose turn it is; the last one is
\* signalled.  A queue pair that has given up completes it with an error.
\* pp_post_send's result is not looked at.
PostSend(x, j) ==
  LET qpi  == IF x = Server THEN (j + pp_cnt[x][j]) % NumClients ELSE x
      last == pp_cnt[x][j] + 1 >= NumTests
  IN /\ pp_cnt' = [pp_cnt EXCEPT ![x][j] = @ + 1]
     /\ IF <<x, qpi>> \in broken
        THEN /\ send_cq' = [send_cq EXCEPT ![x] = @ + 1]
             /\ UNCHANGED out
        ELSE /\ out' = [out EXCEPT ![x][qpi] =
                          Append(@, [to |-> Far(x, j), last |-> last])]
             /\ UNCHANGED send_cq

Serve ==
  /\ Step(Server, "serve", IF i + 1 < NumClients THEN "serve"
                           ELSE LoopHead(Server, 0))
  /\ i' = (i + 1) % NumClients
  /\ PostSend(Server, i)
  /\ UNCHANGED <<options, cnt, wc, tcp, conn, broken, acks,
                 rq, recv_cq, armed, events>>

\* The events are counted, and acknowledged together after the loop: that count
\* is left out.
GetCqEvent(x) ==
  /\ Step(x, "get_event", "req_notify")
  /\ events[x] > 0
  /\ events' = [events EXCEPT ![x] = @ - 1]
  /\ UNCHANGED <<options, i, cnt, wc, pp_cnt, tcp, link, rq, recv_cq,
                 send_cq, armed>>

\* Mutant of ReqNotify: the queue is not armed again.
ReqNothing(x) ==
  /\ Step(x, "req_notify", "poll")
  /\ UNCHANGED <<options, proc, tcp, link, queues>>

ReqNotify(x) ==
  /\ Step(x, "req_notify", "poll")
  /\ armed' = [armed EXCEPT ![x] = TRUE]
  /\ UNCHANGED <<options, proc, tcp, link, rq, recv_cq, send_cq, events>>

\* One completion at a time, until the queue is empty.
PollCq(x) ==
  \/ /\ recv_cq[x] # <<>>
     /\ Step(x, "poll", "post_recv")
     /\ wc' = [wc EXCEPT ![x] = Head(recv_cq[x])]
     /\ recv_cq' = [recv_cq EXCEPT ![x] = Tail(@)]
     /\ UNCHANGED <<options, i, cnt, pp_cnt, tcp, link, rq,
                    send_cq, armed, events>>
  \/ /\ recv_cq[x] = <<>>
     /\ Step(x, "poll", LoopHead(x, cnt[x]))
     /\ cnt' = [cnt EXCEPT ![x] = IF @ >= Total(x) THEN 0 ELSE @]
     /\ UNCHANGED <<options, i, wc, pp_cnt, tcp, link, queues>>

\* Mutant of PostRecv: no receive is posted.
PostNothing(x) ==
  /\ Step(x, "post_recv", "reply")
  /\ UNCHANGED <<options, proc, tcp, link, queues>>

PostRecv(x) ==
  /\ Step(x, "post_recv", "reply")
  /\ rq' = [rq EXCEPT ![x] = @ + 1]
  /\ UNCHANGED <<options, proc, tcp, link, recv_cq, send_cq, armed, events>>

\* find_qp: the partner whose queue pair it came by; then the next send to it.
Reply(x) ==
  LET qpi == IF x = Server THEN wc[x] ELSE x IN
  /\ Step(x, "reply", "poll")
  /\ IF pp_cnt[x][qpi] < NumTests THEN PostSend(x, qpi)
     ELSE UNCHANGED <<pp_cnt, out, send_cq>>
  /\ cnt' = [cnt EXCEPT ![x] = @ + 1]
  /\ UNCHANGED <<options, i, wc, tcp, conn, broken, acks, rq,
                 recv_cq, armed, events>>

\* A completion for the last send to each partner; its status is not read.
Drain(x) ==
  /\ send_cq[x] > 0
  /\ send_cq' = [send_cq EXCEPT ![x] = @ - 1]
  /\ cnt' = [cnt EXCEPT ![x] = @ + 1]
  /\ Step(x, "drain", IF cnt[x] + 1 < Count(x) THEN "drain"
                      ELSE IF x = Server THEN "recv_end" ELSE "send_end")
  /\ UNCHANGED <<options, i, wc, pp_cnt, tcp, link, rq,
                 recv_cq, armed, events>>

-----------------------------------------------------------------------------
(* Termination.                                                            *)

\* Mutant of ClientTermination: the client does not wait for the server.
ClientLeaves(x) ==
  /\ UNCHANGED i /\ TcpOnly
  /\ Step(x, "send_end", "close") /\ Write(x, x, "END")

ClientTermination(x) ==
  /\ UNCHANGED i /\ TcpOnly
  /\ \/ Step(x, "send_end", "recv_end") /\ Write(x, x, "END")
     \/ Step(x, "recv_end", "close") /\ Read(x, x, "END")

ServerTermination ==
  LET then(here, next) == IF i + 1 < NumClients THEN here ELSE next IN
  /\ i' = (i + 1) % NumClients /\ TcpOnly
  /\ \/ /\ Step(Server, "recv_end", then("recv_end", "send_end"))
        /\ Read(Server, i, "END")
     \/ /\ Step(Server, "send_end", then("send_end", "close"))
        /\ Write(Server, i, "END")

CloseCtx(x) == pc[x] = "close" /\ Leave(x, "ok")

Over == {"ok", "failed"}

CallFails(x) == /\ "verbs" \in faults /\ pc[x] \notin Over
                /\ Leave(x, "failed")

-----------------------------------------------------------------------------
(* The adapters.                                                           *)

\* The head of a queue pair arrives when the target is connected and the
\* receiver has a receive; the order on a queue pair is kept.
Deliver(x, j) ==
  /\ out[x][j] # <<>> /\ <<x, j>> \in conn /\ <<Far(x, j), j>> \in conn
  /\ LET m == Head(out[x][j])
         y == m.to
     IN /\ pc[y] \notin Over /\ rq[y] > 0
        /\ rq' = [rq EXCEPT ![y] = @ - 1]
        /\ recv_cq' = [recv_cq EXCEPT ![y] =
                         Append(@, IF x = Server THEN y ELSE x)]
        /\ armed' = [armed EXCEPT ![y] = FALSE]
        /\ events' = [events EXCEPT ![y] = IF armed[y] THEN @ + 1 ELSE @]
        /\ acks' = [acks EXCEPT ![x] = IF m.last THEN @ + 1 ELSE @]
  /\ out' = [out EXCEPT ![x][j] = Tail(@)]
  /\ UNCHANGED <<options, pc, proc, tcp, conn, broken, send_cq>>

Acknowledge(x) ==
  /\ acks[x] > 0
  /\ acks' = [acks EXCEPT ![x] = @ - 1]
  /\ send_cq' = [send_cq EXCEPT ![x] = @ + 1]
  /\ UNCHANGED <<options, pc, proc, tcp, conn, broken, out, rq, recv_cq,
                 armed, events>>

\* The target is gone, or not yet connected when the retries are used up: what
\* was posted on the queue pair completes with errors, signalled or not.
GiveUp(x, j) ==
  /\ out[x][j] # <<>> /\ <<Far(x, j), j>> \notin conn
  /\ pc[Far(x, j)] \in Over \/ "retry" \in faults
  /\ broken' = broken \cup {<<x, j>>}
  /\ send_cq' = [send_cq EXCEPT ![x] = @ + Len(out[x][j])]
  /\ out' = [out EXCEPT ![x][j] = <<>>]
  /\ UNCHANGED <<options, pc, proc, tcp, conn, acks, rq, recv_cq, armed,
                 events>>

-----------------------------------------------------------------------------
Program(x) ==
  \/ Prepare(x)
  \/ x # Server /\ (ClientConnect(x) \/ ClientTermination(x))
  \/ x = Server /\ (ServerConnect \/ Serve \/ ServerTermination)
  \/ GetCqEvent(x) \/ ReqNotify(x) \/ PollCq(x) \/ PostRecv(x) \/ Reply(x)
  \/ Drain(x) \/ CloseCtx(x)

Done == (\A x \in Nodes : pc[x] \in Over) /\ UNCHANGED vars

Next == \/ \E x \in Nodes : Program(x) \/ CallFails(x) \/ Acknowledge(x)
        \/ \E x \in Nodes : \E j \in Links(x) : Deliver(x, j) \/ GiveUp(x, j)
        \/ Done

Fairness == \A x \in Nodes :
  /\ WF_vars(Program(x)) /\ WF_vars(Acknowledge(x))
  /\ \A j \in Links(x) : WF_vars(Deliver(x, j))

Spec == Init /\ [][Next]_vars /\ Fairness

-----------------------------------------------------------------------------
\* Messages under way to x, on whatever queue pair.
InFlight(x) ==
  {e \in Nodes \X Clients \X (1..NumTests * NumClients) :
     LET y == e[1]  j == e[2]  k == e[3] IN
     j \in Links(y) /\ k \in DOMAIN out[y][j] /\ out[y][j][k].to = x}

\* The receive queue and the receive completion queue have an entry for each
\* partner: the program posts the next receive before it replies, so that every
\* message finds one, and no queue overflows.
OneForEach == \A x \in Nodes : pc[x] \notin {"start"} \cup Over =>
  /\ Cardinality(InFlight(x)) <= rq[x]
  /\ rq[x] + Len(recv_cq[x]) <= Count(x)

\* "make sure latest daemon's response sent via its target QP destined to an
\* XSRQ created by another client won't be lost": nobody closes while a message
\* or its acknowledgement still needs one of its queue pairs.
NothingLost == \A x \in Nodes : pc[x] = "ok" =>
  \A y \in Nodes : /\ pc[y] # "failed" => acks[y] = 0
                   /\ \A j \in Links(y) : Far(y, j) = x => out[y][j] = <<>>

\* Who prints "success" speaks for all: every client has had its NumTests
\* messages answered, although the status of a send is never looked at.
SuccessIsShared == (\E x \in Nodes : pc[x] = "ok") =>
  \A j \in Clients : /\ pp_cnt[Server][j] = NumTests
                     /\ pp_cnt[j][j] = NumTests

\* When no call fails and every client connects in time, all succeed.
AllSucceed == faults = {} => <>(\A x \in Nodes : pc[x] = "ok")
=============================================================================
