---------------------------- MODULE EpollServer ----------------------------
(***************************************************************************)
(* start_server and use_conn_fd of RDMA/test3.cpp.  epoll_wait reports a   *)
(* batch of descriptors, which the loop takes one after the other; client  *)
(* descriptors are edge-triggered, so that what is not read when it is     *)
(* reported is not reported again.  A batch is served in any order.        *)
(***************************************************************************)
EXTENDS Sockets

VARIABLE batch   \* events[n .. nfds-1]: what is still to be served

Listener == "listener"

ASSUME EpollAssumption == Listener \notin Clients

EpollRun == server = "epoll" /\ srv = "run"

EpollWait ==
  /\ EpollRun /\ batch = {}
  /\ LET events == ready \cup (IF Backlog # {} THEN {Listener} ELSE {}) IN
     events # {} /\ batch' = events
  /\ ready' = {}
  /\ UNCHANGED <<setting, srv, client, net, watched>>

\* Mutant: only one event of a batch is looked at.
ServedAll(n) == batch' = {}

Served(n) == batch' = batch \ {n}

\* accept() and EPOLL_CTL_ADD; what has already come is an edge.
AcceptClient ==
  /\ EpollRun /\ Listener \in batch
  /\ Served(Listener)
  /\ IF Cardinality(Opened) = limit
       THEN EndProcess("limit") /\ UNCHANGED epoll
       ELSE \E c \in Backlog :
              /\ conn' = [conn EXCEPT ![c] = "open"]
              /\ watched' = watched \cup {c}
              /\ ready' = IF Readable(c) THEN ready \cup {c} ELSE ready
              /\ UNCHANGED srv
  /\ UNCHANGED <<setting, client, toServer, toClient, end>>

AtEnd(c) == toServer[c] = <<>> /\ end[c] \in {"fin", "finrst", "shut"}

\* read() = 0: the descriptor leaves the epoll set, and is not closed.
Forget(c) ==
  /\ EpollRun /\ c \in batch /\ AtEnd(c)
  /\ Served(c)
  /\ watched' = watched \ {c} /\ ready' = ready \ {c}
  /\ UNCHANGED <<setting, srv, client, net>>

\* Anything else is answered, data or the -1 of a reset connection or of a
\* descriptor with nothing to read.
Answer(c) ==
  /\ EpollRun /\ c \in batch /\ ~AtEnd(c)
  /\ Served(c)
  /\ toServer' = [toServer EXCEPT ![c] = <<>>]
  /\ IF (toServer[c] = <<>> /\ end[c] = "rst") \/ Fatal(c)
       THEN EndProcess("sigpipe") /\ UNCHANGED <<toClient, end, ready>>
       ELSE /\ Write(c, <<Ack>>)
            /\ IF end[c] = "fin" THEN Edge(c) ELSE UNCHANGED ready
            /\ UNCHANGED <<srv, conn>>
  /\ UNCHANGED <<setting, client, watched>>

EpollStep == \/ EpollWait \/ AcceptClient
             \/ \E c \in Clients : Forget(c) \/ Answer(c)
=============================================================================
