------------------------------- MODULE Sockets -------------------------------
(***************************************************************************)
(* The two servers that wait for many TCP clients in one loop,             *)
(* RDMA/test3.cpp (epoll) and LibEvent/try1_server.cpp (libevent): their   *)
(* clients, and TCP as they see it.  The loops are in EpollServer and      *)
(* Rot13Server, what they promise in EventServers.                         *)
(*                                                                         *)
(* The client of test3.cpp sends one text, reads one answer and leaves; the*)
(* rot13 server has no client in the repository, so that one types what it *)
(* likes and reads what comes.  Neither server ever closes the descriptor  *)
(* of a client it has served: the kernel does when the process ends.       *)
(***************************************************************************)
EXTENDS Naturals, Sequences, FiniteSetsExt

CONSTANTS
  Clients,
  Limits,   \* how many client descriptors may be open, and how many of them
            \* select could watch, in the cases to look at
  MaxText,  \* characters the rot13 clients type altogether (bound)
  Faults    \* what may go wrong, of FaultKinds

FaultKinds == {"kill",   \* a client of test3 is killed
               "half"}   \* a client of the rot13 server ends its input first

ASSUME SocketsAssumption == /\ IsFiniteSet(Clients)
                            /\ Limits \subseteq Nat \ {0}
                            /\ MaxText \in Nat
                            /\ Faults \subseteq FaultKinds

VARIABLES
  server, limit, fdset, faults,  \* which program; its limits; what may fail
  srv,       \* "run", or how the server process has ended
  cpc,       \* cpc[c]: where client c is
  sent,      \* sent[c]: what a rot13 client has typed (history)
  got,       \* got[c]: what c has read
  toServer,  \* toServer[c]: bytes of c the server has not read
  toClient,  \* toClient[c]: bytes for c it has not read
  conn,      \* conn[c]: the connection at the server
  end,       \* end[c]: what the server's kernel knows of c's end
  watched,   \* test3: the descriptors in the epoll set
  ready      \* test3: those with an edge not yet reported

setting  == <<server, limit, fdset, faults>>
client   == <<cpc, sent, got>>
net      == <<toServer, toClient, conn, end>>
epoll    == <<watched, ready>>
sockVars == <<setting, srv, client, net, epoll>>

\* Half-closed, a client still reads.
Left(c) == cpc[c] \in {"done", "killed"}

\* A text is a sequence of characters, each with the client that typed it.
Typed(c) == {<<c, "a">>, <<c, "nl">>}
Texts    == UNION {Typed(c) \cup {<<c, "n">>} : c \in Clients}
Hello    == <<"Hello">>
Ack      == <<"ACK!">>

SocketsTypeOK ==
  /\ server \in {"epoll", "rot13"} /\ limit \in Limits /\ fdset \in Limits
  /\ faults \in {{}, Faults}
  /\ srv \in {"run", "limit", "sigpipe"}
  /\ cpc \in [Clients -> {"start", "send", "read", "sleep", "on", "half",
                          "done", "killed"}]
  /\ sent \in [Clients -> Seq(Texts)]
  /\ got \in [Clients -> Seq(Texts \cup {Ack})]
  /\ toServer \in [Clients -> Seq(Texts \cup {Hello})]
  /\ toClient \in [Clients -> Seq(Texts \cup {Ack})]
  /\ conn \in [Clients -> {"none", "backlog", "open", "closed"}]
  /\ end \in [Clients -> {"up", "fin", "rst", "finrst", "shut"}]
  /\ watched \subseteq Clients /\ ready \subseteq watched

SocketsInit ==
  /\ server \in {"epoll", "rot13"} /\ limit \in Limits /\ fdset \in Limits
  /\ server = "epoll" => fdset = limit
  /\ faults \in {{}, Faults}
  /\ srv = "run"
  /\ cpc = [c \in Clients |-> "start"]
  /\ sent = [c \in Clients |-> <<>>] /\ got = [c \in Clients |-> <<>>]
  /\ toServer = [c \in Clients |-> <<>>] /\ toClient = [c \in Clients |-> <<>>]
  /\ conn = [c \in Clients |-> "none"] /\ end = [c \in Clients |-> "up"]
  /\ watched = {} /\ ready = {}

At(c, step) == cpc' = [cpc EXCEPT ![c] = step]

\* Something has come from c: an edge for epoll.
Edge(c) == ready' = IF c \in watched THEN ready \cup {c} ELSE ready

-----------------------------------------------------------------------------
(* The clients.                                                            *)

Dial(c) ==
  /\ cpc[c] = "start"
  /\ IF srv = "run"
       THEN /\ conn' = [conn EXCEPT ![c] = "backlog"]
            /\ At(c, IF server = "epoll" THEN "send" ELSE "on")
       ELSE UNCHANGED conn /\ At(c, "done")
  /\ UNCHANGED <<setting, srv, sent, got, toServer, toClient, end, epoll>>

\* send() is not checked; on a connection the server's end has reset it is
\* fatal.
SendHello(c) ==
  /\ cpc[c] = "send"
  /\ IF conn[c] # "closed"
       THEN /\ toServer' = [toServer EXCEPT ![c] = Append(@, Hello)]
            /\ Edge(c) /\ At(c, "read")
       ELSE At(c, "read") \/ At(c, "killed")
  /\ conn[c] = "closed" => UNCHANGED <<toServer, ready>>
  /\ UNCHANGED <<setting, srv, sent, got, toClient, conn, end, watched>>

\* One read: the answer, or nothing because the connection is over.
ReadAck(c) ==
  /\ cpc[c] = "read"
  /\ \/ /\ toClient[c] # <<>>
        /\ got' = [got EXCEPT ![c] = @ \o toClient[c]]
        /\ toClient' = [toClient EXCEPT ![c] = <<>>]
     \/ conn[c] = "closed" /\ UNCHANGED <<got, toClient>>
  /\ At(c, "sleep")
  /\ UNCHANGED <<setting, srv, sent, toServer, conn, end, epoll>>

\* close(), by the program or because it was killed: with unread data TCP
\* resets the connection.
CloseEnd(c, step) ==
  /\ At(c, step)
  /\ end' = [end EXCEPT ![c] = CASE toClient[c] = <<>> /\ @ = "up"  -> "fin"
                                 [] toClient[c] # <<>> /\ @ = "up"  -> "rst"
                                 [] toClient[c] # <<>> /\ @ = "fin" -> "finrst"
                                 [] OTHER -> @]
  /\ toClient' = [toClient EXCEPT ![c] = <<>>]
  /\ Edge(c)
  /\ UNCHANGED <<setting, srv, sent, got, toServer, conn, watched>>

Close(c) == cpc[c] = "sleep" /\ CloseEnd(c, "done")

Kill(c) == /\ "kill" \in faults
           /\ cpc[c] \in {"send", "read", "sleep"}
           /\ CloseEnd(c, "killed")

\* The client of the rot13 server.
Type(c) ==
  \E ch \in Typed(c) :
    /\ cpc[c] = "on" /\ conn[c] # "closed"
    /\ MapThenSumSet(LAMBDA x : Len(sent[x]), Clients) < MaxText
    /\ sent' = [sent EXCEPT ![c] = Append(@, ch)]
    /\ toServer' = [toServer EXCEPT ![c] = Append(@, ch)]
    /\ UNCHANGED <<setting, srv, cpc, got, toClient, conn, end, epoll>>

ReadText(c) ==
  /\ cpc[c] \in {"on", "half"} /\ toClient[c] # <<>>
  /\ got' = [got EXCEPT ![c] = Append(@, Head(toClient[c]))]
  /\ toClient' = [toClient EXCEPT ![c] = Tail(@)]
  /\ UNCHANGED <<setting, srv, cpc, sent, toServer, conn, end, epoll>>

\* shutdown(SHUT_WR): nothing more to say, but it still listens.
EndInput(c) ==
  /\ "half" \in faults
  /\ cpc[c] = "on"
  /\ At(c, "half")
  /\ end' = [end EXCEPT ![c] = "fin"]
  /\ UNCHANGED <<setting, srv, sent, got, toServer, toClient, conn, epoll>>

Leave(c) == cpc[c] \in {"on", "half"} /\ CloseEnd(c, "done")

\* What a client does of itself, and what only may happen.
ClientStep(c) == SendHello(c) \/ ReadAck(c) \/ Close(c) \/ ReadText(c)
UserStep(c)   == Dial(c) \/ Kill(c) \/ Type(c) \/ EndInput(c) \/ Leave(c)

-----------------------------------------------------------------------------
(* What the servers see.                                                   *)

Backlog == {c \in Clients : conn[c] = "backlog"}
Opened  == {c \in Clients : conn[c] = "open"}

\* A read would find data, or the end.
Readable(c) == toServer[c] # <<>> \/ end[c] # "up"

\* A write to c: ignored by a client that has left, which resets the
\* connection; an error on a reset connection; SIGPIPE, which nobody handles,
\* after that error has been reported or the client's end had been closed.
Fatal(c) == end[c] \in {"finrst", "shut"}
Write(c, text) ==
  /\ toClient' = IF Left(c) THEN toClient
                            ELSE [toClient EXCEPT ![c] = @ \o text]
  /\ end' = [end EXCEPT ![c] = IF Left(c) /\ @ = "fin" THEN "finrst"
                               ELSE IF @ = "rst" THEN "shut" ELSE @]

\* The process ends; the kernel closes its descriptors.
EndProcess(how) ==
  /\ srv' = how
  /\ conn' = [c \in Clients |-> IF conn[c] = "none" THEN "none" ELSE "closed"]
=============================================================================
