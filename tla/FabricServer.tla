---------------------------- MODULE FabricServer ----------------------------
(***************************************************************************)
(* How the server of Libfabric/test2.c (server_init) and its clients       *)
(* (client_init) connect, hand over the keys and part.                     *)
(*                                                                         *)
(* The server takes the events of one event queue in the order in which    *)
(* they come, expects a connection request, a connection and a shutdown in *)
(* turn, and returns at any other event; it never looks which connection   *)
(* an event belongs to.  The clients are processes of their own, and may   *)
(* dial at any time.  What a client does with the keys is the subject of   *)
(* FabricReaders; here it is the one state "reading".                      *)
(*                                                                         *)
(* The fabric is external: requests and shutdowns are put into the queue   *)
(* of the server, an accepted connection is reported to either side in     *)
(* any order, and a connection that cannot be made is reported as an       *)
(* error, for which fi_eq_sread does not return sizeof(entry).             *)
(***************************************************************************)
EXTENDS Naturals, Sequences, FiniteSets

CONSTANTS Clients,  \* client processes
          Faults,   \* what may go wrong, of FaultKinds
          None

FaultKinds == {"call",  \* a libfabric call of the server fails
               "quit"}  \* a client ends early: interrupted, or a call of it failed

ASSUME ServerAssumption == /\ IsFiniteSet(Clients)
                           /\ Faults \subseteq FaultKinds
                           /\ None \notin Clients

VARIABLES
  at,        \* where the server is
  eq,        \* its event queue
  entry,     \* the client of the last event it has read
  ep,        \* the client behind the global ep
  open,      \* clients whose endpoint is not closed
  scq,       \* completion of the server's send
  sending,   \* the client the send is on its way to
  cpc,       \* cpc[c]: where client c is
  posted,    \* posted[c]: its receive buffer is posted
  ccq,       \* ccq[c]: completion of its receive
  link,      \* link[c]: the connection of c
  told,      \* told[c]: the sides that have been told of it
  disturbed  \* clients have overlapped, or one left while it was served (history)

server == <<at, entry, ep, open>>
client == <<cpc, posted>>
vars == <<at, eq, entry, ep, open, scq, sending, cpc, posted, ccq, link, told, disturbed>>

Init == /\ at = "init"
        /\ eq = <<>>
        /\ entry = None
        /\ ep = None
        /\ open = {}
        /\ scq = "none"
        /\ sending = None
        /\ cpc = [c \in Clients |-> "off"]
        /\ posted = [c \in Clients |-> FALSE]
        /\ ccq = [c \in Clients |-> FALSE]
        /\ link = [c \in Clients |-> "none"]
        /\ told = [c \in Clients |-> {}]
        /\ disturbed = FALSE

Event(k, c) == [kind |-> k, from |-> c]

\* The server process has ended, after an unexpected event or a failed call.
Gone == at \in {"ended", "failed"}

Listening == at # "init" /\ ~ Gone

-----------------------------------------------------------------------------
(* server_init.                                                            *)

\* fi_mr_key, fi_passive_ep, fi_pep_bind, fi_listen.
Listen == /\ at = "init"
          /\ at' = "connreq"
          /\ UNCHANGED <<eq, entry, ep, open, scq, sending, client, ccq, link, told, disturbed>>

\* fi_eq_sread without a timeout, and the test of what it returned.
ReadEvent(pc, kind, next) ==
  /\ at = pc
  /\ eq # <<>>
  /\ eq' = Tail(eq)
  /\ entry' = Head(eq).from
  /\ at' = IF Head(eq).kind = kind THEN next ELSE "ended"
  /\ UNCHANGED <<scq, sending, client, ccq, link, told, disturbed>>

ReadConnReq == ReadEvent("connreq", "CONNREQ", "accept") /\ UNCHANGED <<ep, open>>

\* fi_endpoint, fi_ep_bind and fi_accept.
Accept == /\ at = "accept"
          /\ at' = "connected"
          /\ ep' = entry
          /\ open' = open \cup {entry}
          /\ \/ /\ link[entry] = "requested"
                /\ link' = [link EXCEPT ![entry] = "accepted"]
                /\ UNCHANGED eq
             \/ /\ link[entry] = "down"     \* the client has gone in the meantime
                /\ eq' = Append(eq, Event("error", entry))
                /\ UNCHANGED link
          /\ UNCHANGED <<entry, scq, sending, client, ccq, told, disturbed>>

ReadConnected == ReadEvent("connected", "CONNECTED", "send") /\ UNCHANGED <<ep, open>>

\* memcpy of the keys, fi_send.
SendKeys == /\ at = "send"
            /\ at' = "sent"
            /\ sending' = ep
            /\ UNCHANGED <<eq, entry, ep, open, scq, client, ccq, link, told, disturbed>>

\* Mutant of ReadSent: the server does not wait for FI_SHUTDOWN.
ReadSentOnly == /\ at = "sent"
                /\ scq # "none"
                /\ scq' = "none"
                /\ at' = IF scq = "ok" THEN "connreq" ELSE "ended"
                /\ UNCHANGED <<eq, entry, ep, open, sending, client, ccq, link, told, disturbed>>

\* fi_cq_sread without a timeout.
ReadSent == /\ at = "sent"
            /\ scq # "none"
            /\ scq' = "none"
            /\ at' = IF scq = "ok" THEN "shutdown" ELSE "ended"
            /\ UNCHANGED <<eq, entry, ep, open, sending, client, ccq, link, told, disturbed>>

\* Mutant of ReadShutdown: the endpoint is not closed.
ReadShutdownOnly == ReadEvent("shutdown", "SHUTDOWN", "connreq") /\ UNCHANGED <<ep, open>>

\* Mutant of ReadShutdown: the server serves one client.
ReadShutdownAndEnd == /\ ReadEvent("shutdown", "SHUTDOWN", "ended")
                      /\ open' = open \ {ep}
                      /\ UNCHANGED ep

\* ... and fi_close of the endpoint.
ReadShutdown == /\ ReadEvent("shutdown", "SHUTDOWN", "connreq")
                /\ open' = IF Head(eq).kind = "SHUTDOWN" THEN open \ {ep} ELSE open
                /\ UNCHANGED ep

\* One of the calls fails: server_init and main return.
CallFails == /\ "call" \in Faults
             /\ at \in {"init", "accept", "send"}
             /\ at' = "failed"
             /\ UNCHANGED <<eq, entry, ep, open, scq, sending, client, ccq, link, told, disturbed>>

Server == \/ Listen \/ ReadConnReq \/ Accept \/ ReadConnected
          \/ SendKeys \/ ReadSent \/ ReadShutdown

-----------------------------------------------------------------------------
(* client_init, and the end of client.                                     *)

Running(c) == cpc[c] \notin {"off", "done", "ended"}

\* common_init and the first calls of client_init, up to fi_enable.
Start(c) == /\ cpc[c] = "off"
            /\ cpc' = [cpc EXCEPT ![c] = "recv"]
            /\ UNCHANGED <<server, eq, scq, sending, posted, ccq, link, told, disturbed>>

\* Mutant of PostRecv: no buffer is posted.
PostNothing(c) == /\ cpc[c] = "recv"
                  /\ cpc' = [cpc EXCEPT ![c] = "connect"]
                  /\ UNCHANGED <<server, eq, scq, sending, posted, ccq, link, told, disturbed>>

\* fi_recv, before there is a connection.
PostRecv(c) == /\ cpc[c] = "recv"
               /\ posted' = [posted EXCEPT ![c] = TRUE]
               /\ cpc' = [cpc EXCEPT ![c] = "connect"]
               /\ UNCHANGED <<server, eq, scq, sending, ccq, link, told, disturbed>>

\* Another client's connection is under way or established.
Overlaps(c) == \E d \in Clients \ {c} : link[d] \in {"requested", "accepted"}

\* fi_connect: the request joins the event queue of the server.
Connect(c) == /\ cpc[c] = "connect"
              /\ Listening
              /\ cpc' = [cpc EXCEPT ![c] = "connected"]
              /\ link' = [link EXCEPT ![c] = "requested"]
              /\ eq' = Append(eq, Event("CONNREQ", c))
              /\ disturbed' = (disturbed \/ Overlaps(c))
              /\ UNCHANGED <<server, scq, sending, posted, ccq, told>>

\* fi_eq_sread returns FI_CONNECTED.
ReadConnectedByClient(c) ==
  /\ cpc[c] = "connected"
  /\ "client" \in told[c]
  /\ cpc' = [cpc EXCEPT ![c] = "keys"]
  /\ UNCHANGED <<server, eq, scq, sending, posted, ccq, link, told, disturbed>>

\* fi_cq_sread returns the receive, and the keys are copied.
ReadKeys(c) == /\ cpc[c] = "keys"
               /\ ccq[c]
               /\ cpc' = [cpc EXCEPT ![c] = "reading"]
               /\ ccq' = [ccq EXCEPT ![c] = FALSE]
               /\ UNCHANGED <<server, eq, scq, sending, posted, link, told, disturbed>>

\* The process of c ends as pc says, with fi_shutdown or without: the server,
\* if it runs, is told.
Leave(c, pc) ==
  /\ cpc' = [cpc EXCEPT ![c] = pc]
  /\ link' = [link EXCEPT ![c] = IF @ = "none" THEN @ ELSE "down"]
  /\ eq' = IF Gone \/ link[c] # "accepted" THEN eq
           ELSE IF "server" \in told[c] THEN Append(eq, Event("SHUTDOWN", c))
           ELSE Append(eq, Event("error", c))
  /\ UNCHANGED <<server, scq, sending, posted, ccq, told>>

\* All reads are made: fi_shutdown, the fi_closes and the end of main.
Finish(c) == cpc[c] = "reading" /\ Leave(c, "done") /\ UNCHANGED disturbed

\* The server does not listen, or has gone: an error instead of the event or
\* the completion, and client_init returns it.
Refused(c) == /\ \/ cpc[c] = "connect" /\ ~ Listening
                 \/ cpc[c] = "connected" /\ Gone /\ "client" \notin told[c]
                 \/ cpc[c] = "keys" /\ Gone /\ ~ ccq[c]
              /\ Leave(c, "ended")
              /\ UNCHANGED disturbed

\* The server has gone while c reads: the completion thread ends and the
\* readers wait for ever (FabricReaders, EndsOrDeaf).
ReadsFail(c) == /\ cpc[c] = "reading"
                /\ Gone
                /\ cpc' = [cpc EXCEPT ![c] = "stuck"]
                /\ UNCHANGED <<server, eq, scq, sending, posted, ccq, link, told, disturbed>>

Quit(c) == /\ "quit" \in Faults /\ Running(c)
           /\ Leave(c, "ended")
           /\ disturbed' = (disturbed \/ cpc[c] \in {"connected", "keys"})

Client(c) == \/ PostRecv(c) \/ Connect(c) \/ ReadConnectedByClient(c)
             \/ ReadKeys(c) \/ Finish(c) \/ Refused(c) \/ ReadsFail(c)

-----------------------------------------------------------------------------
(* The fabric.                                                             *)

TellClient(c) == /\ link[c] = "accepted"
                 /\ "client" \notin told[c]
                 /\ told' = [told EXCEPT ![c] = @ \cup {"client"}]
                 /\ UNCHANGED <<server, eq, scq, sending, client, ccq, link, disturbed>>

TellServer(c) == /\ link[c] = "accepted"
                 /\ ~ Gone
                 /\ "server" \notin told[c]
                 /\ told' = [told EXCEPT ![c] = @ \cup {"server"}]
                 /\ eq' = Append(eq, Event("CONNECTED", c))
                 /\ UNCHANGED <<server, scq, sending, client, ccq, link, disturbed>>

\* The keys arrive in the posted buffer, and both sides get a completion.
Deliver(c) == /\ sending = c
              /\ link[c] = "accepted" /\ posted[c] /\ "client" \in told[c]
              /\ sending' = None
              /\ scq' = "ok"
              /\ posted' = [posted EXCEPT ![c] = FALSE]
              /\ ccq' = [ccq EXCEPT ![c] = TRUE]
              /\ UNCHANGED <<server, eq, cpc, link, told, disturbed>>

SendFails(c) == /\ sending = c
                /\ link[c] = "down"
                /\ sending' = None
                /\ scq' = "error"
                /\ UNCHANGED <<server, eq, client, ccq, link, told, disturbed>>

Fabric(c) == TellClient(c) \/ TellServer(c) \/ Deliver(c) \/ SendFails(c)

-----------------------------------------------------------------------------
Next == \/ Server \/ CallFails
        \/ \E c \in Clients : Start(c) \/ Quit(c) \/ Client(c) \/ Fabric(c)

\* The processes run and the fabric does its work; nobody has to start a
\* client or to interrupt one.
Fairness == /\ WF_vars(Server)
            /\ \A c \in Clients : WF_vars(Client(c)) /\ WF_vars(Fabric(c))

Spec == Init /\ [][Next]_vars /\ Fairness

-----------------------------------------------------------------------------
(* Properties.                                                             *)

\* server_init never compares entry.fid with ep (test2.c:183, 211), yet the
\* FI_CONNECTED and FI_SHUTDOWN it goes on after are those of the client it has
\* accepted; and ep is not overwritten (:159) while it is open.
OneConnection ==
  /\ at \in {"send", "sent", "shutdown"} => open = {ep} /\ "server" \in told[ep]
  /\ at \in {"connreq", "accept"} => open = {} /\ (ep # None => link[ep] = "down")

\* "invalid event" (test2.c:153, 190, 218) means that clients have overlapped,
\* or that one has left before it had the keys.
EndsForAReason == at = "ended" => disturbed

\* A client whose request does not overlap with another connection gets the keys,
\* also when the server has yet to read the end of the one before, unless a
\* client leaves too early or a call of the server fails.
EveryoneServed ==
  \A c \in Clients :
     link[c] = "requested" ~> \/ cpc[c] \in {"reading", "done"}
                              \/ disturbed
                              \/ at = "failed"

\* Server and clients never wait for one another in client_init, whatever goes
\* wrong: each wait there ends, with an event or with an error.
NobodyWaits ==
  \A c \in Clients :
     cpc[c] \in {"connected", "keys"} ~> cpc[c] \notin {"connected", "keys"}
=============================================================================
