------------------------------- MODULE PpLink --------------------------------
(***************************************************************************)
(* What rc_pingpong.c, uc_pingpong.c and ud_pingpong.c of RDMA/examples     *)
(* stand on: two processes with the same local variables, the TCP           *)
(* connection on which they exchange addresses, and two adapters with one   *)
(* queue pair, one completion queue and perhaps a completion channel each.  *)
(*                                                                         *)
(* The calls of libibverbs are operators over the variables of the adapter; *)
(* the modules of the programs say when they are made.  The kernel and the  *)
(* adapters are not part of the repository.                                 *)
(***************************************************************************)
EXTENDS Naturals, Sequences

CONSTANTS Iters,       \* option -n, the same on both sides
          RxDepth,     \* option -r
          Transports,  \* the programs: rc_, uc_ or ud_pingpong
          Modes,       \* how a process may wait: options -e and -t
          Faults       \* what may go wrong, or nothing does

ASSUME LinkAssumption ==
  /\ Iters \in Nat \ {0} /\ RxDepth \in Nat \ {0}
  /\ Transports \subseteq {"rc", "uc", "ud"}
  /\ Modes \subseteq {"poll", "event", "ts", "event_ts"}
  /\ Faults \subseteq {"verbs", "tcp", "link", "ack", "loss"}

Peers == {"client", "server"}
Other(p) == IF p = "client" THEN "server" ELSE "client"

Sleeps == {"event", "event_ts"}
Stamps == {"ts", "event_ts"}

VARIABLES
  transport, faults, mode,  \* what runs; what may fail; options of each process
  pc,              \* the call it is about to make
  pending,         \* ctx->pending: completions to see before the next send
  routs, scnt, rcnt,
  wc,              \* completions taken from the queue and not yet looked at
  sock, chan,      \* TCP: the sockets, and what is under way to each process
  qp, rq, sq,      \* queue pair; posted receives; the one slot for a send
  cq, armed,       \* completion queue, and whether the next entry is announced
  events,          \* announcements in the completion channel
  net,             \* datagrams under way to each process (UC, UD)
  lost,            \* has the network lost one?
  sent, got        \* history: messages posted and received

proc == <<pending, routs, scnt, rcnt, wc>>
tcp  == <<sock, chan>>
nic  == <<qp, rq, sq, cq, armed, events>>
wire == <<net, lost>>
options == <<transport, faults, mode>>
vars == <<options, pc, proc, tcp, nic, wire, sent, got>>

CQE == [op : {"SEND", "RECV"}, ok : BOOLEAN]

Labels == {"start", "listen", "accept", "dial", "write_addr", "read_addr",
           "write_done", "read_done", "connect", "create_ah", "serve",
           "get_event", "req_notify", "poll", "parse", "next_poll",
           "parse_next", "finish", "ok", "failed"}

\* The calls on the TCP connection.
Exchange == {"listen", "accept", "dial", "write_addr", "read_addr",
             "write_done", "read_done"}

TypeOK ==
  /\ transport \in Transports /\ faults \subseteq Faults
  /\ mode \in [Peers -> Modes]
  /\ pc \in [Peers -> Labels]
  /\ pending \in [Peers -> SUBSET {"SEND", "RECV"}]
  /\ routs \in [Peers -> 0..RxDepth]
  /\ scnt \in [Peers -> 0..Iters] /\ rcnt \in [Peers -> 0..Iters]
  /\ wc \in [Peers -> Seq(CQE)]
  /\ sock \in [Peers -> {"none", "listening", "open", "closed"}]
  /\ chan \in [Peers -> Seq({"addr", "done"})]
  /\ qp \in [Peers -> {"none", "init", "rts", "err"}]
  /\ rq \in [Peers -> Nat]
  /\ sq \in [Peers -> {"idle", "posted", "acking"}]
  /\ cq \in [Peers -> Seq(CQE)]
  /\ armed \in [Peers -> BOOLEAN]
  /\ events \in [Peers -> Nat]
  /\ net \in [Peers -> Nat] /\ lost \in BOOLEAN
  /\ sent \in [Peers -> Nat] /\ got \in [Peers -> Nat]

Zero == [p \in Peers |-> 0]

\* Only rc_pingpong has the option -t.
InitOptions ==
  /\ transport \in Transports
  /\ faults \in {{}, Faults}
  /\ mode \in [Peers -> IF transport = "rc" THEN Modes ELSE Modes \ Stamps]

Init ==
  /\ InitOptions
  /\ pc = [p \in Peers |-> "start"]
  /\ pending = [p \in Peers |-> {}]
  /\ routs = Zero /\ scnt = Zero /\ rcnt = Zero
  /\ wc = [p \in Peers |-> <<>>]
  /\ sock = [p \in Peers |-> "none"] /\ chan = [p \in Peers |-> <<>>]
  /\ qp = [p \in Peers |-> "none"] /\ rq = Zero
  /\ sq = [p \in Peers |-> "idle"]
  /\ cq = [p \in Peers |-> <<>>]
  /\ armed = [p \in Peers |-> FALSE] /\ events = Zero
  /\ net = Zero /\ lost = FALSE
  /\ sent = Zero /\ got = Zero

-----------------------------------------------------------------------------
(* The process.                                                            *)

Step(p, from, to) == pc[p] = from /\ pc' = [pc EXCEPT ![p] = to]

\* main returns; the kernel closes what the process had.
Exit(p, how) ==
  /\ pc' = [pc EXCEPT ![p] = how]
  /\ sock' = [sock EXCEPT ![p] = "closed"]
  /\ qp' = [qp EXCEPT ![p] = "none"]
  /\ rq' = [rq EXCEPT ![p] = 0]
  /\ sq' = [sq EXCEPT ![p] = "idle"]
  /\ cq' = [cq EXCEPT ![p] = <<>>]
  /\ armed' = [armed EXCEPT ![p] = FALSE]
  /\ events' = [events EXCEPT ![p] = 0]
  /\ UNCHANGED <<options, proc, chan, wire, sent, got>>

-----------------------------------------------------------------------------
(* TCP.  A message is read in the pieces in which it was written, unless    *)
(* the connection breaks or cuts it ("tcp").                                *)

TcpListen(p) == /\ sock' = [sock EXCEPT ![p] = "listening"]
                /\ UNCHANGED chan

\* The client is started once the server listens.
TcpConnect(p) == /\ sock[Other(p)] = "listening"
                 /\ sock' = [q \in Peers |-> "open"]
                 /\ UNCHANGED chan

TcpWrite(p, m) == /\ chan' = [chan EXCEPT ![Other(p)] = Append(@, m)]
                  /\ UNCHANGED sock

TcpWriteAndClose(p, m) == /\ chan' = [chan EXCEPT ![Other(p)] = Append(@, m)]
                          /\ sock' = [sock EXCEPT ![p] = "closed"]

TcpRead(p, m) == /\ chan[p] # <<>> /\ Head(chan[p]) = m
                 /\ chan' = [chan EXCEPT ![p] = Tail(@)]
                 /\ UNCHANGED sock

TcpReadAndClose(p, m) == /\ chan[p] # <<>> /\ Head(chan[p]) = m
                         /\ chan' = [chan EXCEPT ![p] = Tail(@)]
                         /\ sock' = [sock EXCEPT ![p] = "closed"]

\* A read finds the end of the stream, or a call is cut short.
TcpBroken(p) == \/ pc[p] \in {"read_addr", "read_done"}
                   /\ sock[Other(p)] = "closed" /\ chan[p] = <<>>
                \/ pc[p] \in Exchange /\ "tcp" \in faults

-----------------------------------------------------------------------------
(* Calls of libibverbs.                                                    *)

IbvCreate(p, arm) == /\ qp' = [qp EXCEPT ![p] = "init"]
                     /\ rq' = [rq EXCEPT ![p] = RxDepth]
                     /\ armed' = [armed EXCEPT ![p] = arm]
                     /\ UNCHANGED <<sq, cq, events>>

IbvModifyRts(p) == /\ qp' = [qp EXCEPT ![p] = "rts"]
                   /\ UNCHANGED <<rq, sq, cq, armed, events>>

\* A send request keeps the one slot until its completion has been polled.
SlotFree(p) == /\ sq[p] = "idle"
               /\ \A k \in DOMAIN cq[p] : cq[p][k].op # "SEND"

\* Post n receives and, if send, one send.
IbvPost(p, n, send) == /\ rq' = [rq EXCEPT ![p] = @ + n]
                       /\ sq' = [sq EXCEPT ![p] = IF send THEN "posted" ELSE @]
                       /\ UNCHANGED <<qp, cq, armed, events>>

IbvGetCqEvent(p) == /\ events[p] > 0
                    /\ events' = [events EXCEPT ![p] = @ - 1]
                    /\ UNCHANGED <<qp, rq, sq, cq, armed>>

IbvReqNotifyCq(p) == /\ armed' = [armed EXCEPT ![p] = TRUE]
                     /\ UNCHANGED <<qp, rq, sq, cq, events>>

\* Take the first n completions.
IbvPollCq(p, n) == /\ wc' = [wc EXCEPT ![p] = SubSeq(cq[p], 1, n)]
                   /\ cq' = [cq EXCEPT ![p] = SubSeq(@, n + 1, Len(@))]
                   /\ UNCHANGED <<qp, rq, sq, armed, events>>

-----------------------------------------------------------------------------
(* The adapters.                                                           *)

\* An entry of the completion queue of p; the first one after the queue was
\* armed is announced in the channel.
Completed(p, c) ==
  /\ cq' = [cq EXCEPT ![p] = Append(@, c)]
  /\ armed' = [armed EXCEPT ![p] = FALSE]
  /\ events' = [events EXCEPT ![p] = IF armed[p] THEN @ + 1 ELSE @]

\* A message reaches a queue pair that can take it.
Ready(p) == qp[p] = "rts" /\ rq[p] > 0

Landed(p) == /\ rq' = [rq EXCEPT ![p] = @ - 1]
             /\ Completed(p, [op |-> "RECV", ok |-> TRUE])
             /\ got' = [got EXCEPT ![p] = @ + 1]

program == <<options, pc, proc, tcp>>

\* Unreliable transports: a send is complete when it has left.
Transmit(p) == /\ sq[p] = "posted"
               /\ sq' = [sq EXCEPT ![p] = "idle"]
               /\ net' = [net EXCEPT ![Other(p)] = @ + 1]
               /\ Completed(p, [op |-> "SEND", ok |-> TRUE])
               /\ UNCHANGED <<program, qp, rq, lost, sent, got>>

\* Nobody is told of a message that finds no receive.
Arrive(p) == /\ net[p] > 0
             /\ net' = [net EXCEPT ![p] = @ - 1]
             /\ IF Ready(p) THEN Landed(p)
                ELSE UNCHANGED <<rq, cq, armed, events, got>>
             /\ UNCHANGED <<program, qp, sq, lost, sent>>

Lose(p) == /\ "loss" \in faults /\ net[p] > 0
           /\ net' = [net EXCEPT ![p] = @ - 1]
           /\ lost' = TRUE
           /\ UNCHANGED <<program, nic, sent, got>>
=============================================================================
