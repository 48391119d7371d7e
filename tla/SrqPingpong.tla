----------------------------- MODULE SrqPingpong -----------------------------
(***************************************************************************)
(* srq_pingpong.c of RDMA/examples: the match over several reliable         *)
(* connections at once, whose queue pairs share one queue of receives and   *)
(* one completion queue.  pending[p] and sq[p] have an entry for each queue *)
(* pair here; scnt and rcnt count over all of them.                         *)
(***************************************************************************)
EXTENDS PpLink, FiniteSets

CONSTANT NumQp   \* option -q

Qps == 1..NumQp

\* "must have at least one receive per QP"
ASSUME SrqAssumption == NumQp \in Nat \ {0} /\ NumQp <= RxDepth

VARIABLE known   \* the sides whose rem_dest is filled in

srqVars == <<vars, known>>

Idle == [i \in Qps |-> "idle"]

SrqInit == /\ InitOptions
           /\ pc = [p \in Peers |-> "start"]
           /\ pending = [p \in Peers |-> [i \in Qps |-> {}]]
           /\ routs = Zero /\ scnt = Zero /\ rcnt = Zero
           /\ wc = [p \in Peers |-> <<>>]
           /\ sock = [p \in Peers |-> "none"] /\ chan = [p \in Peers |-> <<>>]
           /\ qp = [p \in Peers |-> "none"] /\ rq = Zero
           /\ sq = [p \in Peers |-> Idle]
           /\ cq = [p \in Peers |-> <<>>]
           /\ armed = [p \in Peers |-> FALSE] /\ events = Zero
           /\ net = Zero /\ lost = FALSE
           /\ sent = Zero /\ got = Zero
           /\ known = {}

\* main returns.
Leave(p, how) ==
  /\ pc' = [pc EXCEPT ![p] = how]
  /\ sock' = [sock EXCEPT ![p] = "closed"]
  /\ qp' = [qp EXCEPT ![p] = "none"]
  /\ rq' = [rq EXCEPT ![p] = 0]
  /\ sq' = [sq EXCEPT ![p] = Idle]
  /\ cq' = [cq EXCEPT ![p] = <<>>]
  /\ armed' = [armed EXCEPT ![p] = FALSE]
  /\ events' = [events EXCEPT ![p] = 0]
  /\ UNCHANGED <<options, proc, chan, wire, sent, got, known>>

-----------------------------------------------------------------------------
(* Context and addresses.                                                  *)

Prepare(p) ==
  /\ Step(p, "start", IF p = "server" THEN "listen" ELSE "dial")
  /\ IbvCreate(p, mode[p] \in Sleeps)
  /\ routs' = [routs EXCEPT ![p] = RxDepth]
  /\ UNCHANGED <<options, pending, scnt, rcnt, wc, tcp, wire,
                 sent, got, known>>

Exchanging(p) == UNCHANGED <<options, proc, nic, wire, sent, got>>

\* A read that finds the end of the stream is repeated for ever: only data or
\* an error takes the program on.
ReadAddr(p, to) ==
  /\ Step(p, "read_addr", to)
  /\ TcpRead(p, "addr")
  /\ known' = known \cup {p}
  /\ Exchanging(p)

ServerExchDest(p) ==
  \/ Step(p, "listen", "accept") /\ TcpListen(p) /\ UNCHANGED known
     /\ Exchanging(p)
  \/ Step(p, "accept", "read_addr") /\ sock[p] = "open"
     /\ UNCHANGED <<tcp, known>> /\ Exchanging(p)
  \/ ReadAddr(p, "connect")
  \/ Step(p, "write_addr", "read_done") /\ TcpWrite(p, "addr")
     /\ UNCHANGED known /\ Exchanging(p)
  \/ Step(p, "read_done", "serve") /\ TcpReadAndClose(p, "done")
     /\ UNCHANGED known /\ Exchanging(p)

ClientExchDest(p) ==
  \/ Step(p, "dial", "write_addr") /\ TcpConnect(p) /\ UNCHANGED known
     /\ Exchanging(p)
  \/ Step(p, "write_addr", "read_addr") /\ TcpWrite(p, "addr")
     /\ UNCHANGED known /\ Exchanging(p)
  \/ ReadAddr(p, "write_done")
  \/ Step(p, "write_done", "connect") /\ TcpWriteAndClose(p, "done")
     /\ UNCHANGED known /\ Exchanging(p)

\* "goto out" without rem_dest = NULL: after a failed read of an address, and
\* on the client after a failed write of "done", the program closes the socket
\* and goes on with what rem_dest holds.  The server then never connects.
GoesOn(p) ==
  /\ "tcp" \in faults
  /\ \/ p = "server" /\ Step(p, "read_addr", "serve")
     \/ p = "client" /\ pc[p] \in {"read_addr", "write_done"}
        /\ Step(p, pc[p], "connect")
  /\ sock' = [sock EXCEPT ![p] = "closed"]
  /\ UNCHANGED <<chan, known>> /\ Exchanging(p)

\* The other errors of the exchange end the program.
TcpFails(p) ==
  /\ \/ "tcp" \in faults
        /\ pc[p] \in {"listen", "accept", "dial", "write_addr", "read_done"}
     \/ pc[p] = "read_done" /\ chan[p] = <<>> /\ sock[Other(p)] = "closed"
  /\ Leave(p, "failed")

ConnectCtx(p) ==
  /\ Step(p, "connect", IF p = "server" THEN "write_addr" ELSE "serve")
  /\ IbvModifyRts(p)
  /\ UNCHANGED <<options, proc, tcp, wire, sent, got, known>>

-----------------------------------------------------------------------------
(* The loop.                                                               *)

\* Mutant of LoopHead: `&&' for `||'.
LoopHeadBoth(p, s, r) == IF s >= Iters \/ r >= Iters THEN "finish"
                         ELSE IF mode[p] \in Sleeps THEN "get_event" ELSE "poll"

\* while (rcnt < iters || scnt < iters)
LoopHead(p, s, r) == IF s >= Iters /\ r >= Iters THEN "finish"
                     ELSE IF mode[p] \in Sleeps THEN "get_event" ELSE "poll"

\* The client serves on every queue pair.
Serve(p) ==
  LET client == p = "client" IN
  /\ Step(p, "serve", LoopHead(p, 0, 0))
  /\ pending' = [pending EXCEPT ![p] =
       [i \in Qps |-> IF client THEN {"SEND", "RECV"} ELSE {"RECV"}]]
  /\ sq' = [sq EXCEPT ![p] = IF client THEN [i \in Qps |-> "posted"] ELSE @]
  /\ sent' = [sent EXCEPT ![p] = IF client THEN NumQp ELSE @]
  /\ UNCHANGED <<options, routs, scnt, rcnt, wc, tcp, qp, rq, cq,
                 armed, events, wire, got, known>>

\* The events are counted, and acknowledged together at the end, as in
\* PpProgram: that count is left out here.
GetCqEvent(p) ==
  /\ Step(p, "get_event", "req_notify")
  /\ events[p] > 0
  /\ events' = [events EXCEPT ![p] = @ - 1]
  /\ UNCHANGED <<options, proc, tcp, qp, rq, sq, cq, armed, wire, sent,
                 got, known>>

\* Mutant of ReqNotify: the queue is not armed again.
ReqNothing(p) ==
  /\ Step(p, "req_notify", "poll")
  /\ UNCHANGED <<options, proc, tcp, nic, wire, sent, got, known>>

ReqNotify(p) ==
  /\ Step(p, "req_notify", "poll")
  /\ IbvReqNotifyCq(p)
  /\ UNCHANGED <<options, proc, tcp, wire, sent, got, known>>

\* num_wc is the size of the queue: everything there is.
PollCq(p) ==
  /\ mode[p] \in Sleeps \/ cq[p] # <<>>
  /\ Step(p, "poll",
          IF cq[p] = <<>> THEN LoopHead(p, scnt[p], rcnt[p]) ELSE "parse")
  /\ IbvPollCq(p, Len(cq[p]))
  /\ UNCHANGED <<options, pending, routs, scnt, rcnt, tcp, wire,
                 sent, got, known>>

QpSlotFree(p, i) == /\ sq[p][i] = "idle"
                   /\ \A k \in DOMAIN cq[p] :
                        ~(cq[p][k].op = "SEND" /\ cq[p][k].qp = i)

\* Mutant of Refill: when none is left.
RefillLate(left) == IF left < 1 THEN RxDepth - left ELSE 0

\* The receives to post when `left' are left.
Refill(left) == IF left <= NumQp THEN RxDepth - left ELSE 0

\* A good completion on queue pair i.
Parsed(p, op, i) ==
  LET s      == IF op = "SEND" THEN scnt[p] + 1 ELSE scnt[p]
      r      == IF op = "RECV" THEN rcnt[p] + 1 ELSE rcnt[p]
      left   == IF op = "RECV" THEN routs[p] - 1 ELSE routs[p]
      refill == IF op = "RECV" THEN Refill(left) ELSE 0
      answer == s < Iters /\ pending[p][i] \subseteq {op}
  IN /\ answer => QpSlotFree(p, i)
     /\ pc' = [pc EXCEPT ![p] = IF Len(wc[p]) > 1 THEN "parse"
                                ELSE LoopHead(p, s, r)]
     /\ scnt' = [scnt EXCEPT ![p] = s]
     /\ rcnt' = [rcnt EXCEPT ![p] = r]
     /\ routs' = [routs EXCEPT ![p] = left + refill]
     /\ rq' = [rq EXCEPT ![p] = @ + refill]
     /\ pending' = [pending EXCEPT ![p][i] =
                      IF answer THEN {"SEND", "RECV"} ELSE @ \ {op}]
     /\ sq' = [sq EXCEPT ![p][i] = IF answer THEN "posted" ELSE @]
     /\ sent' = [sent EXCEPT ![p] = IF answer THEN @ + 1 ELSE @]
     /\ wc' = [wc EXCEPT ![p] = Tail(@)]
     /\ UNCHANGED <<options, tcp, qp, cq, armed, events,
                    wire, got, known>>

ParseWc(p) ==
  /\ pc[p] = "parse"
  /\ LET c == Head(wc[p])
     IN IF c.ok THEN Parsed(p, c.op, c.qp) ELSE Leave(p, "failed")

Finish(p) == pc[p] = "finish" /\ Leave(p, "ok")

CallFails(p) ==
  /\ "verbs" \in faults
  /\ pc[p] \in {"start", "connect", "serve", "get_event", "req_notify", "poll",
                "parse", "finish"}
  /\ Leave(p, "failed")

-----------------------------------------------------------------------------
(* The adapters, for each queue pair.                                       *)

Entry(op, ok, i) == [op |-> op, ok |-> ok, qp |-> i]

Deliver(p, i) ==
  /\ sq[p][i] = "posted" /\ p \in known /\ Ready(Other(p))
  /\ sq' = [sq EXCEPT ![p][i] = "acking"]
  /\ rq' = [rq EXCEPT ![Other(p)] = @ - 1]
  /\ Completed(Other(p), Entry("RECV", TRUE, i))
  /\ got' = [got EXCEPT ![Other(p)] = @ + 1]
  /\ UNCHANGED <<program, qp, wire, sent, known>>

Acknowledge(p, i) ==
  /\ sq[p][i] = "acking"
  /\ sq' = [sq EXCEPT ![p][i] = "idle"]
  /\ Completed(p, Entry("SEND", TRUE, i))
  /\ UNCHANGED <<program, qp, rq, wire, sent, got, known>>

RetryExceeded(p, i) ==
  /\ sq[p][i] = "posted"
  /\ qp[Other(p)] # "rts" \/ p \notin known
  /\ sq' = [sq EXCEPT ![p][i] = "idle"]
  /\ Completed(p, Entry("SEND", FALSE, i))
  /\ UNCHANGED <<program, qp, rq, wire, sent, got, known>>

-----------------------------------------------------------------------------
Program(p) ==
  \/ Prepare(p)
  \/ p = "server" /\ ServerExchDest(p)
  \/ p = "client" /\ ClientExchDest(p)
  \/ ConnectCtx(p) \/ Serve(p)
  \/ GetCqEvent(p) \/ ReqNotify(p) \/ PollCq(p) \/ ParseWc(p)
  \/ Finish(p)

Adapter(p) ==
  \E i \in Qps : Deliver(p, i) \/ Acknowledge(p, i) \/ RetryExceeded(p, i)

Done == /\ \A p \in Peers : pc[p] \in {"ok", "failed"}
        /\ UNCHANGED srqVars

Next == \/ \E p \in Peers : Program(p) \/ Adapter(p)
        \/ \E p \in Peers : GoesOn(p) \/ TcpFails(p) \/ CallFails(p)
        \/ Done

Fairness == \A p \in Peers : WF_srqVars(Program(p)) /\ WF_srqVars(Adapter(p))

Spec == SrqInit /\ [][Next]_srqVars /\ Fairness

-----------------------------------------------------------------------------
Live(p) == pc[p] \notin {"ok", "failed"}

\* "must have at least one receive per QP": every message under way to a side
\* that has not ended finds a receive of its own in the shared queue, neither
\* that queue nor the completion queue overflows, and the slot of a queue pair
\* is free when the program may send on it.
ReceiveForEach == \A p \in Peers :
  /\ Live(p) /\ qp[p] = "rts" =>
       Cardinality({i \in Qps : sq[Other(p)][i] = "posted"}) <= rq[p]
  /\ rq[p] <= RxDepth
  /\ Len(cq[p]) <= RxDepth + NumQp
  /\ \A i \in Qps : Live(p) /\ "SEND" \notin pending[p][i] => QpSlotFree(p, i)

\* Without a failing call a side may still see a send fail, one too many, when
\* the other one has ended: but who ends, either way, has got Iters messages
\* and has had Iters of its own delivered.
EndedGotAll ==
  faults = {} => \A p \in Peers :
    ~Live(p) => got[p] >= Iters /\ got[Other(p)] >= Iters

\* Without a failing call both sides end.
BothEnd == faults = {} => <>(\A p \in Peers : ~Live(p))
=============================================================================
