----------------------------- MODULE RcPingpong ------------------------------
(***************************************************************************)
(* rc_pingpong.c of RDMA/examples: client and server play Iters rounds over *)
(* a reliable connection, polling, sleeping on events (-e) or reading       *)
(* completions with time stamps (-t).                                       *)
(***************************************************************************)
EXTENDS PpProgram

ConnectCtx(p) == Connect(p, Connected(p))

\* ibv_start_poll returns ENOENT for an empty queue: a process that spins
\* tries again, one that was woken gives up.
StartPoll(p) ==
  /\ mode[p] \in Stamps
  /\ pc[p] = "poll"
  /\ \/ /\ cq[p] # <<>>
        /\ Step(p, "poll", "parse")
        /\ IbvPollCq(p, 1)
        /\ UNCHANGED <<options, pending, routs, scnt, rcnt, tcp,
                       wire, sent, got>>
     \/ cq[p] = <<>> /\ mode[p] \in Sleeps /\ Exit(p, "failed")

NextPoll(p) ==
  LET ne == IF cq[p] = <<>> THEN 0 ELSE 1 IN
  /\ Step(p, "next_poll",
          IF ne = 0 THEN LoopHead(p, scnt[p], rcnt[p]) ELSE "parse_next")
  /\ IbvPollCq(p, ne)
  /\ UNCHANGED <<options, pending, routs, scnt, rcnt, tcp, wire,
                 sent, got>>

-----------------------------------------------------------------------------
(* The adapters.                                                           *)

\* Reliable connection: the message arrives, then its acknowledgement.  One
\* that finds no receive is repeated for ever (rnr_retry = 7).
Deliver(p) == /\ sq[p] = "posted" /\ Ready(Other(p))
              /\ sq' = [sq EXCEPT ![p] = "acking"]
              /\ Landed(Other(p))
              /\ UNCHANGED <<program, qp, wire, sent>>

Acknowledge(p) == /\ sq[p] = "acking"
                  /\ sq' = [sq EXCEPT ![p] = "idle"]
                  /\ Completed(p, [op |-> "SEND", ok |-> TRUE])
                  /\ UNCHANGED <<program, qp, rq, wire, sent, got>>

\* No answer after retry_cnt attempts: there is no such queue pair (any more),
\* or packets get lost.  The other side may leave before its last
\* acknowledgement gets through.
RetryExceeded(p) ==
  /\ \/ sq[p] = "posted" /\ (qp[Other(p)] # "rts" \/ "link" \in faults)
     \/ sq[p] = "acking" /\ qp[Other(p)] = "none" /\ "ack" \in faults
  /\ sq' = [sq EXCEPT ![p] = "idle"]
  /\ qp' = [qp EXCEPT ![p] = "err"]
  /\ Completed(p, [op |-> "SEND", ok |-> FALSE])
  /\ UNCHANGED <<program, rq, wire, sent, got>>

-----------------------------------------------------------------------------
Program(p) ==
  \/ Prepare(p)
  \/ p = "server" /\ ServerExchange(p)
  \/ p = "client" /\ ClientExchange(p)
  \/ ConnectCtx(p) \/ Serve(p)
  \/ GetCqEvent(p) \/ ReqNotify(p) \/ PollCq(p)
  \/ StartPoll(p) \/ NextPoll(p)
  \/ ParseSingleWc(p) \/ Finish(p)

Failure(p) == CallFails(p) \/ TcpFails(p)

Adapter(p) == Deliver(p) \/ Acknowledge(p)

\* A queue pair that is gone is given up.
GiveUp(p) == qp[Other(p)] = "none" /\ RetryExceeded(p)
=============================================================================
