----------------------------- MODULE UdPingpong ------------------------------
(***************************************************************************)
(* ud_pingpong.c of RDMA/examples: the match over datagrams.  A queue pair  *)
(* is ready without knowing its peer; what a side needs for its sends is    *)
(* the address handle, which it makes when it has the address.              *)
(***************************************************************************)
EXTENDS PpLink

VARIABLE ah   \* the sides with an address handle

Ud == INSTANCE PpProgram

Prepare(p) == Ud!Prepare(p) /\ UNCHANGED ah

ServerExchDest == Ud!ServerExchange("server") /\ UNCHANGED ah
ClientExchDest == Ud!ClientExchange("client") /\ UNCHANGED ah

\* Mutant of ConnectCtx: no address handle.
ConnectOnly(p) == Ud!Connect(p, Ud!Connected(p)) /\ UNCHANGED ah

\* pp_connect_ctx: the queue pair to RTR and RTS, then the address handle.
ConnectCtx(p) == Ud!Connect(p, "create_ah") /\ UNCHANGED ah

CreateAh(p) == /\ Step(p, "create_ah", Ud!Connected(p))
               /\ ah' = ah \cup {p}
               /\ UNCHANGED <<options, proc, tcp, nic, wire, sent, got>>

Serve(p) == Ud!Serve(p) /\ UNCHANGED ah

GetCqEvent(p) == Ud!GetCqEvent(p) /\ UNCHANGED ah
ReqNotify(p) == Ud!ReqNotify(p) /\ UNCHANGED ah
PollCq(p) == Ud!PollCq(p) /\ UNCHANGED ah
ParseWc(p) == Ud!ParseSingleWc(p) /\ UNCHANGED ah
Finish(p) == Ud!Finish(p) /\ ah' = ah \ {p}

Program(p) ==
  \/ Prepare(p) \/ ConnectCtx(p) \/ CreateAh(p) \/ Serve(p)
  \/ p = "server" /\ ServerExchDest
  \/ p = "client" /\ ClientExchDest
  \/ GetCqEvent(p) \/ ReqNotify(p) \/ PollCq(p) \/ ParseWc(p)
  \/ Finish(p)

Failure(p) == (Ud!CallFails(p) \/ Ud!TcpFails(p)) /\ ah' = ah \ {p}
=============================================================================
