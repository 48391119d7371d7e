----------------------------- MODULE UcPingpong ------------------------------
(***************************************************************************)
(* uc_pingpong.c of RDMA/examples: the match over an unreliable connection. *)
(* A message is complete for its sender when it has left, and nobody is     *)
(* told of one that is lost or that finds no receive.                       *)
(***************************************************************************)
EXTENDS PpLink

Uc == INSTANCE PpProgram

Prepare(p) == Uc!Prepare(p)

ServerExchDest == Uc!ServerExchange("server")
ClientExchDest == Uc!ClientExchange("client")
ConnectCtx(p) == Uc!Connect(p, Uc!Connected(p))

Serve(p) == Uc!Serve(p)

GetCqEvent(p) == Uc!GetCqEvent(p)
ReqNotify(p) == Uc!ReqNotify(p)
PollCq(p) == Uc!PollCq(p)
ParseWc(p) == Uc!ParseSingleWc(p)
Finish(p) == Uc!Finish(p)

Program(p) ==
  \/ Prepare(p) \/ ConnectCtx(p) \/ Serve(p)
  \/ p = "server" /\ ServerExchDest
  \/ p = "client" /\ ClientExchDest
  \/ GetCqEvent(p) \/ ReqNotify(p) \/ PollCq(p) \/ ParseWc(p)
  \/ Finish(p)

Failure(p) == Uc!CallFails(p) \/ Uc!TcpFails(p)
=============================================================================
