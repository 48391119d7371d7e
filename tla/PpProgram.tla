------------------------------ MODULE PpProgram ------------------------------
(***************************************************************************)
(* The program that rc_pingpong.c, uc_pingpong.c and ud_pingpong.c have in  *)
(* common, one operator for each call or step of it, with the lines of      *)
(* rc_pingpong.c.  Each of the three modules puts its own program together  *)
(* from them.                                                               *)
(***************************************************************************)
EXTENDS PpLink

\* Mutant of FirstNotify: the queue is armed in the loop only.
FirstNotifyLater(p) == FALSE /\ p \in Peers

\* ibv_req_notify_cq before the loop.
FirstNotify(p) == mode[p] \in Sleeps

\* pp_init_ctx, the receives, and for -e the first request for an event.
Prepare(p) ==
  /\ Step(p, "start", IF p = "server" THEN "listen" ELSE "dial")
  /\ IbvCreate(p, FirstNotify(p))
  /\ routs' = [routs EXCEPT ![p] = RxDepth]
  /\ UNCHANGED <<options, pending, scnt, rcnt, wc, tcp, wire,
                 sent, got>>

-----------------------------------------------------------------------------
(* The exchange of addresses.  The server connects its queue pair before it *)
(* answers, the client after it has written "done".                         *)

Exchanging(p) == UNCHANGED <<options, proc, nic, wire, sent, got>>

ServerExchange(p) ==
  \/ Step(p, "listen", "accept") /\ TcpListen(p) /\ Exchanging(p)
  \/ Step(p, "accept", "read_addr") /\ sock[p] = "open"
     /\ UNCHANGED tcp /\ Exchanging(p)
  \/ Step(p, "read_addr", "connect") /\ TcpRead(p, "addr") /\ Exchanging(p)
  \/ Step(p, "write_addr", "read_done") /\ TcpWrite(p, "addr") /\ Exchanging(p)
  \/ Step(p, "read_done", "serve") /\ TcpReadAndClose(p, "done")
     /\ Exchanging(p)

ClientExchange(p) ==
  \/ Step(p, "dial", "write_addr") /\ TcpConnect(p) /\ Exchanging(p)
  \/ Step(p, "write_addr", "read_addr") /\ TcpWrite(p, "addr") /\ Exchanging(p)
  \/ Step(p, "read_addr", "write_done") /\ TcpRead(p, "addr") /\ Exchanging(p)
  \/ Step(p, "write_done", "connect") /\ TcpWriteAndClose(p, "done")
     /\ Exchanging(p)

\* The call that comes after the queue pair has been connected.
Connected(p) == IF p = "server" THEN "write_addr" ELSE "serve"

\* pp_connect_ctx: to RTR and to RTS.
Connect(p, to) ==
  /\ Step(p, "connect", to)
  /\ IbvModifyRts(p)
  /\ UNCHANGED <<options, proc, tcp, wire, sent, got>>

-----------------------------------------------------------------------------
(* The loop.                                                               *)

Both == {"SEND", "RECV"}

\* Mutant of LoopHead: `&&' for `||'.
LoopHeadBoth(p, s, r) ==
  IF s >= Iters \/ r >= Iters THEN "finish"
  ELSE IF mode[p] \in Sleeps THEN "get_event" ELSE "poll"

\* while (rcnt < iters || scnt < iters)
LoopHead(p, s, r) == IF s >= Iters /\ r >= Iters THEN "finish"
                     ELSE IF mode[p] \in Sleeps THEN "get_event" ELSE "poll"

\* Only the client starts with a message of its own.
Serve(p) ==
  /\ Step(p, "serve", LoopHead(p, 0, 0))
  /\ pending' = [pending EXCEPT ![p] = IF p = "client" THEN Both ELSE {"RECV"}]
  /\ IbvPost(p, 0, p = "client")
  /\ sent' = [sent EXCEPT ![p] = IF p = "client" THEN @ + 1 ELSE @]
  /\ UNCHANGED <<options, routs, scnt, rcnt, wc, tcp, wire, got>>

\* num_cq_events counts what Finish acknowledges at once: it is left out.
GetCqEvent(p) ==
  /\ Step(p, "get_event", "req_notify")
  /\ IbvGetCqEvent(p)
  /\ UNCHANGED <<options, proc, tcp, wire, sent, got>>

\* Mutant of ReqNotify: the queue is not armed again.
ReqNothing(p) ==
  /\ Step(p, "req_notify", "poll")
  /\ UNCHANGED <<options, proc, tcp, nic, wire, sent, got>>

ReqNotify(p) ==
  /\ Step(p, "req_notify", "poll")
  /\ IbvReqNotifyCq(p)
  /\ UNCHANGED <<options, proc, tcp, wire, sent, got>>

\* Two completions at a time.  A process that was woken takes an empty queue
\* for an answer, one that spins does not.
PollCq(p) ==
  LET ne == IF Len(cq[p]) < 2 THEN Len(cq[p]) ELSE 2 IN
  /\ mode[p] \notin Stamps
  /\ mode[p] \in Sleeps \/ ne > 0
  /\ Step(p, "poll", IF ne = 0 THEN LoopHead(p, scnt[p], rcnt[p]) ELSE "parse")
  /\ IbvPollCq(p, ne)
  /\ UNCHANGED <<options, pending, routs, scnt, rcnt, tcp, wire,
                 sent, got>>

\* Where the program goes on after a completion: to the next one of wc, with
\* -t to ibv_next_poll, to the head of the loop.
AfterParse(p, s, r) ==
  IF Len(wc[p]) > 1 THEN "parse"
  ELSE IF pc[p] = "parse" /\ mode[p] \in Stamps THEN "next_poll"
  ELSE LoopHead(p, s, r)

\* Mutants of Refill: all of them again; never.
RefillWhole(left) == IF left <= 1 THEN RxDepth ELSE 0
RefillNever(left) == 0 * left

\* The receives to post when `left' are left.
Refill(left) == IF left <= 1 THEN RxDepth - left ELSE 0

\* Mutant of Answers: the last message is not waited for.
AnswersAll(p, s, op) == s < Iters

\* Whether the completion of op is the last one to wait for.
Answers(p, s, op) == s < Iters /\ pending[p] \subseteq {op}

\* A good completion: refill the receives when one is left, count, and answer
\* when both the last send and the last receive are complete.
Parsed(p, op) ==
  LET s      == IF op = "SEND" THEN scnt[p] + 1 ELSE scnt[p]
      r      == IF op = "RECV" THEN rcnt[p] + 1 ELSE rcnt[p]
      left   == IF op = "RECV" THEN routs[p] - 1 ELSE routs[p]
      refill == IF op = "RECV" THEN Refill(left) ELSE 0
      answer == Answers(p, s, op)
  IN /\ answer => SlotFree(p)
     /\ pc' = [pc EXCEPT ![p] = AfterParse(p, s, r)]
     /\ scnt' = [scnt EXCEPT ![p] = s]
     /\ rcnt' = [rcnt EXCEPT ![p] = r]
     /\ routs' = [routs EXCEPT ![p] = left + refill]
     /\ pending' = [pending EXCEPT ![p] = IF answer THEN Both ELSE @ \ {op}]
     /\ IbvPost(p, refill, answer)
     /\ sent' = [sent EXCEPT ![p] = IF answer THEN @ + 1 ELSE @]
     /\ wc' = [wc EXCEPT ![p] = Tail(@)]
     /\ UNCHANGED <<options, tcp, wire, got>>

\* Mutant of ParseSingleWc: the status is not looked at.
ParseAnyWc(p) ==
  /\ pc[p] \in {"parse", "parse_next"}
  /\ Parsed(p, Head(wc[p]).op)

ParseSingleWc(p) ==
  /\ pc[p] \in {"parse", "parse_next"}
  /\ IF Head(wc[p]).ok THEN Parsed(p, Head(wc[p]).op) ELSE Exit(p, "failed")

\* The events that were taken are acknowledged, and pp_close_ctx.
Finish(p) == pc[p] = "finish" /\ Exit(p, "ok")

-----------------------------------------------------------------------------
(* Failures: the process says so and returns 1.                             *)

Working == Labels \ (Exchange \cup {"ok", "failed"})

CallFails(p) == "verbs" \in faults /\ pc[p] \in Working /\ Exit(p, "failed")

TcpFails(p) == TcpBroken(p) /\ Exit(p, "failed")
=============================================================================
