------------------------------- MODULE RcPair -------------------------------
(***************************************************************************)
(* RDMA/rdma1.cpp: a server and a client exchange queue-pair addresses     *)
(* over TCP, connect two RC queue pairs, and then move data three times:   *)
(* SEND by the server, RDMA READ and RDMA WRITE by the client.  One-byte   *)
(* exchanges over TCP ("Q", "R", "W") are the only thing that orders the   *)
(* two programs.  The module has three parts: the two programs, the TCP    *)
(* connection between them, and the adapters that execute work requests.   *)
(*                                                                         *)
(* A program is the straight-line body of main, resources_create and       *)
(* connect_qp; pc names the call it is about to make.  The allocation and  *)
(* release of the verbs objects one by one is in module RcResources.       *)
(***************************************************************************)
EXTENDS Naturals, Sequences

CONSTANTS
  Server, Client,  \* the process started without, and with, a <host> argument
  ConLen,          \* pieces in which TCP may deliver cm_con_data_t
  Faults           \* what may go wrong in this model

FaultKinds == {"short",     \* TCP takes or delivers a part of the connection data
               "refused",   \* the client is started before the server listens
               "create",    \* resources_create fails
               "verbs",     \* an ibv_ call after resources_create fails
               "timeout",   \* no completion within MAX_POLL_CQ_TIMEOUT
               "retry"}     \* the fabric loses a request retry_cnt times

ASSUME RcAssumption == /\ Server # Client
                       /\ ConLen \in {1, 2}
                       /\ Faults \subseteq FaultKinds

VARIABLES
  faults,   \* what may go wrong in this run: nothing, or all of Faults
  pc,       \* pc[p]: the call p is about to make
  rc,       \* rc[p]: main's rc
  total,    \* total[p]: total_read_bytes of the sock_sync_data p is in
  remote,   \* remote[p]: tmp_con_data, later remote_props
  out,      \* out[p]: the contents of buf that p has printed
  sock,     \* sock[p]: p's TCP socket
  chan,     \* chan[p]: bytes sent to p and not yet read by it
  peerEnd,  \* peerEnd[p]: what p's kernel knows of the other end
  qp,       \* qp[p]: state of p's queue pair
  rq,       \* rq[p]: receive requests posted on it
  sq,       \* sq[p]: send requests posted on it and not yet executed
  pend,     \* pend[p]: completions on their way to p's completion queue
  cq,       \* cq[p]: p's completion queue
  buf       \* buf[p]: contents of the registered buffer

prog == <<pc, rc, total, remote, out>>
tcp  == <<sock, chan, peerEnd>>
nic  == <<qp, rq, sq, pend, cq>>
vars == <<faults, prog, tcp, nic, buf>>

Peers    == {Server, Client}
Other(p) == IF p = Server THEN Client ELSE Server

-----------------------------------------------------------------------------
(* Control flow: the call that follows one that succeeded.                 *)

ConnectSteps == {"con_write", "con_read", "init", "post_rr", "rtr", "rts",
                 "q_write", "q_read"}
MainSteps    == {"post_send", "poll_send", "fill", "poll_recv", "got_msg",
                 "r_write", "r_read", "post_read", "poll_read", "put",
                 "post_write", "poll_write", "w_write", "w_read", "report"}
ExitSteps    == {"destroy", "close", "done"}
Steps        == {"start", "accept", "create"} \cup ConnectSteps
                  \cup MainSteps \cup ExitSteps

WriteSteps == {"con_write", "q_write", "r_write", "w_write"}
ReadSteps  == {"con_read", "q_read", "r_read", "w_read"}
PollSteps  == {"poll_send", "poll_recv", "poll_read", "poll_write"}
\* The steps that end at main_exit when an ibv_ call fails (ibv_query_gid comes
\* right before con_write).
VerbsSteps == PollSteps \cup {"con_write", "init", "post_rr", "rtr", "rts",
                              "post_send", "post_read", "post_write"}

\* connect_qp: only the client posts a receive request; then back to main.
ConnectQp(p, at) ==
  CASE at = "con_write" -> "con_read"
    [] at = "con_read"  -> "init"
    [] at = "init"      -> IF p = Client THEN "post_rr" ELSE "rtr"
    [] at = "post_rr"   -> "rtr"
    [] at = "rtr"       -> "rts"
    [] at = "rts"       -> "q_write"
    [] at = "q_write"   -> "q_read"
    [] at = "q_read"    -> IF p = Client THEN "poll_recv" ELSE "post_send"

\* main: the server sends and then waits; the client reads and writes.
Main(p, at) ==
  CASE at = "post_send"  -> "poll_send"
    [] at = "poll_send"  -> "fill"
    [] at = "fill"       -> "r_write"
    [] at = "poll_recv"  -> "got_msg"
    [] at = "got_msg"    -> "r_write"
    [] at = "r_write"    -> "r_read"
    [] at = "r_read"     -> IF p = Client THEN "post_read" ELSE "w_write"
    [] at = "post_read"  -> "poll_read"
    [] at = "poll_read"  -> "put"
    [] at = "put"        -> "post_write"
    [] at = "post_write" -> "poll_write"
    [] at = "poll_write" -> "w_write"
    [] at = "w_write"    -> "w_read"
    [] at = "w_read"     -> "report"
    [] at = "report"     -> "destroy"

\* Mutants: a call or an exchange left out.
Skipping(p, at, x, y) == IF at = x THEN y
                         ELSE IF at \in ConnectSteps THEN ConnectQp(p, at)
                         ELSE Main(p, at)

FollowWithoutPollRead(p, at) == Skipping(p, at, "post_read", "put")
FollowWithoutQSync(p, at) ==
  Skipping(p, at, "rts", IF p = Client THEN "poll_recv" ELSE "post_send")
FollowWithoutRSync(p, at) ==
  Skipping(p, at, "got_msg", "post_read")
FollowWithoutRRead(p, at) ==
  Skipping(p, at, "r_write", IF p = Client THEN "post_read" ELSE "w_write")
FollowWithoutWRead(p, at) ==
  IF p = Server THEN Skipping(p, at, "w_write", "report")
                ELSE Skipping(p, at, "", "")
FollowWithoutWWrite(p, at) ==
  IF p = Server THEN Skipping(p, at, "r_read", "w_read")
                ELSE Skipping(p, at, "", "")

\* The call after the one at `at`.
Follow(p, at) == IF at \in ConnectSteps THEN ConnectQp(p, at) ELSE Main(p, at)

Goto(p, step) == pc' = [pc EXCEPT ![p] = step]
Continue(p)   == Goto(p, Follow(p, pc[p]))

-----------------------------------------------------------------------------
(* Data.                                                                   *)

\* The connection data of p in transfer order: the first piece holds addr and
\* rkey, the last one qp_num, lid and gid (with ConLen = 1 they are the same).
ConData(p) == [i \in 1..ConLen |-> <<p, i>>]

Token(c) == <<c, 0>>       \* a one-byte message
Garbage  == Token("uninitialized")
Bytes    == (Peers \X (1..ConLen)) \cup {Token(c) : c \in {"Q", "R", "W"}}

\* What a call of sock_sync_data sends; it reads back as much as it sends.
Payload(p, at) == CASE at = "con_write" -> ConData(p)
                    [] at = "q_write"   -> <<Token("Q")>>
                    [] at = "r_write"   -> <<Token("R")>>
                    [] at = "w_write"   -> <<Token("W")>>

XferSize(at) == IF at = "con_read" THEN ConLen ELSE 1

Ops      == {"SEND", "READ", "WRITE"}
CQE      == [op : Ops \cup {"RECV"}, ok : BOOLEAN]
Contents == {"none", "zero", "MSG", "RDMAMSGR", "RDMAMSGW", "freed"}
QpStates == {"none", "RESET", "INIT", "RTR", "RTS", "ERR", "destroyed"}

StateOK ==
  /\ pc \in [Peers -> Steps]
  /\ rc \in [Peers -> {0, 1}]
  /\ total \in [Peers -> 0..1]
  /\ remote \in [Peers -> [1..ConLen -> Bytes \cup {Garbage}]]
  /\ out \in [Peers -> Seq(Contents)]
  /\ sock \in [Peers -> {"none", "listening", "open", "closed"}]
  /\ chan \in [Peers -> Seq(Bytes)]
  /\ peerEnd \in [Peers -> {"up", "fin", "finrst", "rst"}]
  /\ qp \in [Peers -> QpStates]
  /\ rq \in [Peers -> Nat]
  /\ sq \in [Peers -> Seq(Ops)]
  /\ pend \in [Peers -> Seq(CQE)]
  /\ cq \in [Peers -> Seq(CQE)]
  /\ buf \in [Peers -> Contents]

TypeOK == faults \in {{}, Faults} /\ StateOK

Init ==
  /\ faults \in {{}, Faults}
  /\ pc = [p \in Peers |-> "start"]
  /\ rc = [p \in Peers |-> 1]
  /\ total = [p \in Peers |-> 0]
  /\ remote = [p \in Peers |-> [i \in 1..ConLen |-> Garbage]]
  /\ out = [p \in Peers |-> <<>>]
  /\ sock = [p \in Peers |-> "none"]
  /\ chan = [p \in Peers |-> <<>>]
  /\ peerEnd = [p \in Peers |-> "up"]
  /\ qp = [p \in Peers |-> "none"]
  /\ rq = [p \in Peers |-> 0]
  /\ sq = [p \in Peers |-> <<>>]
  /\ pend = [p \in Peers |-> <<>>]
  /\ cq = [p \in Peers |-> <<>>]
  /\ buf = [p \in Peers |-> "none"]

-----------------------------------------------------------------------------
(* sock_connect and resources_create.                                      *)

Listen == /\ pc[Server] = "start"
          /\ sock' = [sock EXCEPT ![Server] = "listening"]
          /\ Goto(Server, "accept")
          /\ UNCHANGED <<rc, total, remote, out, chan, peerEnd, nic, buf>>

\* connect() completes as soon as the server listens.
Connect == /\ pc[Client] = "start"
           /\ sock[Server] = "listening"
           /\ sock' = [sock EXCEPT ![Client] = "open"]
           /\ Goto(Client, "create")
           /\ UNCHANGED <<rc, total, remote, out, chan, peerEnd, nic, buf>>

\* Nobody listens: exit(1).
ConnectRefused == /\ "refused" \in faults
                  /\ pc[Client] = "start"
                  /\ sock[Server] = "none"
                  /\ Goto(Client, "done")
                  /\ UNCHANGED <<faults, rc, total, remote, out, tcp, nic, buf>>

\* accept() returns a connection of the backlog, even one already closed.
Accept == /\ pc[Server] = "accept"
          /\ sock[Client] \in {"open", "closed"}
          /\ sock' = [sock EXCEPT ![Server] = "open"]
          /\ Goto(Server, "create")
          /\ UNCHANGED <<rc, total, remote, out, chan, peerEnd, nic, buf>>

\* close(): unread data makes the kernel reset the connection instead of
\* ending it in order.
CloseSocket(p) ==
  /\ sock' = [sock EXCEPT ![p] = "closed"]
  /\ peerEnd' = [peerEnd EXCEPT ![Other(p)] =
                   IF chan[p] # <<>> THEN "rst" ELSE "fin"]
  /\ chan' = [chan EXCEPT ![p] = <<>>]

\* Only the server fills its buffer.
ResourcesCreate(p) ==
  /\ pc[p] = "create"
  /\ qp' = [qp EXCEPT ![p] = "RESET"]
  /\ buf' = [buf EXCEPT ![p] = IF p = Server THEN "MSG" ELSE "zero"]
  /\ Goto(p, "con_write")
  /\ UNCHANGED <<rc, total, remote, out, tcp, rq, sq, pend, cq>>

\* The cleanup of resources_create leaves resources_destroy nothing to do.
ResourcesCreateFails(p) ==
  /\ "create" \in faults
  /\ pc[p] = "create"
  /\ CloseSocket(p)
  /\ Goto(p, "done")
  /\ UNCHANGED <<rc, total, remote, out, nic, buf>>

-----------------------------------------------------------------------------
(* sock_sync_data: write xfer_size bytes, then read until as many came.    *)

\* A write towards a closed socket is accepted, and answered by a reset; one
\* on a reset connection fails (after "finrst" with a fatal SIGPIPE, which
\* GivingUpNoticed shows never to happen).
SyncWrite(p) ==
  /\ pc[p] \in WriteSteps
  /\ chan' = IF peerEnd[p] = "up"
               THEN [chan EXCEPT ![Other(p)] = @ \o Payload(p, pc[p])]
               ELSE chan
  /\ peerEnd' = [peerEnd EXCEPT ![p] = IF @ = "fin" THEN "finrst" ELSE @]
  /\ IF peerEnd[p] \in {"up", "fin"} THEN Continue(p) ELSE Goto(p, "destroy")
  /\ UNCHANGED <<rc, total, remote, out, sock, nic, buf>>

\* write() took only the first k bytes: rc = k skips the read loop, and since
\* connect_qp only tests for rc < 0 it goes on with tmp_con_data unset.
ShortWrite(p) ==
  \E k \in 1..(ConLen - 1) :
    /\ "short" \in faults
    /\ pc[p] = "con_write"
    /\ peerEnd[p] = "up"
    /\ chan' = [chan EXCEPT ![Other(p)] = @ \o SubSeq(ConData(p), 1, k)]
    /\ Goto(p, "init")
    /\ UNCHANGED <<rc, total, remote, out, sock, peerEnd, nic, buf>>

\* total_read_bytes after n more bytes; the next call starts again at 0.
\* (Mutant: it does not.)
CountForEver(p, n) == total[p] + n

Count(p, n) == IF total[p] + n >= XferSize(pc[p]) THEN 0 ELSE total[p] + n

\* One read() of the loop.  It asks for xfer_size bytes whatever already came
\* and stores what it gets at the beginning of remote_data.
SyncRead(p) ==
  \E n \in 1..XferSize(pc[p]) :
    /\ pc[p] \in ReadSteps
    /\ n <= Len(chan[p])
    /\ "short" \in faults \/ n = XferSize(pc[p])
    /\ chan' = [chan EXCEPT ![p] = SubSeq(@, n + 1, Len(@))]
    /\ total' = [total EXCEPT ![p] = Count(p, n)]
    /\ remote' = IF pc[p] = "con_read"
                   THEN [remote EXCEPT ![p] = [i \in 1..ConLen |->
                           IF i <= n THEN chan[p][i] ELSE @[i]]]
                   ELSE remote
    /\ IF total[p] + n >= XferSize(pc[p]) THEN Continue(p) ELSE UNCHANGED pc
    /\ UNCHANGED <<rc, out, sock, peerEnd, nic, buf>>

\* read() = -1 on a reset connection.
SyncReadFails(p) ==
  /\ pc[p] \in ReadSteps
  /\ chan[p] = <<>>
  /\ peerEnd[p] = "rst"
  /\ total' = [total EXCEPT ![p] = 0]
  /\ Goto(p, "destroy")
  /\ UNCHANGED <<rc, remote, out, tcp, nic, buf>>

\* read() = 0 at the end of the stream: rc = read_bytes = 0 keeps the loop
\* running, for ever.
AtEndOfStream(p) == /\ pc[p] \in ReadSteps
                    /\ chan[p] = <<>>
                    /\ peerEnd[p] \in {"fin", "finrst"}

SyncSpin(p) == AtEndOfStream(p) /\ UNCHANGED vars

-----------------------------------------------------------------------------
(* Queue-pair set-up and the work requests the programs post.              *)

ModifyQp(p, at, to) ==
  /\ pc[p] = at
  /\ qp' = [qp EXCEPT ![p] = to]
  /\ Continue(p)
  /\ UNCHANGED <<rc, total, remote, out, tcp, rq, sq, pend, cq, buf>>

ModifyQpToInit(p) == ModifyQp(p, "init", "INIT")
ModifyQpToRtr(p)  == ModifyQp(p, "rtr", "RTR")
ModifyQpToRts(p)  == ModifyQp(p, "rts", "RTS")

PostReceive(p) ==
  /\ pc[p] = "post_rr"
  /\ rq' = [rq EXCEPT ![p] = @ + 1]
  /\ Continue(p)
  /\ UNCHANGED <<rc, total, remote, out, tcp, qp, sq, pend, cq, buf>>

PostSend(p, at, op) ==
  /\ pc[p] = at
  /\ sq' = [sq EXCEPT ![p] = Append(@, op)]
  /\ Continue(p)
  /\ UNCHANGED <<rc, total, remote, out, tcp, qp, rq, pend, cq, buf>>

PostAnySend(p) == \/ PostSend(p, "post_send", "SEND")
                  \/ PostSend(p, "post_read", "READ")
                  \/ PostSend(p, "post_write", "WRITE")

\* poll_completion takes one completion and looks at its status only, never
\* at which request it completes.
PollCompletion(p) ==
  /\ pc[p] \in PollSteps
  /\ cq[p] # <<>>
  /\ cq' = [cq EXCEPT ![p] = Tail(@)]
  /\ IF Head(cq[p]).ok THEN Continue(p) ELSE Goto(p, "destroy")
  /\ UNCHANGED <<rc, total, remote, out, tcp, qp, rq, sq, pend, buf>>

\* Mutant: a poll without a time limit.
PollForEver(p) == FALSE /\ UNCHANGED vars

PollTimeout(p) ==
  /\ "timeout" \in faults
  /\ pc[p] \in PollSteps
  /\ cq[p] = <<>>
  /\ Goto(p, "destroy")
  /\ UNCHANGED <<rc, total, remote, out, tcp, nic, buf>>

\* An ibv_ call returns an error: every caller jumps to main_exit.
VerbsError(p) ==
  /\ "verbs" \in faults
  /\ pc[p] \in VerbsSteps
  /\ Goto(p, "destroy")
  /\ UNCHANGED <<rc, total, remote, out, tcp, nic, buf>>

-----------------------------------------------------------------------------
(* What main does with the buffer between the transfers.                   *)

Show(p) == out' = [out EXCEPT ![p] = Append(@, buf[p])]

PrintMessage(p) ==
  /\ pc[p] = "got_msg"
  /\ Show(p)
  /\ Continue(p)
  /\ UNCHANGED <<rc, total, remote, tcp, nic, buf>>

SetupReadMessage(p) ==
  /\ pc[p] = "fill"
  /\ buf' = [buf EXCEPT ![p] = "RDMAMSGR"]
  /\ Continue(p)
  /\ UNCHANGED <<rc, total, remote, out, tcp, nic>>

ReplaceContents(p) ==
  /\ pc[p] = "put"
  /\ Show(p)
  /\ buf' = [buf EXCEPT ![p] = "RDMAMSGW"]
  /\ Continue(p)
  /\ UNCHANGED <<rc, total, remote, tcp, nic>>

Report(p) ==
  /\ pc[p] = "report"
  /\ IF p = Server THEN Show(p) ELSE UNCHANGED out
  /\ rc' = [rc EXCEPT ![p] = 0]
  /\ Continue(p)
  /\ UNCHANGED <<total, remote, tcp, nic, buf>>

\* resources_destroy: the queue pair first, the socket last; an object that
\* cannot be released makes the test fail.
DestroyVerbs(p) ==
  /\ pc[p] = "destroy"
  /\ \E r \in {rc[p]} \cup (IF "verbs" \in faults THEN {1} ELSE {}) :
       rc' = [rc EXCEPT ![p] = r]
  /\ qp' = [qp EXCEPT ![p] = "destroyed"]
  /\ rq' = [rq EXCEPT ![p] = 0]
  /\ sq' = [sq EXCEPT ![p] = <<>>]
  /\ pend' = [pend EXCEPT ![p] = <<>>]
  /\ cq' = [cq EXCEPT ![p] = <<>>]
  /\ buf' = [buf EXCEPT ![p] = "freed"]
  /\ Goto(p, "close")
  /\ UNCHANGED <<total, remote, out, tcp>>

CloseAndReturn(p) ==
  /\ pc[p] = "close"
  /\ CloseSocket(p)
  /\ Goto(p, "done")
  /\ UNCHANGED <<rc, total, remote, out, nic, buf>>

-----------------------------------------------------------------------------
(* The adapters (ibv_post_send to ibv_poll_cq): reliable connected service *)
(* with rnr_retry = 0, used through the calls above.                       *)

\* The address p was given for the queue pair, or the buffer, of q is q's.
Reaches(p, q)  == remote[p][ConLen] = ConData(q)[ConLen]
Accesses(p, q) == remote[p][1] = ConData(q)[1]

CanLand(p) == /\ Reaches(p, Other(p))
              /\ qp[Other(p)] \in {"RTR", "RTS"}

\* A SEND needs a receive request, the RDMA operations a valid rkey.
Granted(p, op) == IF op = "SEND" THEN rq[Other(p)] > 0 ELSE Accesses(p, Other(p))

\* The data movement of a granted request.
Transfer(p, op) ==
  IF op = "READ" THEN [buf EXCEPT ![p] = buf[Other(p)]]
                 ELSE [buf EXCEPT ![Other(p)] = buf[p]]

\* The oldest request of p is executed by the adapter of the other side.  p
\* gets an acknowledgement if that side knows p's address and it is not lost.
Execute(p) ==
  \E heard \in IF "retry" \in faults THEN BOOLEAN ELSE {TRUE} :
    LET q  == Other(p)
        op == Head(sq[p])
        ok == Granted(p, op)
        acked == ok /\ heard /\ Reaches(q, p)
        done == Append(pend[p], [op |-> op, ok |-> acked])
        received == IF ok /\ op = "SEND"
                      THEN <<[op |-> "RECV", ok |-> TRUE]>> ELSE <<>> IN
    /\ qp[p] = "RTS"
    /\ sq[p] # <<>>
    /\ CanLand(p)
    /\ sq' = [sq EXCEPT ![p] = Tail(@)]
    /\ buf' = IF ok /\ (acked \/ op # "READ") THEN Transfer(p, op) ELSE buf
    /\ rq' = [rq EXCEPT ![q] = @ - Len(received)]
    /\ pend' = [pend EXCEPT ![p] = done, ![q] = @ \o received]
    /\ qp' = [qp EXCEPT ![p] = IF acked THEN @ ELSE "ERR"]
    /\ UNCHANGED <<prog, tcp, cq>>

\* No acknowledgement after retry_cnt attempts.
RetryExceeded(p) ==
  /\ qp[p] = "RTS"
  /\ sq[p] # <<>>
  /\ "retry" \in faults \/ ~CanLand(p)
  /\ sq' = [sq EXCEPT ![p] = Tail(@)]
  /\ pend' = [pend EXCEPT ![p] = Append(@, [op |-> Head(sq[p]), ok |-> FALSE])]
  /\ qp' = [qp EXCEPT ![p] = "ERR"]
  /\ UNCHANGED <<prog, tcp, rq, cq, buf>>

\* A completion becomes visible to ibv_poll_cq.
DeliverCompletion(p) ==
  /\ pend[p] # <<>>
  /\ cq' = [cq EXCEPT ![p] = Append(@, Head(pend[p]))]
  /\ pend' = [pend EXCEPT ![p] = Tail(@)]
  /\ UNCHANGED <<prog, tcp, qp, rq, sq, buf>>

-----------------------------------------------------------------------------
Establish == (Listen \/ Connect \/ Accept) /\ UNCHANGED faults

Sync(p) == \/ SyncWrite(p) \/ ShortWrite(p) \/ SyncRead(p)
           \/ SyncReadFails(p) \/ SyncSpin(p)

Verbs(p) == \/ ModifyQpToInit(p) \/ ModifyQpToRtr(p) \/ ModifyQpToRts(p)
            \/ PostReceive(p) \/ PostAnySend(p)
            \/ PollCompletion(p) \/ PollTimeout(p)

Buffer(p) == \/ PrintMessage(p) \/ SetupReadMessage(p) \/ ReplaceContents(p)
             \/ Report(p)

Lifetime(p) == ResourcesCreate(p) \/ DestroyVerbs(p) \/ CloseAndReturn(p)

Program(p) == /\ Sync(p) \/ Verbs(p) \/ Buffer(p) \/ Lifetime(p)
              /\ UNCHANGED faults

Failure(p) == /\ ResourcesCreateFails(p) \/ VerbsError(p)
              /\ UNCHANGED faults

Adapter(p) == /\ Execute(p) \/ RetryExceeded(p) \/ DeliverCompletion(p)
              /\ UNCHANGED faults

\* Both programs have returned.
Finished == (\A p \in Peers : pc[p] = "done") /\ UNCHANGED vars

Next == \/ Establish \/ ConnectRefused
        \/ \E p \in Peers : Program(p) \/ Failure(p) \/ Adapter(p)
        \/ Finished

\* Both programs are scheduled, and the adapters work on what is posted; no
\* call has to fail.
Fairness == /\ WF_vars(Establish)
            /\ \A p \in Peers : WF_vars(Program(p)) /\ WF_vars(Adapter(p))

Spec == Init /\ [][Next]_vars

FairSpec == Spec /\ Fairness

-----------------------------------------------------------------------------
(* Safety.                                                                 *)

\* "CQ with 1 entry is enough" (line 479), and so are one send and one receive
\* request: no queue of either side ever holds two.
QueuesFit == \A p \in Peers : /\ rq[p] <= 1
                              /\ Len(sq[p]) <= 1
                              /\ Len(cq[p]) + Len(pend[p]) <= 1

\* "There is a Receive Request in the responder side, so we won't get any into
\* RNR flow" (line 305), and the sync after RTS prevents "packet loose" (line
\* 768): what is under way to the peer's queue pair finds it ready, and a SEND
\* a receive request, unless the peer has given up.
RequestsLand ==
  \A p \in Peers :
    LET q == Other(p) IN
    sq[p] # <<>> /\ remote[p] = ConData(q) =>
      /\ qp[q] \in {"RTR", "RTS", "ERR", "destroyed"}
      /\ Head(sq[p]) = "SEND" => rq[q] > 0 \/ qp[q] = "destroyed"

\* poll_completion does not look at the opcode; the completion it takes is
\* nevertheless the one main waits for, also after errors and timeouts.
CompletionMatches ==
  \A p \in Peers :
    pc[p] \in PollSteps /\ cq[p] # <<>> =>
      Head(cq[p]).op = CASE pc[p] = "poll_send"  -> "SEND"
                         [] pc[p] = "poll_recv"  -> "RECV"
                         [] pc[p] = "poll_read"  -> "READ"
                         [] pc[p] = "poll_write" -> "WRITE"

\* The "R" and "W" syncs are enough: while a program reads or writes its buffer
\* (printf, strcpy) no adapter is about to access it, and none of the client's
\* requests is under way once the server has released its own, whatever failed.
BufferSafe ==
  \A p \in Peers :
    \/ pc[p] \in {"fill", "got_msg", "put"}
    \/ pc[p] = "report" /\ p = Server
    \/ buf[Server] = "freed"
    => \A q \in Peers : sq[q] = <<>>

\* connect_qp saves "the remote side attributes, we will need it for the post
\* SR" (line 718): from then on they are the peer's.
RemoteKnown ==
  \A p \in Peers :
    pc[p] \in (ConnectSteps \cup MainSteps) \ {"con_write", "con_read"}
      => remote[p] = ConData(Other(p))

\* A peer that gave up is noticed in the read that follows: no second write
\* goes to a closed socket, where SIGPIPE would end the program without
\* resources_destroy, and a side that spins at the end of the stream has a
\* peer that failed.
GivingUpNoticed ==
  \A p \in Peers :
    /\ pc[p] \in WriteSteps => peerEnd[p] # "finrst"
    /\ AtEndOfStream(p) => rc[Other(p)] = 1

-----------------------------------------------------------------------------
(* What the two programs promise, and when they end.                       *)

Result == [p \in Peers |-> IF pc[p] # "done" THEN "running"
                           ELSE IF rc[p] = 0 THEN "ok" ELSE "failed"]

Promise == INSTANCE RcTransfer WITH result <- Result

\* The printed texts are the right ones in the right order, and "test result
\* is 0" comes after all of them.
ImplementsTransfer == Promise!Spec

\* Without faults both programs end with "test result is 0".
TestSucceeds ==
  faults = {} => <>(\A p \in Peers : pc[p] = "done" /\ rc[p] = 0)

\* Nobody has connected, and nobody will.
ServerAlone == pc[Server] = "accept" /\ pc[Client] = "done" /\ sock[Client] = "none"

\* Whatever fails, a program ends, unless the peer closed the connection
\* before the byte it waits for, or the only client came too early.
EndsOrHangs ==
  <>(\A p \in Peers : \/ pc[p] = "done"
                      \/ AtEndOfStream(p)
                      \/ p = Server /\ ServerAlone)
=============================================================================
