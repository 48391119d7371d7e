--------------------------- MODULE PingpongProofs ---------------------------
(***************************************************************************)
(* Theorems about Pingpong, for any number of iterations, any depth of the *)
(* receive queue, any of the programs and options, and any set of faults.  *)
(*                                                                         *)
(* The invariant is bookkeeping: what a process has in its counters and in *)
(* pending is what it has sent and received, less what is still in its     *)
(* queues.  Added up over both processes it says that there is at most one *)
(* ball in the game, and everything else follows from that.                *)
(*                                                                         *)
(* The last part is about Ownership: what these programs, the other two    *)
(* examples and rdma1 set up, they release in order and to the last        *)
(* object, for any call that fails and any objects that cannot be          *)
(* released.  Its invariant OwnInv says, function by function, which       *)
(* objects exist.                                                          *)
(***************************************************************************)
EXTENDS Pingpong, PpProgram, Ownership, SequenceTheorems, TLAPS

\* There is at most one completion of each kind in a queue.
Has(s, op) == \E k \in 1..Len(s) : s[k].op = op
Single(s) == \A j, k \in 1..Len(s) : s[j].op = s[k].op => j = k

Bit(b) == IF b THEN 1 ELSE 0

Before == {"start", "listen", "accept", "dial", "write_addr", "read_addr", "write_done",
           "read_done", "connect", "create_ah", "serve"}
Looping == {"get_event", "req_notify", "poll", "parse", "next_poll", "parse_next", "finish"}
Ended == {"ok", "failed"}

\* Messages under way to p, and messages that p has got and not looked at.
Coming(p) == net[p] + Bit(sq[Other(p)] = "posted")
Unseen(p) == Bit(Has(cq[p], "RECV")) + Bit(Has(wc[p], "RECV"))

\* A process before its loop, in it, and after it.
Fresh(p) == pc[p] \in Before =>
  /\ pending[p] = {} /\ scnt[p] = 0 /\ rcnt[p] = 0 /\ sent[p] = 0
  /\ wc[p] = <<>>
  /\ pc[p] = "start" => rq[p] = 0 /\ routs[p] = 0 /\ cq[p] = <<>> /\ qp[p] = "none"

Busy(p) == pc[p] \in Looping =>
  /\ sent[p] = scnt[p] + Bit("SEND" \in pending[p])
  /\ sent[p] + Bit("RECV" \notin pending[p]) = rcnt[p] + Bit(p = "client")
  /\ pc[p] = "finish" => scnt[p] = Iters /\ rcnt[p] = Iters
  /\ wc[p] # <<>> <=> pc[p] \in {"parse", "parse_next"}
  /\ mode[p] \in Stamps => Len(wc[p]) <= 1
  /\ pc[p] \in {"next_poll", "parse_next"} => mode[p] \in Stamps
  /\ pc[p] = "get_event" => mode[p] \in Sleeps

Left(p) == pc[p] \in Ended =>
  /\ sq[p] = "idle" /\ cq[p] = <<>> /\ qp[p] = "none" /\ rq[p] = 0
  /\ rcnt[p] <= got[p] /\ sent[p] <= rcnt[p] + Bit(p = "client")
  /\ pc[p] = "ok" => sent[p] = Iters /\ got[p] = Iters

\* The queues hold what the process waits for.
Queues(p) == Live(p) =>
  /\ Bit(sq[p] # "idle") + Bit(Has(cq[p], "SEND")) + Bit(Has(wc[p], "SEND"))
       = Bit("SEND" \in pending[p])
  /\ got[p] = rcnt[p] + Unseen(p)
  /\ routs[p] = rq[p] + Unseen(p)
  /\ pc[p] # "start" => routs[p] >= 1 /\ qp[p] # "none"

\* The messages of p to its opponent q.
Messages(p, q) ==
  /\ got[q] + Coming(q) <= sent[p]
  /\ sent[p] <= Iters
  /\ sq[p] = "acking" => got[q] > 0 /\ transport = "rc"
  /\ transport = "rc" => net[p] = 0
  /\ qp[p] = "err" => /\ transport = "rc"
                      /\ pc[q] \in Ended \/ got[q] + Coming(q) < sent[p]

AfterConnect(p) == Looping \cup {"create_ah", "serve"}
                     \cup (IF p = "server" THEN {"write_addr", "read_done"} ELSE {})

Role(p) ==
  /\ pc[p] \in AfterConnect(p) => qp[p] \in {"rts", "err"}
  /\ transport = "ud" /\ pc[p] \in AfterConnect(p) \ {"create_ah"} => p \in ah

\* The server can take a message when the client has its address.
ServerReady == pc["server"] \in Looping \cup Ended \cup {"read_done", "serve"}

Addresses ==
  /\ pc["client"] \notin {"listen", "accept", "read_done"}
  /\ pc["server"] \notin {"dial", "write_done"}
  /\ \/ chan["client"] # <<>>
     \/ pc["client"] \in Looping \cup {"write_done", "connect", "create_ah", "serve"}
     \/ sent["client"] > 0
     => ServerReady

\* A process that may sleep will be told of every completion that it will not
\* find before it sleeps.
Awake(p) == mode[p] \in Sleeps /\ Live(p) /\ pc[p] \notin {"start", "req_notify"} =>
  \/ events[p] > 0
  \/ /\ armed[p]
     /\ \/ cq[p] = <<>>
        \/ pc[p] = "poll"
        \/ pc[p] \in {"parse", "next_poll"} /\ mode[p] \in Stamps /\ Len(cq[p]) <= 1

\* What depends on one process alone.
Own(p) == Fresh(p) /\ Busy(p) /\ Left(p) /\ Queues(p) /\ Role(p) /\ Awake(p)
          /\ Single(cq[p]) /\ Single(wc[p])

\* The inductive invariant.
MatchInv == /\ TypeOK
            /\ \A p \in Peers : Own(p) /\ Messages(p, Other(p))
            /\ Addresses

-----------------------------------------------------------------------------
(* Completion queues.                                                      *)

LEMMA BitType == ASSUME NEW b  PROVE Bit(b) \in {0, 1} /\ (b => Bit(b) = 1) /\ (~ b => Bit(b) = 0)
BY DEF Bit

LEMMA EmptyQueue == Single(<<>>) /\ \A op : ~ Has(<<>>, op)
BY DEF Single, Has

LEMMA CqeType == \A op \in {"SEND", "RECV"}, ok \in BOOLEAN :
                    [op |-> op, ok |-> ok] \in CQE /\ [op |-> op, ok |-> ok].op = op
BY DEF CQE

\* With one completion of each kind there are two at most.
LEMMA TwoAtMost == ASSUME NEW s \in Seq(CQE), Single(s)
                   PROVE  /\ Len(s) \in 0..2 /\ Len(s) <= 2 /\ Len(s) \in Nat
                          /\ Len(s) = 0 <=> s = <<>>
<1>1. \A k \in 1..Len(s) : s[k] \in CQE
  OBVIOUS
<1>2. ASSUME Len(s) > 2  PROVE FALSE
  <2>1. 1 \in 1..Len(s) /\ 2 \in 1..Len(s) /\ 3 \in 1..Len(s)
    BY <1>2
  <2>2. s[1].op # s[2].op /\ s[1].op # s[3].op /\ s[2].op # s[3].op
    BY <2>1 DEF Single
  <2>3. \A c \in CQE : c.op = "SEND" \/ c.op = "RECV"
    BY DEF CQE
  <2> QED  BY <1>1, <2>1, <2>2, <2>3
<1>3. Len(s) \in Nat /\ (Len(s) = 0 <=> s = <<>>)
  BY EmptySeq
<1>4. \A n \in Nat : ~ (n > 2) => n \in 0..2 /\ n <= 2
  OBVIOUS
<1> QED  BY <1>2, <1>3, <1>4, Zenon

LEMMA AppendHas ==
  ASSUME NEW s \in Seq(CQE), NEW c \in CQE, Single(s), ~ Has(s, c.op)
  PROVE  /\ Append(s, c) \in Seq(CQE)
         /\ Single(Append(s, c))
         /\ \A op : Has(Append(s, c), op) <=> Has(s, op) \/ op = c.op
<1> DEFINE t == Append(s, c)
<1>1. t \in Seq(CQE) /\ Len(t) = Len(s) + 1 /\ Len(s) \in Nat
  OBVIOUS
<1>2. \A k \in 1..Len(t) : t[k] = IF k <= Len(s) THEN s[k] ELSE c
  BY <1>1
<1> HIDE DEF t
<1>3. Single(t)
  BY <1>1, <1>2 DEF Single, Has
<1>4. \A op : Has(t, op) <=> Has(s, op) \/ op = c.op
  BY <1>1, <1>2 DEF Has
<1> QED  BY <1>1, <1>3, <1>4 DEF t

LEMMA TailHas ==
  ASSUME NEW s \in Seq(CQE), s # <<>>, Single(s)
  PROVE  /\ Tail(s) \in Seq(CQE)
         /\ Len(Tail(s)) = Len(s) - 1 /\ Len(s) \in Nat \ {0}
         /\ Head(s) \in CQE
         /\ Single(Tail(s))
         /\ \A op : Has(Tail(s), op) <=> Has(s, op) /\ op # Head(s).op
         /\ Has(s, Head(s).op)
<1> DEFINE t == Tail(s)
<1>1. t \in Seq(CQE) /\ Len(t) = Len(s) - 1 /\ Len(s) \in Nat \ {0}
  OBVIOUS
<1>2. \A k \in 1..Len(t) : t[k] = s[k + 1]
  OBVIOUS
<1>3. Head(s) = s[1] /\ Head(s) \in CQE
  OBVIOUS
<1> HIDE DEF t
<1>4. Single(t)
  BY <1>1, <1>2 DEF Single
<1>5. ASSUME NEW op, Has(t, op)  PROVE Has(s, op) /\ op # s[1].op
  <2>1. PICK k \in 1..Len(t) : t[k].op = op
    BY <1>5 DEF Has
  <2>2. k + 1 \in 1..Len(s) /\ s[k + 1].op = op /\ k + 1 # 1 /\ 1 \in 1..Len(s)
    BY <2>1, <1>1, <1>2
  <2> QED  BY <2>2 DEF Has, Single
<1>6. ASSUME NEW op, Has(s, op), op # s[1].op  PROVE Has(t, op)
  <2>1. PICK k \in 1..Len(s) : s[k].op = op
    BY <1>6 DEF Has
  <2>2. k # 1
    BY <2>1, <1>6
  <2>3. k - 1 \in 1..Len(t) /\ t[k - 1].op = op
    BY <2>1, <2>2, <1>1, <1>2
  <2> QED  BY <2>3 DEF Has
<1>7. Has(s, s[1].op)
  BY <1>1 DEF Has
<1> QED  BY <1>1, <1>3, <1>4, <1>5, <1>6, <1>7 DEF t

\* ibv_poll_cq moves the first n completions.
LEMMA SplitHas ==
  ASSUME NEW s \in Seq(CQE), Single(s), NEW n \in 0..Len(s)
  PROVE  /\ SubSeq(s, 1, n) \in Seq(CQE) /\ SubSeq(s, n + 1, Len(s)) \in Seq(CQE)
         /\ Len(SubSeq(s, 1, n)) = n /\ Len(SubSeq(s, n + 1, Len(s))) = Len(s) - n
         /\ Single(SubSeq(s, 1, n)) /\ Single(SubSeq(s, n + 1, Len(s)))
         /\ \A op : Bit(Has(SubSeq(s, 1, n), op)) + Bit(Has(SubSeq(s, n + 1, Len(s)), op))
                      = Bit(Has(s, op))
<1> DEFINE a == SubSeq(s, 1, n)
           b == SubSeq(s, n + 1, Len(s))
<1>0. Len(s) \in Nat /\ n \in Nat /\ n <= Len(s)
  OBVIOUS
<1>1. a \in Seq(CQE) /\ Len(a) = n /\ \A k \in 1..n : a[k] = s[k]
  BY <1>0, SubSeqProperties
<1>2. b \in Seq(CQE) /\ Len(b) = Len(s) - n /\ \A k \in 1..(Len(s) - n) : b[k] = s[n + k]
  BY <1>0, SubSeqProperties
<1> HIDE DEF a, b
<1>a. \A j, k \in 1..n : j \in 1..Len(s) /\ k \in 1..Len(s)
  BY <1>0
<1>b. \A k \in 1..(Len(s) - n) : n + k \in 1..Len(s) /\ n + k > n /\ k \in Nat
  BY <1>0
<1>3. Single(a)
  BY <1>1, <1>a DEF Single
<1>c. Single(b)
  <2> SUFFICES ASSUME NEW j \in 1..Len(b), NEW k \in 1..Len(b), b[j].op = b[k].op  PROVE j = k
    BY DEF Single
  <2>1. j \in 1..(Len(s) - n) /\ k \in 1..(Len(s) - n)
    BY <1>2
  <2>2. s[n + j].op = s[n + k].op
    BY <1>2, <2>1
  <2>3. n + j = n + k
    BY <1>b, <2>1, <2>2 DEF Single
  <2> QED  BY <1>0, <1>b, <2>1, <2>3
<1>4. ASSUME NEW op  PROVE Bit(Has(a, op)) + Bit(Has(b, op)) = Bit(Has(s, op))
  <2>1. ASSUME Has(a, op), Has(b, op)  PROVE FALSE
    <3>1. PICK j \in 1..n : a[j].op = op
      BY <1>1, <2>1 DEF Has
    <3>2. PICK k \in 1..(Len(s) - n) : b[k].op = op
      BY <1>2, <2>1 DEF Has
    <3>3. j \in 1..Len(s) /\ n + k \in 1..Len(s) /\ s[j].op = s[n + k].op /\ j <= n /\ n + k > n
      BY <1>0, <1>1, <1>2, <1>a, <1>b, <3>1, <3>2
    <3> QED  BY <1>0, <3>3 DEF Single
  <2>2. Has(a, op) => Has(s, op)
    BY <1>1, <1>a DEF Has
  <2>4. Has(b, op) => Has(s, op)
    BY <1>2, <1>b DEF Has
  <2>3. ASSUME Has(s, op)  PROVE Has(a, op) \/ Has(b, op)
    <3>1. PICK k \in 1..Len(s) : s[k].op = op
      BY <2>3 DEF Has
    <3>2. CASE k <= n
      BY <1>0, <1>1, <3>1, <3>2 DEF Has
    <3>3. CASE k > n
      <4>1. k - n \in 1..(Len(s) - n) /\ b[k - n].op = op
        BY <1>0, <1>2, <3>1, <3>3
      <4> QED  BY <1>2, <4>1 DEF Has
    <3> QED  BY <1>0, <3>1, <3>2, <3>3
  <2> QED  BY <2>1, <2>2, <2>3, <2>4 DEF Bit
<1> QED  BY <1>1, <1>2, <1>3, <1>c, <1>4 DEF a, b

-----------------------------------------------------------------------------
(* The steps, whatever the program.                                        *)

ServerDial(p) == p = "server" /\ ServerExchange(p)
ClientDial(p) == p = "client" /\ ClientExchange(p)

Connecting(p) == IF transport = "ud" THEN Connect(p, "create_ah")
                 ELSE Connect(p, Connected(p))

GoodParse(p) == /\ pc[p] \in {"parse", "parse_next"}
                /\ Head(wc[p]).ok /\ Parsed(p, Head(wc[p]).op)

\* The steps of a process that goes on, ...
Going(p) ==
  \/ Prepare(p) \/ ServerDial(p) \/ ClientDial(p) \/ Connecting(p) \/ Serve(p)
  \/ GetCqEvent(p) \/ ReqNotify(p) \/ PollCq(p) \/ GoodParse(p)
  \/ Rc!StartPoll(p) /\ cq[p] # <<>>
  \/ Rc!NextPoll(p)

\* ... that ends, with or without an error, ...
Quit(p) == /\ \/ Live(p) /\ Exit(p, "failed")
              \/ pc[p] = "finish" /\ Exit(p, "ok")
           /\ ah \ {p} \subseteq ah'

\* ... and of an adapter.
Moving(p) ==
  \/ transport # "rc" /\ (Transmit(p) \/ Arrive(p) \/ Lose(p))
  \/ transport = "rc" /\ (Rc!Deliver(p) \/ Rc!Acknowledge(p) \/ Rc!RetryExceeded(p))

Move(p) == \/ Going(p) /\ UNCHANGED ah
           \/ transport = "ud" /\ Ud!CreateAh(p)
           \/ Quit(p)
           \/ Moving(p) /\ UNCHANGED ah

LEMMA SameInRc ==
  ASSUME NEW p
  PROVE  /\ Rc!Prepare(p) <=> Prepare(p)
         /\ Rc!ServerExchange(p) <=> ServerExchange(p)
         /\ Rc!ClientExchange(p) <=> ClientExchange(p)
         /\ Rc!Connected(p) = Connected(p)
         /\ \A to : Rc!Connect(p, to) <=> Connect(p, to)
         /\ Rc!Serve(p) <=> Serve(p)
         /\ Rc!GetCqEvent(p) <=> GetCqEvent(p)
         /\ Rc!ReqNotify(p) <=> ReqNotify(p)
         /\ Rc!PollCq(p) <=> PollCq(p)
         /\ Rc!ParseSingleWc(p) <=> ParseSingleWc(p)
         /\ Rc!Finish(p) <=> Finish(p)
         /\ Rc!CallFails(p) <=> CallFails(p)
         /\ Rc!TcpFails(p) <=> TcpFails(p)
<1>1. Rc!Prepare(p) <=> Prepare(p)
  BY DEF Rc!FirstNotify, FirstNotify, Rc!IbvCreate, IbvCreate, Rc!Prepare, Prepare, Rc!Step, Step,
         Rc!Other, Other, Rc!options, options, Rc!proc, proc, Rc!tcp, tcp, Rc!nic, nic, Rc!wire,
         wire, Rc!Sleeps, Sleeps, Rc!Stamps, Stamps
<1>2. Rc!ServerExchange(p) <=> ServerExchange(p)
  BY DEF Rc!Exchanging, Exchanging, Rc!ServerExchange, ServerExchange, Rc!TcpListen, TcpListen,
         Rc!TcpRead, TcpRead, Rc!TcpReadAndClose, TcpReadAndClose, Rc!TcpWrite, TcpWrite, Rc!Step,
         Step, Rc!Other, Other, Rc!options, options, Rc!proc, proc, Rc!tcp, tcp, Rc!nic, nic,
         Rc!wire, wire, Rc!Sleeps, Sleeps, Rc!Stamps, Stamps
<1>3. Rc!ClientExchange(p) <=> ClientExchange(p)
  BY DEF Rc!ClientExchange, ClientExchange, Rc!Exchanging, Exchanging, Rc!Peers, Peers,
         Rc!TcpConnect, TcpConnect, Rc!TcpRead, TcpRead, Rc!TcpWrite, TcpWrite, Rc!TcpWriteAndClose,
         TcpWriteAndClose, Rc!Step, Step, Rc!Other, Other, Rc!options, options, Rc!proc, proc,
         Rc!tcp, tcp, Rc!nic, nic, Rc!wire, wire, Rc!Sleeps, Sleeps, Rc!Stamps, Stamps
<1>4. Rc!Connected(p) = Connected(p)
  BY DEF Rc!Connected, Connected, Rc!Step, Step, Rc!Other, Other, Rc!options, options, Rc!proc,
         proc, Rc!tcp, tcp, Rc!nic, nic, Rc!wire, wire, Rc!Sleeps, Sleeps, Rc!Stamps, Stamps
<1>5. \A to : Rc!Connect(p, to) <=> Connect(p, to)
  BY DEF Rc!Connect, Connect, Rc!IbvModifyRts, IbvModifyRts, Rc!Step, Step, Rc!Other, Other,
         Rc!options, options, Rc!proc, proc, Rc!tcp, tcp, Rc!nic, nic, Rc!wire, wire, Rc!Sleeps,
         Sleeps, Rc!Stamps, Stamps
<1>6. Rc!Serve(p) <=> Serve(p)
  BY DEF Rc!Both, Both, Rc!IbvPost, IbvPost, Rc!LoopHead, LoopHead, Rc!Serve, Serve, Rc!Step, Step,
         Rc!Other, Other, Rc!options, options, Rc!proc, proc, Rc!tcp, tcp, Rc!nic, nic, Rc!wire,
         wire, Rc!Sleeps, Sleeps, Rc!Stamps, Stamps
<1>7. Rc!GetCqEvent(p) <=> GetCqEvent(p)
  BY DEF Rc!GetCqEvent, GetCqEvent, Rc!IbvGetCqEvent, IbvGetCqEvent, Rc!Step, Step, Rc!Other, Other,
         Rc!options, options, Rc!proc, proc, Rc!tcp, tcp, Rc!nic, nic, Rc!wire, wire, Rc!Sleeps,
         Sleeps, Rc!Stamps, Stamps
<1>8. Rc!ReqNotify(p) <=> ReqNotify(p)
  BY DEF Rc!IbvReqNotifyCq, IbvReqNotifyCq, Rc!ReqNotify, ReqNotify, Rc!Step, Step, Rc!Other, Other,
         Rc!options, options, Rc!proc, proc, Rc!tcp, tcp, Rc!nic, nic, Rc!wire, wire, Rc!Sleeps,
         Sleeps, Rc!Stamps, Stamps
<1>9. Rc!PollCq(p) <=> PollCq(p)
  BY DEF Rc!IbvPollCq, IbvPollCq, Rc!LoopHead, LoopHead, Rc!PollCq, PollCq, Rc!Step, Step, Rc!Other,
         Other, Rc!options, options, Rc!proc, proc, Rc!tcp, tcp, Rc!nic, nic, Rc!wire, wire,
         Rc!Sleeps, Sleeps, Rc!Stamps, Stamps
<1>10. Rc!ParseSingleWc(p) <=> ParseSingleWc(p)
  BY DEF Rc!AfterParse, AfterParse, Rc!Answers, Answers, Rc!Both, Both, Rc!Exit, Exit, Rc!IbvPost,
         IbvPost, Rc!LoopHead, LoopHead, Rc!ParseSingleWc, ParseSingleWc, Rc!Parsed, Parsed,
         Rc!Refill, Refill, Rc!SlotFree, SlotFree, Rc!Step, Step, Rc!Other, Other, Rc!options,
         options, Rc!proc, proc, Rc!tcp, tcp, Rc!nic, nic, Rc!wire, wire, Rc!Sleeps, Sleeps,
         Rc!Stamps, Stamps
<1>11. Rc!Finish(p) <=> Finish(p)
  BY DEF Rc!Exit, Exit, Rc!Finish, Finish, Rc!Step, Step, Rc!Other, Other, Rc!options, options,
         Rc!proc, proc, Rc!tcp, tcp, Rc!nic, nic, Rc!wire, wire, Rc!Sleeps, Sleeps, Rc!Stamps,
         Stamps
<1>12. Rc!CallFails(p) <=> CallFails(p)
  BY DEF Rc!CallFails, CallFails, Rc!Exchange, Exchange, Rc!Exit, Exit, Rc!Labels, Labels,
         Rc!Working, Working, Rc!Step, Step, Rc!Other, Other, Rc!options, options, Rc!proc, proc,
         Rc!tcp, tcp, Rc!nic, nic, Rc!wire, wire, Rc!Sleeps, Sleeps, Rc!Stamps, Stamps
<1>13. Rc!TcpFails(p) <=> TcpFails(p)
  BY DEF Rc!Exchange, Exchange, Rc!Exit, Exit, Rc!TcpBroken, TcpBroken, Rc!TcpFails, TcpFails,
         Rc!Step, Step, Rc!Other, Other, Rc!options, options, Rc!proc, proc, Rc!tcp, tcp, Rc!nic,
         nic, Rc!wire, wire, Rc!Sleeps, Sleeps, Rc!Stamps, Stamps
<1> QED  BY <1>1, <1>2, <1>3, <1>4, <1>5, <1>6, <1>7, <1>8, <1>9, <1>10, <1>11, <1>12, <1>13

LEMMA SameInUc ==
  ASSUME NEW p
  PROVE  /\ Uc!Uc!Prepare(p) <=> Prepare(p)
         /\ Uc!Uc!ServerExchange(p) <=> ServerExchange(p)
         /\ Uc!Uc!ClientExchange(p) <=> ClientExchange(p)
         /\ Uc!Uc!Connected(p) = Connected(p)
         /\ \A to : Uc!Uc!Connect(p, to) <=> Connect(p, to)
         /\ Uc!Uc!Serve(p) <=> Serve(p)
         /\ Uc!Uc!GetCqEvent(p) <=> GetCqEvent(p)
         /\ Uc!Uc!ReqNotify(p) <=> ReqNotify(p)
         /\ Uc!Uc!PollCq(p) <=> PollCq(p)
         /\ Uc!Uc!ParseSingleWc(p) <=> ParseSingleWc(p)
         /\ Uc!Uc!Finish(p) <=> Finish(p)
         /\ Uc!Uc!CallFails(p) <=> CallFails(p)
         /\ Uc!Uc!TcpFails(p) <=> TcpFails(p)
<1>1. Uc!Uc!Prepare(p) <=> Prepare(p)
  BY DEF Uc!Uc!FirstNotify, FirstNotify, Uc!Uc!IbvCreate, IbvCreate, Uc!Uc!Prepare, Prepare,
         Uc!Uc!Step, Step, Uc!Uc!Other, Other, Uc!Uc!options, options, Uc!Uc!proc, proc, Uc!Uc!tcp,
         tcp, Uc!Uc!nic, nic, Uc!Uc!wire, wire, Uc!Uc!Sleeps, Sleeps, Uc!Uc!Stamps, Stamps
<1>2. Uc!Uc!ServerExchange(p) <=> ServerExchange(p)
  BY DEF Uc!Uc!Exchanging, Exchanging, Uc!Uc!ServerExchange, ServerExchange, Uc!Uc!TcpListen,
         TcpListen, Uc!Uc!TcpRead, TcpRead, Uc!Uc!TcpReadAndClose, TcpReadAndClose, Uc!Uc!TcpWrite,
         TcpWrite, Uc!Uc!Step, Step, Uc!Uc!Other, Other, Uc!Uc!options, options, Uc!Uc!proc, proc,
         Uc!Uc!tcp, tcp, Uc!Uc!nic, nic, Uc!Uc!wire, wire, Uc!Uc!Sleeps, Sleeps, Uc!Uc!Stamps,
         Stamps
<1>3. Uc!Uc!ClientExchange(p) <=> ClientExchange(p)
  BY DEF Uc!Uc!ClientExchange, ClientExchange, Uc!Uc!Exchanging, Exchanging, Uc!Uc!Peers, Peers,
         Uc!Uc!TcpConnect, TcpConnect, Uc!Uc!TcpRead, TcpRead, Uc!Uc!TcpWrite, TcpWrite,
         Uc!Uc!TcpWriteAndClose, TcpWriteAndClose, Uc!Uc!Step, Step, Uc!Uc!Other, Other,
         Uc!Uc!options, options, Uc!Uc!proc, proc, Uc!Uc!tcp, tcp, Uc!Uc!nic, nic, Uc!Uc!wire, wire,
         Uc!Uc!Sleeps, Sleeps, Uc!Uc!Stamps, Stamps
<1>4. Uc!Uc!Connected(p) = Connected(p)
  BY DEF Uc!Uc!Connected, Connected, Uc!Uc!Step, Step, Uc!Uc!Other, Other, Uc!Uc!options, options,
         Uc!Uc!proc, proc, Uc!Uc!tcp, tcp, Uc!Uc!nic, nic, Uc!Uc!wire, wire, Uc!Uc!Sleeps, Sleeps,
         Uc!Uc!Stamps, Stamps
<1>5. \A to : Uc!Uc!Connect(p, to) <=> Connect(p, to)
  BY DEF Uc!Uc!Connect, Connect, Uc!Uc!IbvModifyRts, IbvModifyRts, Uc!Uc!Step, Step, Uc!Uc!Other,
         Other, Uc!Uc!options, options, Uc!Uc!proc, proc, Uc!Uc!tcp, tcp, Uc!Uc!nic, nic,
         Uc!Uc!wire, wire, Uc!Uc!Sleeps, Sleeps, Uc!Uc!Stamps, Stamps
<1>6. Uc!Uc!Serve(p) <=> Serve(p)
  BY DEF Uc!Uc!Both, Both, Uc!Uc!IbvPost, IbvPost, Uc!Uc!LoopHead, LoopHead, Uc!Uc!Serve, Serve,
         Uc!Uc!Step, Step, Uc!Uc!Other, Other, Uc!Uc!options, options, Uc!Uc!proc, proc, Uc!Uc!tcp,
         tcp, Uc!Uc!nic, nic, Uc!Uc!wire, wire, Uc!Uc!Sleeps, Sleeps, Uc!Uc!Stamps, Stamps
<1>7. Uc!Uc!GetCqEvent(p) <=> GetCqEvent(p)
  BY DEF Uc!Uc!GetCqEvent, GetCqEvent, Uc!Uc!IbvGetCqEvent, IbvGetCqEvent, Uc!Uc!Step, Step,
         Uc!Uc!Other, Other, Uc!Uc!options, options, Uc!Uc!proc, proc, Uc!Uc!tcp, tcp, Uc!Uc!nic,
         nic, Uc!Uc!wire, wire, Uc!Uc!Sleeps, Sleeps, Uc!Uc!Stamps, Stamps
<1>8. Uc!Uc!ReqNotify(p) <=> ReqNotify(p)
  BY DEF Uc!Uc!IbvReqNotifyCq, IbvReqNotifyCq, Uc!Uc!ReqNotify, ReqNotify, Uc!Uc!Step, Step,
         Uc!Uc!Other, Other, Uc!Uc!options, options, Uc!Uc!proc, proc, Uc!Uc!tcp, tcp, Uc!Uc!nic,
         nic, Uc!Uc!wire, wire, Uc!Uc!Sleeps, Sleeps, Uc!Uc!Stamps, Stamps
<1>9. Uc!Uc!PollCq(p) <=> PollCq(p)
  BY DEF Uc!Uc!IbvPollCq, IbvPollCq, Uc!Uc!LoopHead, LoopHead, Uc!Uc!PollCq, PollCq, Uc!Uc!Step,
         Step, Uc!Uc!Other, Other, Uc!Uc!options, options, Uc!Uc!proc, proc, Uc!Uc!tcp, tcp,
         Uc!Uc!nic, nic, Uc!Uc!wire, wire, Uc!Uc!Sleeps, Sleeps, Uc!Uc!Stamps, Stamps
<1>10. Uc!Uc!ParseSingleWc(p) <=> ParseSingleWc(p)
  BY DEF Uc!Uc!AfterParse, AfterParse, Uc!Uc!Answers, Answers, Uc!Uc!Both, Both, Uc!Uc!Exit, Exit,
         Uc!Uc!IbvPost, IbvPost, Uc!Uc!LoopHead, LoopHead, Uc!Uc!ParseSingleWc, ParseSingleWc,
         Uc!Uc!Parsed, Parsed, Uc!Uc!Refill, Refill, Uc!Uc!SlotFree, SlotFree, Uc!Uc!Step, Step,
         Uc!Uc!Other, Other, Uc!Uc!options, options, Uc!Uc!proc, proc, Uc!Uc!tcp, tcp, Uc!Uc!nic,
         nic, Uc!Uc!wire, wire, Uc!Uc!Sleeps, Sleeps, Uc!Uc!Stamps, Stamps
<1>11. Uc!Uc!Finish(p) <=> Finish(p)
  BY DEF Uc!Uc!Exit, Exit, Uc!Uc!Finish, Finish, Uc!Uc!Step, Step, Uc!Uc!Other, Other,
         Uc!Uc!options, options, Uc!Uc!proc, proc, Uc!Uc!tcp, tcp, Uc!Uc!nic, nic, Uc!Uc!wire, wire,
         Uc!Uc!Sleeps, Sleeps, Uc!Uc!Stamps, Stamps
<1>12. Uc!Uc!CallFails(p) <=> CallFails(p)
  BY DEF Uc!Uc!CallFails, CallFails, Uc!Uc!Exchange, Exchange, Uc!Uc!Exit, Exit, Uc!Uc!Labels,
         Labels, Uc!Uc!Working, Working, Uc!Uc!Step, Step, Uc!Uc!Other, Other, Uc!Uc!options,
         options, Uc!Uc!proc, proc, Uc!Uc!tcp, tcp, Uc!Uc!nic, nic, Uc!Uc!wire, wire, Uc!Uc!Sleeps,
         Sleeps, Uc!Uc!Stamps, Stamps
<1>13. Uc!Uc!TcpFails(p) <=> TcpFails(p)
  BY DEF Uc!Uc!Exchange, Exchange, Uc!Uc!Exit, Exit, Uc!Uc!TcpBroken, TcpBroken, Uc!Uc!TcpFails,
         TcpFails, Uc!Uc!Step, Step, Uc!Uc!Other, Other, Uc!Uc!options, options, Uc!Uc!proc, proc,
         Uc!Uc!tcp, tcp, Uc!Uc!nic, nic, Uc!Uc!wire, wire, Uc!Uc!Sleeps, Sleeps, Uc!Uc!Stamps,
         Stamps
<1> QED  BY <1>1, <1>2, <1>3, <1>4, <1>5, <1>6, <1>7, <1>8, <1>9, <1>10, <1>11, <1>12, <1>13

LEMMA SameInUd ==
  ASSUME NEW p
  PROVE  /\ Ud!Ud!Prepare(p) <=> Prepare(p)
         /\ Ud!Ud!ServerExchange(p) <=> ServerExchange(p)
         /\ Ud!Ud!ClientExchange(p) <=> ClientExchange(p)
         /\ Ud!Ud!Connected(p) = Connected(p)
         /\ \A to : Ud!Ud!Connect(p, to) <=> Connect(p, to)
         /\ Ud!Ud!Serve(p) <=> Serve(p)
         /\ Ud!Ud!GetCqEvent(p) <=> GetCqEvent(p)
         /\ Ud!Ud!ReqNotify(p) <=> ReqNotify(p)
         /\ Ud!Ud!PollCq(p) <=> PollCq(p)
         /\ Ud!Ud!ParseSingleWc(p) <=> ParseSingleWc(p)
         /\ Ud!Ud!Finish(p) <=> Finish(p)
         /\ Ud!Ud!CallFails(p) <=> CallFails(p)
         /\ Ud!Ud!TcpFails(p) <=> TcpFails(p)
<1>1. Ud!Ud!Prepare(p) <=> Prepare(p)
  BY DEF Ud!Ud!FirstNotify, FirstNotify, Ud!Ud!IbvCreate, IbvCreate, Ud!Ud!Prepare, Prepare,
         Ud!Ud!Step, Step, Ud!Ud!Other, Other, Ud!Ud!options, options, Ud!Ud!proc, proc, Ud!Ud!tcp,
         tcp, Ud!Ud!nic, nic, Ud!Ud!wire, wire, Ud!Ud!Sleeps, Sleeps, Ud!Ud!Stamps, Stamps
<1>2. Ud!Ud!ServerExchange(p) <=> ServerExchange(p)
  BY DEF Ud!Ud!Exchanging, Exchanging, Ud!Ud!ServerExchange, ServerExchange, Ud!Ud!TcpListen,
         TcpListen, Ud!Ud!TcpRead, TcpRead, Ud!Ud!TcpReadAndClose, TcpReadAndClose, Ud!Ud!TcpWrite,
         TcpWrite, Ud!Ud!Step, Step, Ud!Ud!Other, Other, Ud!Ud!options, options, Ud!Ud!proc, proc,
         Ud!Ud!tcp, tcp, Ud!Ud!nic, nic, Ud!Ud!wire, wire, Ud!Ud!Sleeps, Sleeps, Ud!Ud!Stamps,
         Stamps
<1>3. Ud!Ud!ClientExchange(p) <=> ClientExchange(p)
  BY DEF Ud!Ud!ClientExchange, ClientExchange, Ud!Ud!Exchanging, Exchanging, Ud!Ud!Peers, Peers,
         Ud!Ud!TcpConnect, TcpConnect, Ud!Ud!TcpRead, TcpRead, Ud!Ud!TcpWrite, TcpWrite,
         Ud!Ud!TcpWriteAndClose, TcpWriteAndClose, Ud!Ud!Step, Step, Ud!Ud!Other, Other,
         Ud!Ud!options, options, Ud!Ud!proc, proc, Ud!Ud!tcp, tcp, Ud!Ud!nic, nic, Ud!Ud!wire, wire,
         Ud!Ud!Sleeps, Sleeps, Ud!Ud!Stamps, Stamps
<1>4. Ud!Ud!Connected(p) = Connected(p)
  BY DEF Ud!Ud!Connected, Connected, Ud!Ud!Step, Step, Ud!Ud!Other, Other, Ud!Ud!options, options,
         Ud!Ud!proc, proc, Ud!Ud!tcp, tcp, Ud!Ud!nic, nic, Ud!Ud!wire, wire, Ud!Ud!Sleeps, Sleeps,
         Ud!Ud!Stamps, Stamps
<1>5. \A to : Ud!Ud!Connect(p, to) <=> Connect(p, to)
  BY DEF Ud!Ud!Connect, Connect, Ud!Ud!IbvModifyRts, IbvModifyRts, Ud!Ud!Step, Step, Ud!Ud!Other,
         Other, Ud!Ud!options, options, Ud!Ud!proc, proc, Ud!Ud!tcp, tcp, Ud!Ud!nic, nic,
         Ud!Ud!wire, wire, Ud!Ud!Sleeps, Sleeps, Ud!Ud!Stamps, Stamps
<1>6. Ud!Ud!Serve(p) <=> Serve(p)
  BY DEF Ud!Ud!Both, Both, Ud!Ud!IbvPost, IbvPost, Ud!Ud!LoopHead, LoopHead, Ud!Ud!Serve, Serve,
         Ud!Ud!Step, Step, Ud!Ud!Other, Other, Ud!Ud!options, options, Ud!Ud!proc, proc, Ud!Ud!tcp,
         tcp, Ud!Ud!nic, nic, Ud!Ud!wire, wire, Ud!Ud!Sleeps, Sleeps, Ud!Ud!Stamps, Stamps
<1>7. Ud!Ud!GetCqEvent(p) <=> GetCqEvent(p)
  BY DEF Ud!Ud!GetCqEvent, GetCqEvent, Ud!Ud!IbvGetCqEvent, IbvGetCqEvent, Ud!Ud!Step, Step,
         Ud!Ud!Other, Other, Ud!Ud!options, options, Ud!Ud!proc, proc, Ud!Ud!tcp, tcp, Ud!Ud!nic,
         nic, Ud!Ud!wire, wire, Ud!Ud!Sleeps, Sleeps, Ud!Ud!Stamps, Stamps
<1>8. Ud!Ud!ReqNotify(p) <=> ReqNotify(p)
  BY DEF Ud!Ud!IbvReqNotifyCq, IbvReqNotifyCq, Ud!Ud!ReqNotify, ReqNotify, Ud!Ud!Step, Step,
         Ud!Ud!Other, Other, Ud!Ud!options, options, Ud!Ud!proc, proc, Ud!Ud!tcp, tcp, Ud!Ud!nic,
         nic, Ud!Ud!wire, wire, Ud!Ud!Sleeps, Sleeps, Ud!Ud!Stamps, Stamps
<1>9. Ud!Ud!PollCq(p) <=> PollCq(p)
  BY DEF Ud!Ud!IbvPollCq, IbvPollCq, Ud!Ud!LoopHead, LoopHead, Ud!Ud!PollCq, PollCq, Ud!Ud!Step,
         Step, Ud!Ud!Other, Other, Ud!Ud!options, options, Ud!Ud!proc, proc, Ud!Ud!tcp, tcp,
         Ud!Ud!nic, nic, Ud!Ud!wire, wire, Ud!Ud!Sleeps, Sleeps, Ud!Ud!Stamps, Stamps
<1>10. Ud!Ud!ParseSingleWc(p) <=> ParseSingleWc(p)
  BY DEF Ud!Ud!AfterParse, AfterParse, Ud!Ud!Answers, Answers, Ud!Ud!Both, Both, Ud!Ud!Exit, Exit,
         Ud!Ud!IbvPost, IbvPost, Ud!Ud!LoopHead, LoopHead, Ud!Ud!ParseSingleWc, ParseSingleWc,
         Ud!Ud!Parsed, Parsed, Ud!Ud!Refill, Refill, Ud!Ud!SlotFree, SlotFree, Ud!Ud!Step, Step,
         Ud!Ud!Other, Other, Ud!Ud!options, options, Ud!Ud!proc, proc, Ud!Ud!tcp, tcp, Ud!Ud!nic,
         nic, Ud!Ud!wire, wire, Ud!Ud!Sleeps, Sleeps, Ud!Ud!Stamps, Stamps
<1>11. Ud!Ud!Finish(p) <=> Finish(p)
  BY DEF Ud!Ud!Exit, Exit, Ud!Ud!Finish, Finish, Ud!Ud!Step, Step, Ud!Ud!Other, Other,
         Ud!Ud!options, options, Ud!Ud!proc, proc, Ud!Ud!tcp, tcp, Ud!Ud!nic, nic, Ud!Ud!wire, wire,
         Ud!Ud!Sleeps, Sleeps, Ud!Ud!Stamps, Stamps
<1>12. Ud!Ud!CallFails(p) <=> CallFails(p)
  BY DEF Ud!Ud!CallFails, CallFails, Ud!Ud!Exchange, Exchange, Ud!Ud!Exit, Exit, Ud!Ud!Labels,
         Labels, Ud!Ud!Working, Working, Ud!Ud!Step, Step, Ud!Ud!Other, Other, Ud!Ud!options,
         options, Ud!Ud!proc, proc, Ud!Ud!tcp, tcp, Ud!Ud!nic, nic, Ud!Ud!wire, wire, Ud!Ud!Sleeps,
         Sleeps, Ud!Ud!Stamps, Stamps
<1>13. Ud!Ud!TcpFails(p) <=> TcpFails(p)
  BY DEF Ud!Ud!Exchange, Exchange, Ud!Ud!Exit, Exit, Ud!Ud!TcpBroken, TcpBroken, Ud!Ud!TcpFails,
         TcpFails, Ud!Ud!Step, Step, Ud!Ud!Other, Other, Ud!Ud!options, options, Ud!Ud!proc, proc,
         Ud!Ud!tcp, tcp, Ud!Ud!nic, nic, Ud!Ud!wire, wire, Ud!Ud!Sleeps, Sleeps, Ud!Ud!Stamps,
         Stamps
<1> QED  BY <1>1, <1>2, <1>3, <1>4, <1>5, <1>6, <1>7, <1>8, <1>9, <1>10, <1>11, <1>12, <1>13

\* What is called before a completion is parsed and after it.
LEMMA Parsing ==
  ASSUME NEW p \in Peers, ParseSingleWc(p), UNCHANGED ah
  PROVE  Move(p)
<1>1. CASE Head(wc[p]).ok
  BY <1>1 DEF ParseSingleWc, GoodParse, Move, Going
<1>2. CASE ~ Head(wc[p]).ok
  BY <1>2 DEF ParseSingleWc, Move, Quit, Live
<1> QED  BY <1>1, <1>2

LEMMA Failing ==
  ASSUME NEW p \in Peers, CallFails(p) \/ TcpFails(p), ah \ {p} \subseteq ah'
  PROVE  Move(p)
<1>1. Live(p) /\ Exit(p, "failed")
  BY DEF CallFails, TcpFails, TcpBroken, Live, Working, Exchange
<1> QED  BY <1>1 DEF Move, Quit

LEMMA RcMoves ==
  ASSUME NEW p \in Peers, transport = "rc", UNCHANGED ah, Rc!Program(p) \/ Rc!Failure(p)
  PROVE  Move(p)
<1> USE SameInRc
<1>1. CASE Rc!Prepare(p)
  BY <1>1 DEF Move, Going
<1>2. CASE (p = "server" /\ Rc!ServerExchange(p)) \/ (p = "client" /\ Rc!ClientExchange(p))
  BY <1>2 DEF Move, Going, ServerDial, ClientDial
<1>3. CASE Rc!ConnectCtx(p)
  <2>1. Connecting(p)
    BY <1>3 DEF Rc!ConnectCtx, Connecting
  <2> QED  BY <2>1 DEF Move, Going
<1>4. CASE Rc!Serve(p) \/ Rc!GetCqEvent(p) \/ Rc!ReqNotify(p) \/ Rc!PollCq(p)
  BY <1>4 DEF Move, Going
<1>5. CASE Rc!StartPoll(p)
  <2>1. CASE cq[p] # <<>>
    BY <1>5, <2>1 DEF Move, Going
  <2>2. CASE cq[p] = <<>>
    <3>1. pc[p] = "poll" /\ Rc!Exit(p, "failed")
      BY <1>5, <2>2 DEF Rc!StartPoll
    <3>2. Exit(p, "failed")
      BY <3>1 DEF Rc!Exit, Exit, Rc!options, options, Rc!proc, proc, Rc!wire, wire
    <3> QED  BY <3>1, <3>2 DEF Move, Quit, Live
  <2> QED  BY <2>1, <2>2
<1>6. CASE Rc!NextPoll(p)
  BY <1>6 DEF Move, Going
<1>7. CASE Rc!ParseSingleWc(p)
  BY <1>7, Parsing
<1>8. CASE Rc!Finish(p)
  BY <1>8 DEF Move, Quit, Finish
<1>9. CASE Rc!Failure(p)
  BY <1>9, Failing DEF Rc!Failure
<1> QED  BY <1>1, <1>2, <1>3, <1>4, <1>5, <1>6, <1>7, <1>8, <1>9 DEF Rc!Program

LEMMA UcMoves ==
  ASSUME NEW p \in Peers, transport = "uc", UNCHANGED ah, Uc!Program(p) \/ Uc!Failure(p)
  PROVE  Move(p)
<1> USE SameInUc
<1>1. CASE Uc!Prepare(p)
  BY <1>1 DEF Move, Going, Uc!Prepare
<1>2. CASE (p = "server" /\ Uc!ServerExchDest) \/ (p = "client" /\ Uc!ClientExchDest)
  BY <1>2, SameInUc DEF Move, Going, ServerDial, ClientDial, Uc!ServerExchDest, Uc!ClientExchDest
<1>3. CASE Uc!ConnectCtx(p)
  <2>1. Connecting(p)
    BY <1>3 DEF Uc!ConnectCtx, Connecting
  <2> QED  BY <2>1 DEF Move, Going
<1>4. CASE Uc!Serve(p) \/ Uc!GetCqEvent(p) \/ Uc!ReqNotify(p) \/ Uc!PollCq(p)
  BY <1>4 DEF Move, Going, Uc!Serve, Uc!GetCqEvent, Uc!ReqNotify, Uc!PollCq
<1>5. CASE Uc!ParseWc(p)
  BY <1>5, Parsing DEF Uc!ParseWc
<1>6. CASE Uc!Finish(p)
  BY <1>6 DEF Move, Quit, Finish, Uc!Finish
<1>7. CASE Uc!Failure(p)
  BY <1>7, Failing DEF Uc!Failure
<1> QED  BY <1>1, <1>2, <1>3, <1>4, <1>5, <1>6, <1>7 DEF Uc!Program

LEMMA UdMoves ==
  ASSUME NEW p \in Peers, transport = "ud", Ud!Program(p) \/ Ud!Failure(p)
  PROVE  Move(p)
<1> USE SameInUd
<1>1. CASE Ud!Prepare(p)
  BY <1>1 DEF Move, Going, Ud!Prepare
<1>2. CASE (p = "server" /\ Ud!ServerExchDest) \/ (p = "client" /\ Ud!ClientExchDest)
  BY <1>2, SameInUd DEF Move, Going, ServerDial, ClientDial, Ud!ServerExchDest, Ud!ClientExchDest
<1>3. CASE Ud!ConnectCtx(p)
  <2>1. Connecting(p) /\ UNCHANGED ah
    BY <1>3 DEF Ud!ConnectCtx, Connecting
  <2> QED  BY <2>1 DEF Move, Going
<1>4. CASE Ud!Serve(p) \/ Ud!GetCqEvent(p) \/ Ud!ReqNotify(p) \/ Ud!PollCq(p)
  BY <1>4 DEF Move, Going, Ud!Serve, Ud!GetCqEvent, Ud!ReqNotify, Ud!PollCq
<1>5. CASE Ud!ParseWc(p)
  BY <1>5, Parsing DEF Ud!ParseWc
<1>6. CASE Ud!Finish(p)
  BY <1>6 DEF Move, Quit, Finish, Ud!Finish
<1>7. CASE Ud!Failure(p)
  BY <1>7, Failing DEF Ud!Failure
<1>8. CASE Ud!CreateAh(p)
  BY <1>8 DEF Move
<1> QED  BY <1>1, <1>2, <1>3, <1>4, <1>5, <1>6, <1>7, <1>8 DEF Ud!Program

\* Every step is one of these.
LEMMA NextMoves ==
  ASSUME [Next]_ppVars
  PROVE  UNCHANGED ppVars \/ \E p \in Peers : Move(p)
<1>1. ASSUME NEW p \in Peers, Program(p) \/ Failure(p)  PROVE Move(p)
  BY <1>1, RcMoves, UcMoves, UdMoves DEF Program, Failure
<1>2. ASSUME NEW p \in Peers, Adapter(p) \/ Loss(p)  PROVE Move(p)
  <2>1. Moving(p) /\ UNCHANGED ah
    BY <1>2 DEF Adapter, Loss, Moving, Rc!Adapter
  <2> QED  BY <2>1 DEF Move
<1> QED  BY <1>1, <1>2 DEF Next, Done

-----------------------------------------------------------------------------
(* One ball.                                                               *)

\* Messages that p has got and still has to answer.
Held(p) == IF Live(p) THEN Unseen(p) + Bit(pc[p] \in Looping /\ "RECV" \notin pending[p]) ELSE 0

LEMMA PeersType ==
  /\ "client" \in Peers /\ "server" \in Peers
  /\ \A p \in Peers : /\ Other(p) \in Peers /\ Other(p) # p /\ Other(Other(p)) = p
                      /\ \A q \in Peers : q = p \/ q = Other(p)
                      /\ p = "client" <=> Other(p) # "client"
BY DEF Peers, Other

LEMMA LabelsType ==
  /\ Labels = Before \cup Looping \cup Ended
  /\ \A l \in Before : l \notin Looping /\ l \notin Ended
  /\ \A l \in Looping : l \notin Ended
  /\ \A p : Live(p) <=> pc[p] \notin Ended
<1>1. Labels = Before \cup Looping \cup Ended
  BY DEF Labels, Before, Looping, Ended
<1>2. /\ \A l \in Before : l \notin Looping /\ l \notin Ended
      /\ \A l \in Looping : l \notin Ended
  BY DEF Before, Looping, Ended
<1>3. \A p : Live(p) <=> pc[p] \notin Ended
  BY DEF Live, Ended
<1> QED  BY <1>1, <1>2, <1>3

LEMMA Numbers ==
  ASSUME TypeOK, NEW p \in Peers
  PROVE  /\ Coming(p) \in Nat /\ Unseen(p) \in Nat /\ Held(p) \in Nat
         /\ sent[p] \in Nat /\ got[p] \in Nat /\ net[p] \in Nat /\ rq[p] \in Nat /\ events[p] \in Nat
         /\ scnt[p] \in Nat /\ rcnt[p] \in Nat /\ routs[p] \in Nat
         /\ Iters \in Nat \ {0} /\ RxDepth \in Nat \ {0}
<1>1. /\ sent[p] \in Nat /\ got[p] \in Nat /\ net[p] \in Nat /\ rq[p] \in Nat /\ events[p] \in Nat
      /\ scnt[p] \in 0..Iters /\ rcnt[p] \in 0..Iters /\ routs[p] \in 0..RxDepth
      /\ Iters \in Nat \ {0} /\ RxDepth \in Nat \ {0}
  BY LinkAssumption DEF TypeOK
<1> QED  BY <1>1 DEF Coming, Unseen, Held, Bit

\* Who has sent has got what he answered; he holds what he has not answered.
LEMMA Balance ==
  ASSUME TypeOK, NEW p \in Peers, Own(p)
  PROVE  sent[p] + Held(p) <= got[p] + Bit(p = "client")
<1> USE Numbers, BitType
<1>0. pc[p] \in Before \cup Looping \cup Ended
  BY LabelsType DEF TypeOK
<1>1. CASE pc[p] \in Before
  <2>1. sent[p] = 0 /\ rcnt[p] = 0 /\ Live(p) /\ Held(p) = Unseen(p) /\ got[p] = rcnt[p] + Unseen(p)
    BY <1>1, LabelsType DEF Own, Fresh, Queues, Held, Bit
  <2> QED  BY <2>1
<1>2. CASE pc[p] \in Looping
  <2>1. /\ sent[p] + Bit("RECV" \notin pending[p]) = rcnt[p] + Bit(p = "client")
        /\ Live(p) /\ Held(p) = Unseen(p) + Bit("RECV" \notin pending[p])
        /\ got[p] = rcnt[p] + Unseen(p)
    BY <1>2, LabelsType DEF Own, Busy, Queues, Held
  <2> QED  BY <2>1
<1>3. CASE pc[p] \in Ended
  <2>1. rcnt[p] <= got[p] /\ sent[p] <= rcnt[p] + Bit(p = "client") /\ Held(p) = 0
    BY <1>3, LabelsType DEF Own, Left, Held
  <2> QED  BY <2>1
<1> QED  BY <1>0, <1>1, <1>2, <1>3

\* At most one message is under way or waits for its answer, and none when one
\* has been lost.
LEMMA OneBall ==
  ASSUME MatchInv, NEW p \in Peers
  PROVE  LET q == Other(p) IN
         /\ Coming(p) + Coming(q) + Held(p) + Held(q) <= 1
         /\ got[q] + Coming(q) < sent[p] => Coming(p) + Coming(q) + Held(p) + Held(q) = 0
<1> DEFINE q == Other(p)
<1>0. q \in Peers /\ Other(q) = p /\ Bit(p = "client") + Bit(q = "client") = 1
  BY PeersType DEF Bit
<1>1. /\ sent[p] + Held(p) <= got[p] + Bit(p = "client")
      /\ sent[q] + Held(q) <= got[q] + Bit(q = "client")
  BY <1>0, Balance DEF MatchInv
<1>2. got[q] + Coming(q) <= sent[p] /\ got[p] + Coming(p) <= sent[q]
  BY <1>0 DEF MatchInv, Messages
<1>3. /\ Coming(p) \in Nat /\ Held(p) \in Nat /\ sent[p] \in Nat /\ got[p] \in Nat
      /\ Coming(q) \in Nat /\ Held(q) \in Nat /\ sent[q] \in Nat /\ got[q] \in Nat
      /\ Bit(p = "client") \in {0, 1} /\ Bit(q = "client") \in {0, 1}
  BY <1>0, Numbers, BitType DEF MatchInv
<1> HIDE DEF q
<1>4. /\ Coming(p) + Coming(q) + Held(p) + Held(q) <= 1
      /\ got[q] + Coming(q) < sent[p] => Coming(p) + Coming(q) + Held(p) + Held(q) = 0
  <2>1. \A cp, cq0, hp, hq, sp, s0, gp, gq, bp, bq \in Nat :
          /\ bp + bq = 1 /\ sp + hp <= gp + bp /\ s0 + hq <= gq + bq
          /\ gq + cq0 <= sp /\ gp + cp <= s0
          => /\ cp + cq0 + hp + hq <= 1
             /\ gq + cq0 < sp => cp + cq0 + hp + hq = 0
    OBVIOUS
  <2>2. Bit(p = "client") \in Nat /\ Bit(q = "client") \in Nat
    BY <1>3
  <2> QED  BY <1>0, <1>1, <1>2, <1>3, <2>1, <2>2
<1> QED  BY <1>4 DEF q

-----------------------------------------------------------------------------
(* What the invariant says.                                                *)

\* A process that has something in its send queue is in its loop.
LEMMA Sending ==
  ASSUME MatchInv, NEW p \in Peers, sq[p] # "idle"
  PROVE  pc[p] \in Looping /\ "SEND" \in pending[p] /\ ~ Has(cq[p], "SEND")
         /\ ~ Has(wc[p], "SEND") /\ sent[p] > 0
<1>0. Own(p)
  BY DEF MatchInv
<1>1. pc[p] \notin Ended
  BY <1>0 DEF Own, Left
<1>2. /\ Bit(sq[p] # "idle") + Bit(Has(cq[p], "SEND")) + Bit(Has(wc[p], "SEND"))
           = Bit("SEND" \in pending[p])
      /\ Bit(sq[p] # "idle") = 1
  BY <1>0, <1>1, LabelsType DEF Own, Queues, Bit
<1>3. "SEND" \in pending[p] /\ ~ Has(cq[p], "SEND") /\ ~ Has(wc[p], "SEND")
  BY <1>2 DEF Bit
<1>4. pc[p] \notin Before
  BY <1>0, <1>3 DEF Own, Fresh
<1>5. pc[p] \in Looping
  BY <1>1, <1>4, LabelsType DEF MatchInv, TypeOK
<1>6. sent[p] = scnt[p] + 1
  BY <1>0, <1>3, <1>5 DEF Own, Busy, Bit
<1> QED  BY <1>3, <1>5, <1>6, Numbers DEF MatchInv

\* Who has been sent something has connected his queue pair.
LEMMA Listening ==
  ASSUME MatchInv, NEW p \in Peers, sent[Other(p)] > 0
  PROVE  pc[p] \in AfterConnect(p) \cup Ended /\ pc[p] # "create_ah"
<1>1. CASE p = "server"
  <2>1. ServerReady
    BY <1>1 DEF MatchInv, Addresses, Other
  <2> QED  BY <2>1, <1>1 DEF ServerReady, AfterConnect, Looping, Ended
<1>2. CASE p = "client"
  <2> DEFINE q == Other(p)
  <2>1. q \in Peers /\ Other(q) = p /\ q # "client"
    BY <1>2, PeersType
  <2>2. sent[q] + Held(q) <= got[q] + 0 /\ got[q] + Coming(q) <= sent[p]
    BY <2>1, Balance DEF MatchInv, Messages, Bit
  <2>3. sent[p] # 0
    BY <2>1, <2>2, Numbers DEF MatchInv
  <2>4. pc[p] \notin Before
    BY <2>3 DEF MatchInv, Own, Fresh
  <2>5. pc[p] \in Looping \cup Ended
    BY <2>4, LabelsType DEF MatchInv, TypeOK
  <2> QED  BY <2>5, LabelsType DEF AfterConnect, Looping, Ended
<1> QED  BY <1>1, <1>2, PeersType DEF Peers

\* A message on its way to p finds it ready.
LEMMA Landing ==
  ASSUME MatchInv, NEW p \in Peers, Coming(p) > 0
  PROVE  /\ Live(p) => Ready(p) /\ Unseen(p) = 0 /\ pc[p] \in AfterConnect(p) \ {"create_ah"}
         /\ ~ Live(p) => ~ Ready(p)
         /\ sent[Other(p)] > 0
<1> DEFINE q == Other(p)
<1>0. q \in Peers /\ Other(q) = p
  BY PeersType
<1>n. /\ Coming(p) \in Nat /\ Coming(q) \in Nat /\ Held(p) \in Nat /\ Held(q) \in Nat
      /\ sent[p] \in Nat /\ sent[q] \in Nat /\ got[p] \in Nat /\ got[q] \in Nat
      /\ Unseen(p) \in Nat
      /\ rq[p] \in Nat /\ routs[p] \in Nat
  BY <1>0, Numbers DEF MatchInv
<1>1. sent[q] > 0
  BY <1>0, <1>n DEF MatchInv, Messages
<1>2. ASSUME Live(p)  PROVE Ready(p) /\ Unseen(p) = 0 /\ pc[p] \in AfterConnect(p) \ {"create_ah"}
  <2>1. pc[p] \in AfterConnect(p) \ {"create_ah"}
    BY <1>1, <1>2, Listening, LabelsType
  <2>2. qp[p] \in {"rts", "err"} /\ pc[p] # "start"
    BY <2>1 DEF MatchInv, Own, Role, AfterConnect, Looping
  <2>3. Held(p) = 0
    BY <1>n, OneBall
  <2>4. Unseen(p) = 0
    BY <1>2, <1>n, <2>3, BitType DEF Held
  <2>5. qp[p] # "err"
    <3> SUFFICES ASSUME qp[p] = "err"  PROVE FALSE
      OBVIOUS
    <3>1. pc[q] \in Ended \/ got[q] + Coming(q) < sent[p]
      BY DEF MatchInv, Messages
    <3>2. CASE got[q] + Coming(q) < sent[p]
      BY <3>2, <1>n, OneBall
    <3>3. CASE pc[q] \in Ended
      <4>1. sq[q] = "idle"
        BY <1>0, <3>3 DEF MatchInv, Own, Left
      <4>2. transport = "rc" /\ net[p] = 0
        BY <1>0 DEF MatchInv, Messages
      <4> QED  BY <4>1, <4>2 DEF Coming, Bit
    <3> QED  BY <3>1, <3>2, <3>3
  <2>6. rq[p] > 0
    BY <1>2, <1>n, <2>2, <2>4 DEF MatchInv, Own, Queues
  <2> QED  BY <2>1, <2>2, <2>4, <2>5, <2>6 DEF Ready
<1>3. ASSUME ~ Live(p)  PROVE ~ Ready(p)
  BY <1>3, LabelsType DEF MatchInv, Own, Left, Ready
<1> QED  BY <1>1, <1>2, <1>3

LEMMA NoTwoQueued ==
  ASSUME MatchInv, NEW p \in Peers
  PROVE  /\ Len(cq[p]) \in 0..2 /\ Len(cq[p]) <= 2 /\ Len(cq[p]) \in Nat
         /\ Len(cq[p]) = 0 <=> cq[p] = <<>>
BY TwoAtMost DEF MatchInv, TypeOK, Own

LEMMA InvQueuesFit == MatchInv => QueuesFit
<1> SUFFICES ASSUME MatchInv, NEW p \in Peers
             PROVE  /\ Len(cq[p]) <= RxDepth + 1
                    /\ rq[p] <= RxDepth
                    /\ Live(p) /\ "SEND" \notin pending[p] => SlotFree(p)
  BY DEF QueuesFit
<1>0. Own(p)
  BY DEF MatchInv
<1>n. rq[p] \in Nat /\ routs[p] \in 0..RxDepth /\ RxDepth \in Nat \ {0} /\ Unseen(p) \in Nat
  BY Numbers DEF MatchInv, TypeOK
<1>1. Len(cq[p]) <= RxDepth + 1
  BY <1>n, NoTwoQueued
<1>2. rq[p] <= RxDepth
  <2>1. CASE Live(p)
    BY <1>0, <1>n, <2>1 DEF Own, Queues
  <2>2. CASE ~ Live(p)
    BY <1>0, <1>n, <2>2, LabelsType DEF Own, Left
  <2> QED  BY <2>1, <2>2
<1>3. ASSUME Live(p), "SEND" \notin pending[p]  PROVE SlotFree(p)
  <2>1. Bit(sq[p] # "idle") = 0 /\ Bit(Has(cq[p], "SEND")) = 0
    BY <1>0, <1>3 DEF Own, Queues, Bit
  <2>2. sq[p] = "idle" /\ ~ Has(cq[p], "SEND")
    BY <2>1 DEF Bit
  <2>3. cq[p] \in Seq(CQE)
    BY DEF MatchInv, TypeOK
  <2> QED  BY <2>2, <2>3 DEF SlotFree, Has
<1> QED  BY <1>1, <1>2, <1>3

LEMMA InvMessageLands == MatchInv => MessageLands
<1> SUFFICES ASSUME MatchInv, NEW p \in Peers
             PROVE  /\ sq[p] = "posted" => Ready(Other(p)) \/ ~ Live(Other(p))
                    /\ net[p] > 0 => Ready(p) \/ pc[p] = "failed"
  BY DEF MessageLands
<1> DEFINE q == Other(p)
<1>0. q \in Peers /\ Other(q) = p
  BY PeersType
<1>n. net[q] \in Nat /\ net[p] \in Nat
  BY <1>0, Numbers DEF MatchInv
<1>1. ASSUME sq[p] = "posted"  PROVE Ready(q) \/ ~ Live(q)
  <2>1. Coming(q) > 0
    BY <1>0, <1>1, <1>n DEF Coming, Bit
  <2> QED  BY <1>0, <2>1, Landing
<1>2. ASSUME net[p] > 0  PROVE Ready(p) \/ pc[p] = "failed"
  <2>1. Coming(p) > 0
    BY <1>2, <1>n DEF Coming, Bit
  <2>2. pc[p] # "ok"
    <3>1. got[p] + Coming(p) <= sent[q] /\ sent[q] <= Iters
      BY <1>0 DEF MatchInv, Messages
    <3>2. got[p] # Iters
      BY <3>1, <2>1, <1>0, Numbers DEF MatchInv
    <3> QED  BY <3>2 DEF MatchInv, Own, Left, Ended
  <2> QED  BY <2>1, <2>2, Landing DEF Live
<1> QED  BY <1>1, <1>2

LEMMA InvHandleBeforeSend == MatchInv => HandleBeforeSend
<1> SUFFICES ASSUME MatchInv, NEW p \in Peers, transport = "ud", sq[p] = "posted"
             PROVE  p \in ah /\ (Live(Other(p)) => Other(p) \in ah)
  BY DEF HandleBeforeSend
<1>1. pc[p] \in Looping
  BY Sending
<1>2. p \in ah
  BY <1>1 DEF MatchInv, Own, Role, AfterConnect, Looping
<1>3. Other(p) \in Peers /\ Coming(Other(p)) > 0
  BY PeersType, Numbers DEF Coming, Bit, MatchInv
<1>4. ASSUME Live(Other(p))  PROVE Other(p) \in ah
  <2>1. pc[Other(p)] \in AfterConnect(Other(p)) \ {"create_ah"}
    BY <1>3, <1>4, Landing
  <2> QED  BY <1>3, <2>1 DEF MatchInv, Own, Role
<1> QED  BY <1>2, <1>4

LEMMA InvNeverDeaf == MatchInv => NeverDeaf
<1> SUFFICES ASSUME MatchInv, NEW p \in Peers, pc[p] = "get_event"
             PROVE  events[p] > 0 \/ (armed[p] /\ cq[p] = <<>>)
  BY DEF NeverDeaf
<1>1. pc[p] \in Looping /\ Live(p)
  BY DEF Looping, Live
<1>2. mode[p] \in Sleeps
  BY <1>1 DEF MatchInv, Own, Busy
<1> QED  BY <1>1, <1>2 DEF MatchInv, Own, Awake

-----------------------------------------------------------------------------
(* What a step leaves alone.                                               *)

\* The data of p are as before; an address handle is not lost.
SameData(p) ==
  /\ transport' = transport /\ mode'[p] = mode[p]
  /\ pending'[p] = pending[p] /\ routs'[p] = routs[p]
  /\ scnt'[p] = scnt[p] /\ rcnt'[p] = rcnt[p] /\ wc'[p] = wc[p]
  /\ qp'[p] = qp[p] /\ rq'[p] = rq[p] /\ sq'[p] = sq[p] /\ cq'[p] = cq[p]
  /\ armed'[p] = armed[p] /\ events'[p] = events[p]
  /\ sent'[p] = sent[p] /\ got'[p] = got[p]
  /\ p \in ah => p \in ah'

Same(p) == pc'[p] = pc[p] /\ SameData(p)

LEMMA OwnFrame == ASSUME NEW p \in Peers, Own(p), Same(p)  PROVE Own(p)'
<1> USE DEF Same, SameData, Own
<1>1. Fresh(p)'
  BY DEF Fresh
<1>2. Busy(p)'
  BY DEF Busy
<1>3. Left(p)'
  BY DEF Left
<1>4. Queues(p)'
  BY DEF Queues, Live, Unseen
<1>5. Role(p)'
  BY DEF Role, AfterConnect
<1>6. Awake(p)'
  BY DEF Awake, Live
<1>7. Single(cq[p])' /\ Single(wc[p])'
  BY DEF Single
<1> QED  BY <1>1, <1>2, <1>3, <1>4, <1>5, <1>6, <1>7

\* A process on its way to the loop: only the call it is about to make changes.
LEMMA OwnWalk ==
  ASSUME NEW p \in Peers, Own(p), SameData(p),
         pc[p] \in Before \ {"start"}, pc'[p] \in Before \ {"start"},
         pc'[p] \in AfterConnect(p) => pc[p] \in AfterConnect(p) \ {"create_ah"}
  PROVE  Own(p)'
<1>0. /\ Live(p) /\ Live(p)' /\ pc[p] \notin Looping /\ pc'[p] \notin Looping
      /\ pc[p] \notin Ended /\ pc'[p] \notin Ended
  BY DEF Live, Before, Looping, Ended
<1> USE <1>0 DEF SameData, Own
<1>1. Fresh(p)'
  BY DEF Fresh
<1>2. Busy(p)' /\ Left(p)'
  BY DEF Busy, Left
<1>4. Queues(p)'
  BY DEF Queues, Unseen
<1>5. Role(p)'
  BY DEF Role, AfterConnect
<1>6. Awake(p)'
  BY DEF Awake, Before
<1>7. Single(cq[p])' /\ Single(wc[p])'
  BY DEF Single
<1> QED  BY <1>1, <1>2, <1>4, <1>5, <1>6, <1>7

\* The messages from p to q.
LEMMA MessagesFrame ==
  ASSUME NEW p \in Peers, NEW q \in Peers, q = Other(p), Messages(p, q),
         transport' = transport, sent'[p] = sent[p], sq'[p] = sq[p],
         qp'[p] # "err" \/ qp'[p] = qp[p],
         got'[q] = got[q], net'[q] = net[q], net'[p] = net[p],
         pc[q] \in Ended => pc'[q] \in Ended
  PROVE  Messages(p, q)'
<1>1. Other(q) = p
  BY PeersType
<1> QED  BY <1>1 DEF Messages, Coming

\* A process that stays in its loop, or ends, does not disturb the order of
\* addresses.
LEMMA AddressesFrame ==
  ASSUME Addresses, chan' = chan,
         sent'["client"] = sent["client"] \/ pc["client"] \in Looping \cup {"serve"},
         \A p \in Peers : \/ pc'[p] = pc[p]
                          \/ pc[p] \in Looping \cup {"serve"} /\ pc'[p] \in Looping
                          \/ pc'[p] \in Ended
  PROVE  Addresses'
<1>1. "client" \in Peers /\ "server" \in Peers
  BY PeersType
<1>2. pc'["client"] \notin {"listen", "accept", "read_done"}
  BY <1>1 DEF Addresses, Looping, Ended
<1>3. pc'["server"] \notin {"dial", "write_done"}
  BY <1>1 DEF Addresses, Looping, Ended
<1>4. ServerReady => ServerReady'
  BY <1>1 DEF ServerReady
<1>5. ASSUME \/ chan'["client"] # <<>>
             \/ pc'["client"] \in Looping \cup {"write_done", "connect", "create_ah", "serve"}
             \/ sent'["client"] > 0
      PROVE  ServerReady
  BY <1>1, <1>5 DEF Addresses, Ended, Looping
<1> QED  BY <1>2, <1>3, <1>4, <1>5 DEF Addresses

\* A step of process p, which touches nothing of the other one's.
LEMMA LocalStep ==
  ASSUME MatchInv, NEW p \in Peers, NEW q \in Peers, q = Other(p),
         Same(q), got' = got, net' = net, pc[p] \in Ended => pc'[p] \in Ended,
         TypeOK', Own(p)', Messages(p, q)', Addresses'
  PROVE  MatchInv'
<1>1. Other(q) = p /\ \A x \in Peers : x = p \/ x = q
  BY PeersType
<1>2. Own(q)'
  BY OwnFrame DEF MatchInv
<1>3. Messages(q, p)'
  BY <1>1, MessagesFrame DEF MatchInv, Same, SameData
<1>4. Messages(p, Other(p))' /\ Messages(q, Other(q))'
  BY <1>1, <1>3
<1> QED  BY <1>1, <1>2, <1>4 DEF MatchInv

-----------------------------------------------------------------------------
(* The steps before the loop.                                              *)

LEMMA PrepareStep ==
  ASSUME MatchInv, NEW p \in Peers, Prepare(p), UNCHANGED ah
  PROVE  MatchInv'
<1> DEFINE q == Other(p)
<1>0. q \in Peers /\ q # p
  BY PeersType
<1>t. TypeOK /\ Own(p)
  BY DEF MatchInv
<1>1. TypeOK'
  <2>1. pc' \in [Peers -> Labels]
    BY <1>t DEF TypeOK, Prepare, Step, Labels
  <2>2. routs' \in [Peers -> 0..RxDepth] /\ rq' \in [Peers -> Nat]
    BY <1>t, LinkAssumption DEF TypeOK, Prepare, IbvCreate
  <2>3. armed' \in [Peers -> BOOLEAN]
    <3>1. armed' = [armed EXCEPT ![p] = FirstNotify(p)] /\ FirstNotify(p) \in BOOLEAN
      BY DEF Prepare, IbvCreate, FirstNotify
    <3> QED  BY <1>t, <3>1, Zenon DEF TypeOK
  <2>4. qp' \in [Peers -> {"none", "init", "rts", "err"}]
    BY <1>t DEF TypeOK, Prepare, IbvCreate
  <2> QED  BY <1>t, <2>1, <2>2, <2>3, <2>4 DEF TypeOK, Prepare, IbvCreate, options, tcp, wire
<1>2. Same(q) /\ got' = got /\ net' = net /\ chan' = chan /\ sent' = sent
  BY <1>0, <1>t DEF TypeOK, Prepare, Step, IbvCreate, options, tcp, wire, Same, SameData
<1>3. /\ pc[p] = "start" /\ pc'[p] = (IF p = "server" THEN "listen" ELSE "dial")
      /\ qp'[p] = "init" /\ rq'[p] = RxDepth /\ routs'[p] = RxDepth /\ RxDepth \in Nat \ {0}
      /\ armed'[p] = (mode[p] \in Sleeps)
      /\ sq' = sq /\ cq' = cq /\ events' = events
      /\ pending' = pending /\ scnt' = scnt /\ rcnt' = rcnt /\ wc' = wc
      /\ transport' = transport /\ mode' = mode
  BY <1>t, LinkAssumption DEF TypeOK, Prepare, Step, IbvCreate, FirstNotify, options, tcp, wire
<1>4. pc[p] \in Before /\ pc'[p] \in Before /\ pc[p] \notin Ended /\ pc'[p] \notin Ended /\ pc'[p] \notin Looping
  BY <1>3 DEF Before, Looping, Ended
<1>5. Own(p)'
  <2>1. pending[p] = {} /\ scnt[p] = 0 /\ rcnt[p] = 0 /\ sent[p] = 0 /\ wc[p] = <<>> /\ cq[p] = <<>>
    BY <1>t, <1>3, <1>4 DEF Own, Fresh
  <2>2. Fresh(p)'
    BY <1>2, <1>3, <2>1 DEF Fresh
  <2>3. Busy(p)' /\ Left(p)'
    BY <1>4 DEF Busy, Left
  <2>4. Queues(p)'
    <3>1. Unseen(p)' = 0 /\ Unseen(p) = 0
      BY <1>3, <2>1, EmptyQueue DEF Unseen, Bit
    <3>2. Live(p)
      BY <1>4, LabelsType
    <3> QED  BY <1>t, <1>2, <1>3, <3>1, <3>2 DEF Own, Queues
  <2>5. Role(p)'
    BY <1>3 DEF Role, AfterConnect, Looping
  <2>6. Awake(p)'
    BY <1>3, <2>1 DEF Awake
  <2>7. Single(cq[p])' /\ Single(wc[p])'
    BY <1>3, <2>1, EmptyQueue
  <2> QED  BY <2>2, <2>3, <2>4, <2>5, <2>6, <2>7 DEF Own
<1>6. Messages(p, q)'
  BY <1>0, <1>2, <1>3, MessagesFrame DEF MatchInv, Same
<1>7. Addresses'
  BY <1>0, <1>2, <1>3, PeersType DEF MatchInv, Addresses, ServerReady, Same, Looping, Ended, Peers
<1> QED  BY <1>0, <1>1, <1>2, <1>4, <1>5, <1>6, <1>7, LocalStep

LEMMA DialStep ==
  ASSUME MatchInv, NEW p \in Peers, ServerDial(p) \/ ClientDial(p), UNCHANGED ah
  PROVE  MatchInv'
<1> DEFINE q == Other(p)
<1>0. q \in Peers /\ q # p
  BY PeersType
<1>t. TypeOK /\ Own(p)
  BY DEF MatchInv
<1>1. TypeOK'
  <2>1. CASE ServerDial(p)
    <3>1. pc' \in [Peers -> Labels] /\ Exchanging(p)
      BY <1>t, <2>1 DEF TypeOK, ServerDial, ServerExchange, Step, Labels
    <3>2. sock' \in [Peers -> {"none", "listening", "open", "closed"}]
      BY <1>t, <2>1 DEF TypeOK, ServerDial, ServerExchange, TcpListen, TcpRead, TcpWrite, TcpReadAndClose, tcp
    <3>3. chan' \in [Peers -> Seq({"addr", "done"})]
      <4>1. \/ chan' = chan
            \/ \E m \in {"addr", "done"} : chan' = [chan EXCEPT ![q] = Append(@, m)]
            \/ chan[p] # <<>> /\ chan' = [chan EXCEPT ![p] = Tail(@)]
        BY <2>1 DEF ServerDial, ServerExchange, TcpListen, TcpRead, TcpWrite, TcpReadAndClose, tcp
      <4>2. chan[p] # <<>> => Tail(chan[p]) \in Seq({"addr", "done"})
        BY <1>t DEF TypeOK
      <4>3. \A m \in {"addr", "done"} : Append(chan[q], m) \in Seq({"addr", "done"})
        BY <1>0, <1>t DEF TypeOK
      <4>4. chan \in [Peers -> Seq({"addr", "done"})]
        BY <1>t DEF TypeOK
      <4>5. CASE chan' = chan
        BY <4>4, <4>5
      <4>6. CASE \E m \in {"addr", "done"} : chan' = [chan EXCEPT ![q] = Append(@, m)]
        BY <1>0, <4>3, <4>4, <4>6
      <4>7. CASE chan[p] # <<>> /\ chan' = [chan EXCEPT ![p] = Tail(@)]
        BY <4>2, <4>4, <4>7
      <4> QED  BY <4>1, <4>5, <4>6, <4>7
    <3> QED  BY <1>t, <3>1, <3>2, <3>3 DEF TypeOK, Exchanging, options, proc, nic, wire
  <2>2. CASE ClientDial(p)
    <3>1. pc' \in [Peers -> Labels] /\ Exchanging(p)
      BY <1>t, <2>2 DEF TypeOK, ClientDial, ClientExchange, Step, Labels
    <3>2. sock' \in [Peers -> {"none", "listening", "open", "closed"}]
      BY <1>t, <2>2 DEF TypeOK, ClientDial, ClientExchange, TcpConnect, TcpRead, TcpWrite, TcpWriteAndClose
    <3>3. chan' \in [Peers -> Seq({"addr", "done"})]
      <4>1. \/ chan' = chan
            \/ \E m \in {"addr", "done"} : chan' = [chan EXCEPT ![q] = Append(@, m)]
            \/ chan[p] # <<>> /\ chan' = [chan EXCEPT ![p] = Tail(@)]
        BY <2>2 DEF ClientDial, ClientExchange, TcpConnect, TcpRead, TcpWrite, TcpWriteAndClose
      <4>2. chan[p] # <<>> => Tail(chan[p]) \in Seq({"addr", "done"})
        BY <1>t DEF TypeOK
      <4>3. \A m \in {"addr", "done"} : Append(chan[q], m) \in Seq({"addr", "done"})
        BY <1>0, <1>t DEF TypeOK
      <4>4. chan \in [Peers -> Seq({"addr", "done"})]
        BY <1>t DEF TypeOK
      <4>5. CASE chan' = chan
        BY <4>4, <4>5
      <4>6. CASE \E m \in {"addr", "done"} : chan' = [chan EXCEPT ![q] = Append(@, m)]
        BY <1>0, <4>3, <4>4, <4>6
      <4>7. CASE chan[p] # <<>> /\ chan' = [chan EXCEPT ![p] = Tail(@)]
        BY <4>2, <4>4, <4>7
      <4> QED  BY <4>1, <4>5, <4>6, <4>7
    <3> QED  BY <1>t, <3>1, <3>2, <3>3 DEF TypeOK, Exchanging, options, proc, nic, wire
  <2> QED  BY <2>1, <2>2
<1>2. SameData(p) /\ Same(q) /\ got' = got /\ net' = net /\ sent' = sent /\ sq' = sq /\ qp' = qp
      /\ transport' = transport
  BY <1>0, <1>t DEF TypeOK, ServerDial, ServerExchange, ClientDial, ClientExchange, Step, Exchanging,
            options, proc, nic, wire, Same, SameData
<1>3. /\ pc[p] \in Before \ {"start"} /\ pc'[p] \in Before \ {"start"}
      /\ pc'[p] \in AfterConnect(p) => pc[p] \in AfterConnect(p) \ {"create_ah"}
  BY <1>t DEF TypeOK, ServerDial, ServerExchange, ClientDial, ClientExchange, Step, Before, AfterConnect, Looping
<1>5. Own(p)'
  BY <1>t, <1>2, <1>3, OwnWalk
<1>6. Messages(p, q)'
  BY <1>0, <1>2, MessagesFrame DEF MatchInv, Same
<1>7. Addresses'
  <2>1. CASE ServerDial(p)
    <3>1. /\ p = "server" /\ q = "client" /\ pc'["client"] = pc["client"]
          /\ ServerReady => ServerReady'
          /\ ServerReady' \/ chan'["client"] = chan["client"]
          /\ pc'["server"] \notin {"dial", "write_done"}
      BY <1>2, <1>t, <2>1 DEF ServerDial, Other, Same, ServerExchange, Step, ServerReady, TypeOK, tcp,
                TcpListen, TcpRead, TcpWrite, TcpReadAndClose, Looping, Ended, Peers
    <3> QED  BY <1>2, <3>1 DEF MatchInv, Addresses
  <2>2. CASE ClientDial(p)
    <3>1. /\ p = "client" /\ q = "server" /\ pc'["server"] = pc["server"]
      BY <1>2, <2>2 DEF ClientDial, Other, Same
    <3>2. ServerReady' <=> ServerReady
      BY <3>1 DEF ServerReady
    <3>3. /\ pc'["client"] \notin {"listen", "accept", "read_done"}
          /\ \/ chan'["client"] # <<>>
             \/ pc'["client"] \in Looping \cup {"write_done", "connect", "create_ah", "serve"}
             => \/ chan["client"] # <<>>
                \/ pc["client"] \in Looping \cup {"write_done", "connect", "create_ah", "serve"}
      BY <1>t, <2>2, <3>1 DEF ClientDial, ClientExchange, Step, TypeOK, Other, TcpConnect, TcpRead, TcpWrite,
                TcpWriteAndClose, Looping, Peers
    <3> QED  BY <1>2, <3>1, <3>2, <3>3 DEF MatchInv, Addresses
  <2> QED  BY <2>1, <2>2
<1> QED  BY <1>0, <1>1, <1>2, <1>3, <1>5, <1>6, <1>7, LocalStep, LabelsType

LEMMA ConnectStep ==
  ASSUME MatchInv, NEW p \in Peers, Connecting(p), UNCHANGED ah
  PROVE  MatchInv'
<1> DEFINE q == Other(p)
<1>0. q \in Peers /\ q # p
  BY PeersType
<1>t. TypeOK /\ Own(p)
  BY DEF MatchInv
<1>1. TypeOK'
  <2>1. pc' \in [Peers -> Labels]
    <3>1. \E l \in Labels : pc' = [pc EXCEPT ![p] = l]
      BY DEF Connecting, Connect, Connected, Step, Labels
    <3> QED  BY <1>t, <3>1 DEF TypeOK
  <2>2. qp' \in [Peers -> {"none", "init", "rts", "err"}]
    BY <1>t DEF TypeOK, Connecting, Connect, IbvModifyRts
  <2> QED  BY <1>t, <2>1, <2>2 DEF TypeOK, Connecting, Connect, IbvModifyRts, options, proc, tcp, wire
<1>2. /\ Same(q) /\ got' = got /\ net' = net /\ chan' = chan /\ sent' = sent
      /\ transport' = transport
  <2>1. /\ \E to : pc' = [pc EXCEPT ![p] = to]
        /\ qp' = [qp EXCEPT ![p] = "rts"]
        /\ UNCHANGED <<transport, mode, pending, routs, scnt, rcnt, wc, chan, rq, sq, cq, armed, events, net, sent, got>>
    BY DEF Connecting, Connect, Step, IbvModifyRts, options, proc, tcp, wire
  <2>2. Same(q)
    BY <1>0, <1>t, <2>1 DEF TypeOK, Same, SameData
  <2> QED  BY <2>1, <2>2
<1>3. /\ pc[p] = "connect"
      /\ pc'[p] = (IF transport = "ud" THEN "create_ah" ELSE IF p = "server" THEN "write_addr" ELSE "serve")
      /\ qp'[p] = "rts"
      /\ rq' = rq /\ sq' = sq /\ cq' = cq /\ armed' = armed /\ events' = events
      /\ pending' = pending /\ routs' = routs /\ scnt' = scnt /\ rcnt' = rcnt /\ wc' = wc
      /\ mode' = mode
  BY <1>t DEF TypeOK, Connecting, Connect, Connected, Step, IbvModifyRts, options, proc, tcp, wire
<1>4. pc[p] \in Before /\ pc'[p] \in Before /\ pc[p] \notin Ended /\ pc'[p] \notin Ended /\ pc'[p] \notin Looping
  BY <1>3 DEF Before, Looping, Ended
<1>5. Own(p)'
  <2>2. Fresh(p)'
    BY <1>t, <1>2, <1>3, <1>4 DEF Own, Fresh
  <2>3. Busy(p)' /\ Left(p)'
    BY <1>4 DEF Busy, Left
  <2>4. Queues(p)'
    <3>2. Live(p) /\ Unseen(p)' = Unseen(p)
      BY <1>3, <1>4, LabelsType DEF Unseen
    <3> QED  BY <1>t, <1>2, <1>3, <3>2 DEF Own, Queues
  <2>5. Role(p)'
    BY <1>2, <1>3 DEF Role
  <2>6. Awake(p)'
    BY <1>t, <1>3, <1>4, LabelsType DEF Own, Awake
  <2>7. Single(cq[p])' /\ Single(wc[p])'
    BY <1>t, <1>3 DEF Own
  <2> QED  BY <2>2, <2>3, <2>4, <2>5, <2>6, <2>7 DEF Own
<1>6. Messages(p, q)'
  BY <1>0, <1>2, <1>3, MessagesFrame DEF MatchInv, Same
<1>7. Addresses'
  BY <1>0, <1>2, <1>3, PeersType DEF MatchInv, Addresses, ServerReady, Same, Looping, Ended, Peers
<1> QED  BY <1>0, <1>1, <1>2, <1>4, <1>5, <1>6, <1>7, LocalStep

LEMMA CreateAhStep ==
  ASSUME MatchInv, NEW p \in Peers, transport = "ud", Ud!CreateAh(p)
  PROVE  MatchInv'
<1> DEFINE q == Other(p)
<1>0. q \in Peers /\ q # p
  BY PeersType
<1>t. TypeOK /\ Own(p)
  BY DEF MatchInv
<1>1. /\ pc[p] = "create_ah" /\ pc' = [pc EXCEPT ![p] = IF p = "server" THEN "write_addr" ELSE "serve"]
      /\ ah' = ah \cup {p} /\ UNCHANGED <<options, proc, tcp, nic, wire, sent, got>>
  BY SameInUd DEF Ud!CreateAh, Ud!Step, Connected, Ud!options, options, Ud!proc, proc, Ud!tcp, tcp,
       Ud!nic, nic, Ud!wire, wire
<1> USE DEF options, proc, tcp, nic, wire
<1>2. TypeOK'
  BY <1>t, <1>1 DEF TypeOK, Labels
<1>3. SameData(p) /\ Same(q) /\ chan' = chan
  BY <1>0, <1>t, <1>1 DEF TypeOK, Same, SameData
<1>4. pc'[p] = IF p = "server" THEN "write_addr" ELSE "serve"
  BY <1>t, <1>1 DEF TypeOK
<1>5. Own(p)'
  <2>1. /\ Live(p) /\ Live(p)' /\ pc[p] \notin Looping /\ pc'[p] \notin Looping
        /\ pc[p] \notin Ended /\ pc'[p] \notin Ended /\ pc[p] \in Before /\ pc'[p] \in Before
    BY <1>1, <1>4 DEF Live, Before, Looping, Ended
  <2> USE <1>1, <1>3, <1>4, <1>t, <2>1 DEF SameData, Own
  <2>2. Fresh(p)'
    BY DEF Fresh
  <2>3. Busy(p)' /\ Left(p)'
    BY DEF Busy, Left
  <2>4. Queues(p)'
    BY DEF Queues, Unseen
  <2>5. Role(p)'
    BY DEF Role, AfterConnect
  <2>6. Awake(p)'
    BY DEF Awake
  <2>7. Single(cq[p])' /\ Single(wc[p])'
    BY DEF Single
  <2> QED  BY <2>2, <2>3, <2>4, <2>5, <2>6, <2>7
<1>6. Messages(p, q)'
  BY <1>0, <1>1, <1>3, MessagesFrame DEF MatchInv, Same
<1>7. Addresses'
  BY <1>0, <1>1, <1>3, <1>4, PeersType DEF MatchInv, Addresses, ServerReady, Same, Looping, Ended, Peers
<1> QED  BY <1>0, <1>1, <1>2, <1>3, <1>5, <1>6, <1>7, LocalStep DEF Ended

LEMMA ServeStep ==
  ASSUME MatchInv, NEW p \in Peers, Serve(p), UNCHANGED ah
  PROVE  MatchInv'
<1> DEFINE q == Other(p)
<1>0. q \in Peers /\ q # p /\ Other(q) = p
  BY PeersType
<1>t. TypeOK /\ Own(p) /\ Messages(p, q) /\ Addresses
  BY DEF MatchInv
<1>n. Iters \in Nat \ {0} /\ sent[p] \in Nat
  BY Numbers, <1>t
<1>3. /\ pc[p] = "serve" /\ pc'[p] = (IF mode[p] \in Sleeps THEN "get_event" ELSE "poll")
      /\ pending'[p] = (IF p = "client" THEN {"SEND", "RECV"} ELSE {"RECV"})
      /\ sq'[p] = (IF p = "client" THEN "posted" ELSE sq[p])
      /\ sent'[p] = (IF p = "client" THEN sent[p] + 1 ELSE sent[p])
      /\ rq'[p] = rq[p]
      /\ qp' = qp /\ cq' = cq /\ armed' = armed /\ events' = events
      /\ routs' = routs /\ scnt' = scnt /\ rcnt' = rcnt /\ wc' = wc
      /\ mode' = mode /\ transport' = transport
  BY <1>t, <1>n DEF TypeOK, Serve, Step, LoopHead, Both, IbvPost, options, tcp, wire
<1>1. TypeOK'
  <2>1. pc' \in [Peers -> Labels]
    BY <1>t DEF TypeOK, Serve, Step, LoopHead, Labels
  <2>2. pending' \in [Peers -> SUBSET {"SEND", "RECV"}] /\ sent' \in [Peers -> Nat]
    BY <1>t DEF TypeOK, Serve, Both
  <2>3. rq' \in [Peers -> Nat] /\ sq' \in [Peers -> {"idle", "posted", "acking"}]
    BY <1>t DEF TypeOK, Serve, IbvPost
  <2> QED  BY <1>t, <2>1, <2>2, <2>3 DEF TypeOK, Serve, IbvPost, options, tcp, wire
<1>2. /\ Same(q) /\ got' = got /\ net' = net /\ chan' = chan
  BY <1>0, <1>t DEF TypeOK, Serve, Step, IbvPost, options, tcp, wire, Same, SameData
<1>4. pc[p] \in Before /\ pc'[p] \in Looping /\ pc[p] \notin Ended /\ pc'[p] \notin Ended /\ pc'[p] \notin Before
  BY <1>3 DEF Before, Looping, Ended
<1>5. /\ pending[p] = {} /\ scnt[p] = 0 /\ rcnt[p] = 0 /\ sent[p] = 0 /\ wc[p] = <<>>
      /\ Live(p) /\ Live(p)' /\ Unseen(p)' = Unseen(p)
  <2>1. Live(p) /\ Live(p)'
    BY <1>3 DEF Live
  <2> QED  BY <1>t, <1>3, <1>4, <2>1 DEF Own, Fresh, Unseen
<1>6. sq[p] = "idle" /\ ~ Has(cq[p], "SEND") /\ ~ Has(wc[p], "SEND")
  BY <1>t, <1>5 DEF Own, Queues, Bit
<1>7. Own(p)'
  <2>2. Fresh(p)' /\ Left(p)'
    BY <1>4 DEF Fresh, Left
  <2>3. Busy(p)'
    BY <1>3, <1>5 DEF Busy, Bit
  <2>4. Queues(p)'
    <3>1. Bit(sq'[p] # "idle") + Bit(Has(cq'[p], "SEND")) + Bit(Has(wc'[p], "SEND"))
            = Bit("SEND" \in pending'[p])
      BY <1>3, <1>6 DEF Bit
    <3> QED  BY <1>t, <1>2, <1>3, <1>5, <3>1 DEF Own, Queues
  <2>5. Role(p)'
    BY <1>t, <1>3, <1>4 DEF Own, Role, AfterConnect
  <2>6. Awake(p)'
    BY <1>t, <1>3, <1>5 DEF Own, Awake
  <2>7. Single(cq[p])' /\ Single(wc[p])'
    BY <1>t, <1>3 DEF Own
  <2> QED  BY <2>2, <2>3, <2>4, <2>5, <2>6, <2>7 DEF Own
<1>8. Messages(p, q)'
  <2>1. CASE p = "client"
    <3>1. Coming(q)' = Coming(q) + 1
      <4>1. net'[q] = net[q] /\ net[q] \in Nat /\ sq'[p] = "posted"
        BY <1>0, <1>2, <1>3, <1>t, <2>1, Numbers
      <4> QED  BY <1>0, <1>6, <4>1 DEF Coming, Bit
    <3>2. /\ sent'[p] = sent[p] + 1 /\ sq'[p] = "posted" /\ got'[q] = got[q] /\ pc'[q] = pc[q]
          /\ net'[p] = net[p] /\ qp'[p] = qp[p] /\ sent[p] + 1 <= Iters
      BY <1>2, <1>3, <1>5, <1>n, <2>1 DEF Same
    <3>3. got[q] \in Nat /\ Coming(q) \in Nat
      BY <1>0, <1>t, Numbers
    <3> QED  BY <1>n, <1>t, <1>3, <3>1, <3>2, <3>3 DEF Messages
  <2>2. CASE p # "client"
    BY <1>0, <1>t, <1>2, <1>3, <2>2, MessagesFrame DEF Same
  <2> QED  BY <2>1, <2>2
<1>9. Addresses'
  <2>1. \A x \in Peers : x = p \/ x = q
    BY PeersType
  <2>2. sent'["client"] = sent["client"] \/ pc["client"] \in Looping \cup {"serve"}
    BY <1>2, <1>3, <2>1, PeersType DEF Same, SameData
  <2> QED  BY <1>t, <1>2, <1>3, <1>4, <2>1, <2>2, AddressesFrame DEF Same
<1> QED  BY <1>0, <1>1, <1>2, <1>4, <1>7, <1>8, <1>9, LocalStep

-----------------------------------------------------------------------------
(* The steps of the loop.                                                  *)

LEMMA LoopHeadType ==
  ASSUME NEW p \in Peers, NEW s \in 0..Iters, NEW r \in 0..Iters
  PROVE  /\ LoopHead(p, s, r) \in {"finish", "get_event", "poll"}
         /\ LoopHead(p, s, r) = "finish" => s = Iters /\ r = Iters
         /\ LoopHead(p, s, r) = "get_event" => mode[p] \in Sleeps
         /\ LoopHead(p, s, r) = "poll" => mode[p] \notin Sleeps
BY LinkAssumption DEF LoopHead

LEMMA InvType == MatchInv => TypeOK
BY DEF MatchInv

\* A step that changes the label, the events and the arming only.
LEMMA WakeStep ==
  ASSUME MatchInv, NEW p \in Peers, GetCqEvent(p) \/ ReqNotify(p), UNCHANGED ah
  PROVE  MatchInv'
<1> DEFINE q == Other(p)
<1>0. q \in Peers /\ q # p
  BY PeersType
<1>t. TypeOK /\ Own(p) /\ Messages(p, q) /\ Addresses
  BY DEF MatchInv
<1>1. TypeOK'
  <2>1. \E l \in Labels : pc' = [pc EXCEPT ![p] = l]
    BY DEF GetCqEvent, ReqNotify, Step, Labels
  <2>2. pc' \in [Peers -> Labels]
    BY <1>t, <2>1 DEF TypeOK
  <2>3. \/ events' = events /\ armed' = [armed EXCEPT ![p] = TRUE]
        \/ armed' = armed /\ events[p] > 0 /\ events' = [events EXCEPT ![p] = @ - 1]
    BY DEF GetCqEvent, ReqNotify, IbvGetCqEvent, IbvReqNotifyCq
  <2>4. events \in [Peers -> Nat] /\ armed \in [Peers -> BOOLEAN]
    BY <1>t DEF TypeOK
  <2>5. events' \in [Peers -> Nat]
    <3>1. events[p] > 0 => events[p] - 1 \in Nat
      BY <2>4
    <3> QED  BY <2>3, <2>4, <3>1
  <2>6. armed' \in [Peers -> BOOLEAN]
    BY <2>3, <2>4, Zenon
  <2> QED  BY <1>t, <2>2, <2>5, <2>6 DEF TypeOK, GetCqEvent, ReqNotify, IbvGetCqEvent, IbvReqNotifyCq,
                options, proc, tcp, wire
<1>a. /\ \/ pc[p] = "get_event" /\ pc' = [pc EXCEPT ![p] = "req_notify"]
         \/ pc[p] = "req_notify" /\ pc' = [pc EXCEPT ![p] = "poll"] /\ armed' = [armed EXCEPT ![p] = TRUE]
      /\ \E n, b : events' = [events EXCEPT ![p] = n] /\ armed' = [armed EXCEPT ![p] = b]
      /\ UNCHANGED <<transport, mode, pending, routs, scnt, rcnt, wc, chan, qp, rq, sq, cq, net, sent, got>>
  BY <1>t DEF TypeOK, GetCqEvent, ReqNotify, Step, IbvGetCqEvent, IbvReqNotifyCq, options, proc, tcp, wire
<1>b. Same(q)
  <2>1. pc'[q] = pc[q]
    BY <1>0, <1>t, <1>a DEF TypeOK
  <2>2. events'[q] = events[q] /\ armed'[q] = armed[q]
    BY <1>0, <1>t, <1>a DEF TypeOK
  <2> QED  BY <1>a, <2>1, <2>2 DEF Same, SameData
<1>2. /\ Same(q) /\ got' = got /\ net' = net /\ chan' = chan /\ sent' = sent
      /\ \/ pc[p] = "get_event" /\ pc'[p] = "req_notify"
         \/ pc[p] = "req_notify" /\ pc'[p] = "poll" /\ armed'[p] = TRUE
      /\ qp' = qp /\ rq' = rq /\ sq' = sq /\ cq' = cq
      /\ pending' = pending /\ routs' = routs /\ scnt' = scnt /\ rcnt' = rcnt /\ wc' = wc
      /\ transport' = transport /\ mode' = mode
  BY <1>t, <1>a, <1>b DEF TypeOK
<1>3. /\ pc[p] \in Looping /\ pc'[p] \in Looping /\ pc[p] \notin Ended /\ pc'[p] \notin Ended
      /\ pc'[p] \notin Before
  BY <1>2 DEF Before, Looping, Ended
<1>4. Own(p)'
  <2>2. Fresh(p)' /\ Left(p)'
    BY <1>3 DEF Fresh, Left
  <2>3. Busy(p)'
    BY <1>t, <1>2, <1>3 DEF Own, Busy
  <2>4. Queues(p)'
    <3>1. Live(p) /\ Unseen(p)' = Unseen(p)
      BY <1>2, <1>3, LabelsType DEF Unseen
    <3> QED  BY <1>t, <1>2, <3>1 DEF Own, Queues
  <2>5. Role(p)'
    BY <1>t, <1>2, <1>3 DEF Own, Role, AfterConnect
  <2>6. Awake(p)'
    BY <1>2 DEF Awake
  <2>7. Single(cq[p])' /\ Single(wc[p])'
    BY <1>t, <1>2 DEF Own
  <2> QED  BY <2>2, <2>3, <2>4, <2>5, <2>6, <2>7 DEF Own
<1>5. Messages(p, q)'
  BY <1>0, <1>t, <1>2, MessagesFrame DEF Same
<1>6. Addresses'
  <2>1. \A x \in Peers : x = p \/ x = q
    BY PeersType
  <2> QED  BY <1>t, <1>2, <1>3, <2>1, AddressesFrame DEF Same
<1> QED  BY <1>0, <1>1, <1>2, <1>3, <1>4, <1>5, <1>6, LocalStep

\* n completions are taken from the queue.
Polled(p, n, to) ==
  /\ pc[p] \in {"poll", "next_poll"} /\ pc' = [pc EXCEPT ![p] = to]
  /\ IbvPollCq(p, n)
  /\ UNCHANGED <<options, pending, routs, scnt, rcnt, tcp, wire, sent, got>>
  /\ n = 0 => to = LoopHead(p, scnt[p], rcnt[p])
  /\ n > 0 => to \in {"parse", "parse_next"}
  /\ mode[p] \in Stamps => n <= 1
  /\ to = "parse_next" => mode[p] \in Stamps
  /\ mode[p] \in Sleeps => \/ events[p] > 0
                           \/ /\ armed[p]
                              /\ \/ Len(cq[p]) = n
                                 \/ to = "parse" /\ mode[p] \in Stamps /\ Len(cq[p]) <= n + 1

LEMMA PolledStep ==
  ASSUME MatchInv, NEW p \in Peers, NEW n \in 0..Len(cq[p]), NEW to, Polled(p, n, to), UNCHANGED ah
  PROVE  MatchInv'
<1> DEFINE q == Other(p)
<1>0. q \in Peers /\ q # p
  BY PeersType
<1>t. TypeOK /\ Own(p) /\ Messages(p, q) /\ Addresses
  BY DEF MatchInv
<1>n. cq[p] \in Seq(CQE) /\ n \in Nat /\ Len(cq[p]) \in Nat /\ scnt[p] \in 0..Iters /\ rcnt[p] \in 0..Iters
  BY <1>t DEF TypeOK
<1> DEFINE a == SubSeq(cq[p], 1, n)
           b == SubSeq(cq[p], n + 1, Len(cq[p]))
<1>s. /\ a \in Seq(CQE) /\ b \in Seq(CQE) /\ Len(a) = n /\ Len(b) = Len(cq[p]) - n
      /\ Single(a) /\ Single(b)
      /\ \A op : Bit(Has(a, op)) + Bit(Has(b, op)) = Bit(Has(cq[p], op))
  BY <1>t, <1>n, SplitHas DEF Own
<1>2. /\ pc[p] \in {"poll", "next_poll"} /\ pc'[p] = to
      /\ cq' = [cq EXCEPT ![p] = b] /\ wc' = [wc EXCEPT ![p] = a]
      /\ qp' = qp /\ rq' = rq /\ sq' = sq /\ armed' = armed /\ events' = events
      /\ pending' = pending /\ routs' = routs /\ scnt' = scnt /\ rcnt' = rcnt
      /\ got' = got /\ net' = net /\ chan' = chan /\ sent' = sent
      /\ transport' = transport /\ mode' = mode /\ ah' = ah
  BY <1>t DEF TypeOK, Polled, IbvPollCq, options, tcp, wire
<1> HIDE DEF a, b
<1>3. cq'[p] = b /\ wc'[p] = a
  BY <1>t, <1>2 DEF TypeOK
<1>4. /\ to \in {"finish", "get_event", "poll", "parse", "parse_next"}
      /\ to \in {"parse", "parse_next"} <=> n > 0
      /\ to = "finish" => scnt[p] = Iters /\ rcnt[p] = Iters
      /\ to = "get_event" => mode[p] \in Sleeps
      /\ to = "poll" => mode[p] \notin Sleeps
      /\ to = "parse_next" => mode[p] \in Stamps
      /\ mode[p] \in Stamps => n <= 1
      /\ mode[p] \in Sleeps => \/ events[p] > 0
                               \/ /\ armed[p]
                                  /\ \/ Len(b) = 0
                                     \/ to = "parse" /\ mode[p] \in Stamps /\ Len(b) <= 1
  <2>1. Len(cq[p]) = n => Len(b) = 0
    BY <1>n, <1>s
  <2>2. Len(cq[p]) <= n + 1 => Len(b) <= 1
    BY <1>n, <1>s
  <2>3. CASE n = 0
    BY <1>n, <2>1, <2>2, <2>3, LoopHeadType DEF Polled
  <2>4. CASE n > 0
    BY <1>n, <2>1, <2>2, <2>4 DEF Polled
  <2> QED  BY <1>n, <2>3, <2>4
<1>1. TypeOK'
  <2>1. pc' \in [Peers -> Labels]
    BY <1>t, <1>4 DEF TypeOK, Polled, Labels
  <2>2. cq' \in [Peers -> Seq(CQE)] /\ wc' \in [Peers -> Seq(CQE)]
    BY <1>t, <1>2, <1>s DEF TypeOK
  <2> QED  BY <1>t, <1>2, <2>1, <2>2 DEF TypeOK, Polled, options, tcp, wire
<1>5. Same(q)
  BY <1>0, <1>t, <1>2 DEF TypeOK, Polled, Same, SameData
<1>6. /\ pc[p] \in Looping /\ pc'[p] \in Looping /\ pc[p] \notin Ended /\ pc'[p] \notin Ended
      /\ pc'[p] \notin Before /\ Live(p) /\ wc[p] = <<>>
  <2>1. pc[p] \in Looping /\ pc'[p] \in Looping /\ pc[p] \notin Ended /\ pc'[p] \notin Ended
        /\ pc'[p] \notin Before /\ Live(p)
    BY <1>2, <1>4 DEF Before, Looping, Ended, Live
  <2> QED  BY <1>t, <1>2, <2>1 DEF Own, Busy
<1>7. Own(p)'
  <2>2. Fresh(p)' /\ Left(p)'
    BY <1>6 DEF Fresh, Left
  <2>3. Busy(p)'
    <3>1. wc'[p] # <<>> <=> pc'[p] \in {"parse", "parse_next"}
      BY <1>2, <1>3, <1>4, <1>n, <1>s
    <3>2. /\ sent[p] = scnt[p] + Bit("SEND" \in pending[p])
          /\ sent[p] + Bit("RECV" \notin pending[p]) = rcnt[p] + Bit(p = "client")
      BY <1>t, <1>6 DEF Own, Busy
    <3>3. mode[p] \in Stamps => Len(wc'[p]) <= 1
      BY <1>3, <1>4, <1>s
    <3>4. /\ pc'[p] = "finish" => scnt[p] = Iters /\ rcnt[p] = Iters
          /\ pc'[p] \in {"next_poll", "parse_next"} => mode[p] \in Stamps
          /\ pc'[p] = "get_event" => mode[p] \in Sleeps
      BY <1>2, <1>4
    <3> QED  BY <1>2, <3>1, <3>2, <3>3, <3>4 DEF Busy
  <2>4. Queues(p)'
    <3>1. \A op : /\ Bit(Has(cq[p], op)) + Bit(Has(wc[p], op)) = Bit(Has(cq[p], op))
                  /\ Bit(Has(cq'[p], op)) + Bit(Has(wc'[p], op)) = Bit(Has(cq[p], op))
      <4> TAKE op
      <4>1. ~ Has(wc[p], op)
        BY <1>6, EmptyQueue
      <4>2. Bit(Has(a, op)) + Bit(Has(b, op)) = Bit(Has(cq[p], op))
        BY <1>s
      <4> QED  BY <1>3, <4>1, <4>2 DEF Bit
    <3>2. Unseen(p)' = Unseen(p)
      BY <3>1 DEF Unseen
    <3>3. /\ Bit(sq[p] # "idle") + Bit(Has(cq[p], "SEND")) + Bit(Has(wc[p], "SEND"))
               = Bit("SEND" \in pending[p])
      BY <1>t, <1>6 DEF Own, Queues
    <3>4. /\ Bit(sq[p] # "idle") + Bit(Has(cq'[p], "SEND")) + Bit(Has(wc'[p], "SEND"))
               = Bit("SEND" \in pending[p])
      BY <3>1, <3>3 DEF Bit
    <3> QED  BY <1>t, <1>2, <1>6, <3>2, <3>4, Zenon DEF Own, Queues
  <2>5. Role(p)'
    BY <1>t, <1>2, <1>6 DEF Own, Role, AfterConnect
  <2>6. Awake(p)'
    <3>1. Len(b) = 0 => b = <<>>
      BY <1>s
    <3> QED  BY <1>2, <1>3, <1>4, <3>1 DEF Awake
  <2>7. Single(cq[p])' /\ Single(wc[p])'
    BY <1>3, <1>s
  <2> QED  BY <2>2, <2>3, <2>4, <2>5, <2>6, <2>7 DEF Own
<1>8. Messages(p, q)'
  BY <1>0, <1>t, <1>2, <1>5, MessagesFrame DEF Same
<1>9. Addresses'
  <2>1. \A x \in Peers : x = p \/ x = q
    BY PeersType
  <2> QED  BY <1>t, <1>2, <1>5, <1>6, <2>1, AddressesFrame DEF Same
<1> QED  BY <1>0, <1>1, <1>2, <1>5, <1>6, <1>7, <1>8, <1>9, LocalStep

LEMMA PollCqStep ==
  ASSUME MatchInv, NEW p \in Peers, PollCq(p), UNCHANGED ah
  PROVE  MatchInv'
<1> DEFINE n == Len(cq[p])
<1>0. Len(cq[p]) \in 0..2
  BY NoTwoQueued
<1>1. n \in 0..2
  BY <1>0, Zenon
<1>2. (IF Len(cq[p]) < 2 THEN Len(cq[p]) ELSE 2) = n
  <2>1. \A k \in 0..2 : (IF k < 2 THEN k ELSE 2) = k
    OBVIOUS
  <2> QED  BY <1>0, <2>1, Zenon
<1>3. /\ mode[p] \notin Stamps /\ pc[p] = "poll"
      /\ pc' = [pc EXCEPT ![p] = IF n = 0 THEN LoopHead(p, scnt[p], rcnt[p]) ELSE "parse"]
      /\ IbvPollCq(p, n)
      /\ UNCHANGED <<options, pending, routs, scnt, rcnt, tcp, wire, sent, got>>
  BY <1>2 DEF PollCq, Step
<1>4. mode[p] \in Sleeps => events[p] > 0 \/ armed[p]
  BY <1>3 DEF MatchInv, Own, Awake, Live
<1> HIDE DEF n
<1>5. (IF n = 0 THEN LoopHead(p, scnt[p], rcnt[p]) ELSE "parse") # "parse_next"
  BY DEF LoopHead
<1>6. Polled(p, n, IF n = 0 THEN LoopHead(p, scnt[p], rcnt[p]) ELSE "parse")
  BY <1>1, <1>3, <1>4, <1>5 DEF Polled, n
<1> QED  BY <1>1, <1>6, PolledStep DEF n

LEMMA StartPollStep ==
  ASSUME MatchInv, NEW p \in Peers, Rc!StartPoll(p), cq[p] # <<>>, UNCHANGED ah
  PROVE  MatchInv'
<1>0. Len(cq[p]) \in 0..2 /\ Len(cq[p]) # 0
  BY NoTwoQueued
<1>1. Len(cq[p]) \in 1..2 /\ 1 \in 0..Len(cq[p]) /\ Len(cq[p]) <= 1 + 1
  <2>1. \A k \in 0..2 : k # 0 => k \in 1..2 /\ 1 \in 0..k /\ k <= 1 + 1
    OBVIOUS
  <2> QED  BY <1>0, <2>1, Zenon
<1>2. /\ mode[p] \in Stamps /\ pc[p] = "poll"
      /\ pc' = [pc EXCEPT ![p] = "parse"]
      /\ IbvPollCq(p, 1)
      /\ UNCHANGED <<options, pending, routs, scnt, rcnt, tcp, wire, sent, got>>
  BY DEF Rc!StartPoll, Rc!Step, Rc!IbvPollCq, IbvPollCq, Rc!Stamps, Stamps, Rc!options, options,
         Rc!tcp, tcp, Rc!wire, wire
<1>3. mode[p] \in Sleeps => events[p] > 0 \/ armed[p]
  BY <1>2 DEF MatchInv, Own, Awake, Live
<1>4. Polled(p, 1, "parse")
  BY <1>1, <1>2, <1>3 DEF Polled
<1> QED  BY <1>1, <1>4, PolledStep

LEMMA NextPollStep ==
  ASSUME MatchInv, NEW p \in Peers, Rc!NextPoll(p), UNCHANGED ah
  PROVE  MatchInv'
<1> DEFINE n == IF cq[p] = <<>> THEN 0 ELSE 1
           to == IF n = 0 THEN LoopHead(p, scnt[p], rcnt[p]) ELSE "parse_next"
<1>0. Len(cq[p]) \in 0..2 /\ (Len(cq[p]) = 0 <=> cq[p] = <<>>)
  BY NoTwoQueued
<1>1. n \in 0..Len(cq[p]) /\ Len(cq[p]) \in 0..2
  BY <1>0
<1>2. /\ pc[p] = "next_poll"
      /\ pc' = [pc EXCEPT ![p] = to]
      /\ IbvPollCq(p, n)
      /\ UNCHANGED <<options, pending, routs, scnt, rcnt, tcp, wire, sent, got>>
  BY DEF Rc!NextPoll, Rc!Step, Rc!IbvPollCq, IbvPollCq, Rc!options, options,
         Rc!tcp, tcp, Rc!wire, wire, Rc!LoopHead, LoopHead, Rc!Sleeps, Sleeps
<1>3. mode[p] \in Stamps
  BY <1>2 DEF MatchInv, Own, Busy, Looping
<1>4. mode[p] \in Sleeps => events[p] > 0 \/ (armed[p] /\ Len(cq[p]) = n)
  <2>1. mode[p] \in Sleeps => events[p] > 0 \/ (armed[p] /\ (cq[p] = <<>> \/ Len(cq[p]) <= 1))
    BY <1>2 DEF MatchInv, Own, Awake, Live
  <2>2. cq[p] = <<>> \/ Len(cq[p]) <= 1 => Len(cq[p]) = n
    BY <1>0
  <2> QED  BY <2>1, <2>2
<1>5. n > 0 => to = "parse_next"
  OBVIOUS
<1>6. n = 0 => to = LoopHead(p, scnt[p], rcnt[p])
  OBVIOUS
<1>7. n <= 1 /\ n \in Nat
  OBVIOUS
<1> HIDE DEF n, to
<1>8. Polled(p, n, to)
  BY <1>2, <1>3, <1>4, <1>5, <1>6, <1>7 DEF Polled
<1> QED  BY <1>1, <1>8, PolledStep

\* What is known of the completion that is looked at: a send that the process
\* has waited for and that has left the slot free, or the one message that is
\* in the game.
LEMMA FirstCompletion ==
  ASSUME MatchInv, NEW p \in Peers, pc[p] \in {"parse", "parse_next"}
  PROVE  LET op == Head(wc[p]).op IN
         /\ op \in {"SEND", "RECV"} /\ op \in pending[p]
         /\ pc[p] \in Looping /\ Live(p)
         /\ wc[p] \in Seq(CQE) /\ wc[p] # <<>> /\ Single(wc[p]) /\ Has(wc[p], op)
         /\ ~ Has(cq[p], op)
         /\ op = "SEND" => sq[p] = "idle" /\ scnt[p] < Iters
         /\ op = "RECV" => rcnt[p] < Iters /\ Has(wc[p], "RECV")
<1> DEFINE q == Other(p)
           op == Head(wc[p]).op
<1>0. q \in Peers /\ Other(q) = p
  BY PeersType
<1>t. TypeOK /\ Own(p) /\ Messages(p, q) /\ Messages(q, p)
  BY <1>0 DEF MatchInv
<1>1. pc[p] \in Looping /\ Live(p)
  BY DEF Looping, Live
<1>2. wc[p] \in Seq(CQE) /\ wc[p] # <<>> /\ Single(wc[p])
  BY <1>t, <1>1 DEF TypeOK, Own, Busy
<1>3. Head(wc[p]) \in CQE /\ Has(wc[p], op)
  BY <1>2, TailHas
<1>4. op \in {"SEND", "RECV"}
  BY <1>3 DEF CQE
<1> HIDE DEF op
<1>5. CASE op = "SEND"
  <2>1. "SEND" \in pending[p] /\ sq[p] = "idle" /\ ~ Has(cq[p], "SEND")
    BY <1>t, <1>1, <1>3, <1>5 DEF Own, Queues, Bit
  <2>2. sent[p] = scnt[p] + 1 /\ sent[p] <= Iters
    BY <1>t, <1>1, <2>1 DEF Own, Busy, Bit, Messages
  <2>3. scnt[p] < Iters
    BY <2>2, Numbers, <1>t
  <2> QED  BY <1>1, <1>2, <1>3, <1>5, <2>1, <2>3 DEF op
<1>6. CASE op = "RECV"
  <2>1. Held(p) <= 1
    BY <1>0, OneBall, Numbers, <1>t
  <2>2. /\ Held(p) = Bit(Has(cq[p], "RECV")) + 1 + Bit("RECV" \notin pending[p])
        /\ Unseen(p) = Bit(Has(cq[p], "RECV")) + 1
    BY <1>1, <1>3, <1>6 DEF Held, Unseen, Bit
  <2>3. ~ Has(cq[p], "RECV") /\ "RECV" \in pending[p]
    BY <2>1, <2>2 DEF Bit
  <2>4. got[p] = rcnt[p] + 1
    BY <1>t, <1>1, <2>2, <2>3 DEF Own, Queues, Bit
  <2>5. got[p] + Coming(p) <= sent[q] /\ sent[q] <= Iters
    BY <1>0, <1>t DEF Messages
  <2>6. rcnt[p] < Iters
    BY <1>0, <2>4, <2>5, Numbers, <1>t
  <2> QED  BY <1>1, <1>2, <1>3, <1>6, <2>3, <2>6 DEF op
<1> QED  BY <1>4, <1>5, <1>6

LEMMA ParseStep ==
  ASSUME MatchInv, NEW p \in Peers, GoodParse(p), UNCHANGED ah
  PROVE  MatchInv'
<1> DEFINE q      == Other(p)
           op     == Head(wc[p]).op
           s      == IF op = "SEND" THEN scnt[p] + 1 ELSE scnt[p]
           r      == IF op = "RECV" THEN rcnt[p] + 1 ELSE rcnt[p]
           left   == IF op = "RECV" THEN routs[p] - 1 ELSE routs[p]
           refill == IF op = "RECV" THEN Refill(left) ELSE 0
           answer == Answers(p, s, op)
           to     == AfterParse(p, s, r)
<1>0. q \in Peers /\ q # p /\ Other(q) = p
  BY PeersType
<1>t. TypeOK /\ Own(p) /\ Messages(p, q) /\ Addresses
  BY DEF MatchInv
<1>1. /\ op \in {"SEND", "RECV"} /\ op \in pending[p]
      /\ pc[p] \in Looping /\ Live(p)
      /\ wc[p] \in Seq(CQE) /\ wc[p] # <<>> /\ Single(wc[p]) /\ Has(wc[p], op)
      /\ ~ Has(cq[p], op)
      /\ op = "SEND" => sq[p] = "idle" /\ scnt[p] < Iters
      /\ op = "RECV" => rcnt[p] < Iters /\ Has(wc[p], "RECV")
  BY FirstCompletion DEF GoodParse
<1>n. /\ scnt[p] \in 0..Iters /\ rcnt[p] \in 0..Iters /\ routs[p] \in 0..RxDepth /\ rq[p] \in Nat
      /\ sent[p] \in Nat /\ got[p] \in Nat /\ Iters \in Nat \ {0} /\ RxDepth \in Nat \ {0}
  BY <1>t, LinkAssumption DEF TypeOK
<1>2. /\ pc[p] \in {"parse", "parse_next"} /\ pc' = [pc EXCEPT ![p] = to]
      /\ scnt' = [scnt EXCEPT ![p] = s] /\ rcnt' = [rcnt EXCEPT ![p] = r]
      /\ routs' = [routs EXCEPT ![p] = left + refill]
      /\ pending' = [pending EXCEPT ![p] = IF answer THEN {"SEND", "RECV"} ELSE @ \ {op}]
      /\ rq' = [rq EXCEPT ![p] = @ + refill]
      /\ sq' = [sq EXCEPT ![p] = IF answer THEN "posted" ELSE @]
      /\ sent' = [sent EXCEPT ![p] = IF answer THEN @ + 1 ELSE @]
      /\ wc' = [wc EXCEPT ![p] = Tail(@)]
      /\ UNCHANGED <<transport, faults, mode, sock, chan, qp, cq, armed, events, net, lost, got>>
  BY DEF GoodParse, Parsed, IbvPost, Both, options, tcp, wire
<1>a. /\ answer => s < Iters /\ pending[p] = {op}
      /\ answer \in BOOLEAN
  BY <1>1 DEF Answers
<1>b. /\ s \in 0..Iters /\ r \in 0..Iters
      /\ op = "SEND" => s = scnt[p] + 1 /\ r = rcnt[p] /\ left = routs[p] /\ refill = 0
      /\ op = "RECV" => s = scnt[p] /\ r = rcnt[p] + 1 /\ left = routs[p] - 1
  <2>1. CASE op = "SEND"
    BY <1>1, <1>n, <2>1
  <2>2. CASE op = "RECV"
    BY <1>1, <1>n, <2>2
  <2> QED  BY <1>1, <2>1, <2>2
<1>c. routs[p] >= 1 /\ qp[p] # "none"
  BY <1>t, <1>1, <1>2 DEF Own, Queues
<1>d. /\ refill \in Nat /\ left \in Int /\ left + refill \in 1..RxDepth
  <2>1. CASE op = "SEND"
    BY <1>n, <1>c, <2>1
  <2>2. CASE op = "RECV"
    <3>1. \A l \in 0..(RxDepth - 1) : Refill(l) \in Nat /\ l + Refill(l) \in 1..RxDepth
      BY <1>n DEF Refill
    <3>2. routs[p] - 1 \in 0..(RxDepth - 1)
      BY <1>n, <1>c
    <3> QED  BY <2>2, <3>1, <3>2
  <2> QED  BY <1>1, <2>1, <2>2
<1>e. /\ to \in {"parse", "next_poll", "finish", "get_event", "poll"}
      /\ to = "parse" <=> Len(wc[p]) > 1
      /\ to = "next_poll" => mode[p] \in Stamps /\ pc[p] = "parse"
      /\ to = "finish" => s = Iters /\ r = Iters
      /\ to = "get_event" => mode[p] \in Sleeps
      /\ to = "poll" => mode[p] \notin Sleeps
      /\ Len(wc[p]) <= 1 /\ pc[p] = "parse" /\ mode[p] \in Stamps => to = "next_poll"
  <2>1. CASE Len(wc[p]) > 1
    BY <1>1, <2>1 DEF AfterParse
  <2>2. CASE ~ (Len(wc[p]) > 1) /\ pc[p] = "parse" /\ mode[p] \in Stamps
    BY <1>1, <2>2 DEF AfterParse
  <2>3. CASE ~ (Len(wc[p]) > 1) /\ ~ (pc[p] = "parse" /\ mode[p] \in Stamps)
    <3>1. to = LoopHead(p, s, r)
      BY <2>3 DEF AfterParse
    <3> QED  BY <1>b, <2>3, <3>1, LoopHeadType
  <2> QED  BY <2>1, <2>2, <2>3
<1>f. /\ Tail(wc[p]) \in Seq(CQE) /\ Len(Tail(wc[p])) = Len(wc[p]) - 1 /\ Len(wc[p]) \in Nat \ {0}
      /\ Single(Tail(wc[p]))
      /\ \A o : Has(Tail(wc[p]), o) <=> Has(wc[p], o) /\ o # op
  BY <1>1, TailHas
<1> HIDE DEF op, s, r, left, refill, answer, to
<1>3. /\ pc'[p] = to /\ scnt'[p] = s /\ rcnt'[p] = r /\ routs'[p] = left + refill
      /\ pending'[p] = (IF answer THEN {"SEND", "RECV"} ELSE pending[p] \ {op})
      /\ rq'[p] = rq[p] + refill /\ sq'[p] = (IF answer THEN "posted" ELSE sq[p])
      /\ sent'[p] = (IF answer THEN sent[p] + 1 ELSE sent[p])
      /\ wc'[p] = Tail(wc[p])
      /\ cq' = cq /\ qp' = qp /\ armed' = armed /\ events' = events /\ net' = net /\ got' = got
      /\ chan' = chan /\ transport' = transport /\ mode' = mode
  BY <1>t, <1>2 DEF TypeOK
<1>4. TypeOK'
  <2>1. pc' \in [Peers -> Labels]
    BY <1>t, <1>2, <1>e DEF TypeOK, Labels
  <2>2. scnt' \in [Peers -> 0..Iters] /\ rcnt' \in [Peers -> 0..Iters]
    BY <1>t, <1>2, <1>b DEF TypeOK
  <2>3. routs' \in [Peers -> 0..RxDepth] /\ rq' \in [Peers -> Nat]
    <3>1. left + refill \in 0..RxDepth /\ rq[p] + refill \in Nat
      BY <1>d, <1>n
    <3>2. routs \in [Peers -> 0..RxDepth] /\ rq \in [Peers -> Nat]
      BY <1>t DEF TypeOK
    <3> QED  BY <1>2, <3>1, <3>2
  <2>4. pending' \in [Peers -> SUBSET {"SEND", "RECV"}]
    BY <1>t, <1>2 DEF TypeOK
  <2>5. sq' \in [Peers -> {"idle", "posted", "acking"}]
    BY <1>t, <1>2 DEF TypeOK
  <2>6. sent' \in [Peers -> Nat]
    BY <1>t, <1>2, <1>n DEF TypeOK
  <2>7. wc' \in [Peers -> Seq(CQE)]
    BY <1>t, <1>2, <1>f DEF TypeOK
  <2> QED  BY <1>t, <1>2, <2>1, <2>2, <2>3, <2>4, <2>5, <2>6, <2>7 DEF TypeOK
<1>5. Same(q)
  BY <1>0, <1>t, <1>2 DEF TypeOK, Same, SameData
<1>6. /\ pc'[p] \in Looping /\ pc[p] \notin Ended /\ pc'[p] \notin Ended /\ pc'[p] \notin Before
  BY <1>2, <1>3, <1>e DEF Before, Looping, Ended
<1>7. Own(p)'
  <2>1. /\ sent[p] = scnt[p] + Bit("SEND" \in pending[p])
        /\ sent[p] + Bit("RECV" \notin pending[p]) = rcnt[p] + Bit(p = "client")
        /\ mode[p] \in Stamps => Len(wc[p]) <= 1
    BY <1>t, <1>1 DEF Own, Busy
  <2>2. Fresh(p)' /\ Left(p)'
    BY <1>6 DEF Fresh, Left
  <2>3. Busy(p)'
    <3>1. sent'[p] = scnt'[p] + Bit("SEND" \in pending'[p])
      BY <1>1, <1>3, <1>a, <1>b, <1>n, <2>1 DEF Bit
    <3>2. sent'[p] + Bit("RECV" \notin pending'[p]) = rcnt'[p] + Bit(p = "client")
      BY <1>1, <1>3, <1>a, <1>b, <1>n, <2>1 DEF Bit
    <3>3. wc'[p] # <<>> <=> pc'[p] \in {"parse", "parse_next"}
      <4>1. wc'[p] = <<>> <=> Len(wc'[p]) = 0
        BY <1>3, <1>f, EmptySeq
      <4>2. \A n \in Nat \ {0} : n > 1 <=> n - 1 # 0
        OBVIOUS
      <4>3. Len(wc[p]) > 1 <=> Len(wc'[p]) # 0
        BY <1>3, <1>f, <4>2
      <4>4. to \in {"parse", "parse_next"} <=> to = "parse"
        BY <1>e
      <4> QED  BY <1>3, <1>e, <4>1, <4>3, <4>4, Zenon
    <3>4. mode[p] \in Stamps => Len(wc'[p]) <= 1
      BY <1>3, <1>f, <2>1
    <3> QED  BY <1>3, <1>e, <3>1, <3>2, <3>3, <3>4 DEF Busy
  <2>4. Queues(p)'
    <3>1. Bit(sq[p] # "idle") + Bit(Has(cq[p], "SEND")) + Bit(Has(wc[p], "SEND"))
            = Bit("SEND" \in pending[p])
          /\ got[p] = rcnt[p] + Unseen(p) /\ routs[p] = rq[p] + Unseen(p)
      BY <1>t, <1>1, <1>2 DEF Own, Queues
    <3>2. Bit(sq'[p] # "idle") + Bit(Has(cq'[p], "SEND")) + Bit(Has(wc'[p], "SEND"))
            = Bit("SEND" \in pending'[p])
      <4>1. CASE op = "SEND"
        <5>1. ~ Has(cq'[p], "SEND") /\ ~ Has(wc'[p], "SEND")
          BY <1>1, <1>3, <1>f, <4>1
        <5>2. sq'[p] # "idle" <=> "SEND" \in pending'[p]
          BY <1>1, <1>3, <4>1
        <5> QED  BY <5>1, <5>2 DEF Bit
      <4>2. CASE op = "RECV"
        <5>1. Has(wc'[p], "SEND") <=> Has(wc[p], "SEND")
          BY <1>3, <1>f, <4>2
        <5>2. CASE answer
          <6>1. "SEND" \notin pending[p]
            BY <1>a, <4>2, <5>2
          <6>2. sq[p] = "idle" /\ ~ Has(cq[p], "SEND") /\ ~ Has(wc[p], "SEND")
            BY <3>1, <6>1 DEF Bit
          <6> QED  BY <1>3, <5>1, <5>2, <6>2 DEF Bit
        <5>3. CASE ~ answer
          BY <1>3, <3>1, <4>2, <5>1, <5>3 DEF Bit
        <5> QED  BY <5>2, <5>3
      <4> QED  BY <1>1, <4>1, <4>2
    <3>3. Unseen(p)' = IF op = "RECV" THEN 0 ELSE Unseen(p)
      BY <1>1, <1>3, <1>f DEF Unseen, Bit
    <3>4. op = "RECV" => Unseen(p) = 1
      BY <1>1 DEF Unseen, Bit
    <3>5. got'[p] = rcnt'[p] + Unseen(p)' /\ routs'[p] = rq'[p] + Unseen(p)'
      <4>1. Unseen(p) \in Nat
        BY <1>t, Numbers
      <4>2. CASE op = "RECV"
        <5>1. Unseen(p)' = 0 /\ Unseen(p) = 1
          BY <3>3, <3>4, <4>2
        <5>2. got'[p] = got[p] /\ rcnt'[p] = rcnt[p] + 1 /\ routs'[p] = (routs[p] - 1) + refill
              /\ rq'[p] = rq[p] + refill
          BY <1>3, <1>b, <4>2
        <5> QED  BY <1>n, <1>d, <3>1, <5>1, <5>2
      <4>3. CASE op = "SEND"
        <5>1. Unseen(p)' = Unseen(p)
          BY <3>3, <4>3
        <5>2. got'[p] = got[p] /\ rcnt'[p] = rcnt[p] /\ routs'[p] = routs[p] + 0 /\ rq'[p] = rq[p] + 0
          BY <1>3, <1>b, <4>3
        <5> QED  BY <1>n, <3>1, <4>1, <5>1, <5>2
      <4> QED  BY <1>1, <4>2, <4>3
    <3>6. routs'[p] >= 1 /\ qp'[p] # "none"
      BY <1>3, <1>c, <1>d
    <3> QED  BY <3>2, <3>5, <3>6, Zenon DEF Queues
  <2>5. Role(p)'
    <3>1. pc[p] \in AfterConnect(p) \ {"create_ah"} /\ pc'[p] \in AfterConnect(p) \ {"create_ah"}
      BY <1>1, <1>6 DEF AfterConnect, Looping
    <3> QED  BY <1>t, <1>3, <3>1 DEF Own, Role, AfterConnect
  <2>6. Awake(p)'
    <3>1. mode[p] \in Sleeps =>
            \/ events[p] > 0
            \/ /\ armed[p]
               /\ \/ cq[p] = <<>>
                  \/ pc[p] = "parse" /\ mode[p] \in Stamps /\ Len(cq[p]) <= 1
      BY <1>t, <1>1, <1>2 DEF Own, Awake
    <3>2. pc[p] = "parse" /\ mode[p] \in Stamps => to = "next_poll"
      BY <1>e, <2>1
    <3> QED  BY <1>3, <3>1, <3>2 DEF Awake
  <2>7. Single(cq[p])' /\ Single(wc[p])'
    BY <1>t, <1>3, <1>f DEF Own
  <2> QED  BY <2>2, <2>3, <2>4, <2>5, <2>6, <2>7 DEF Own
<1>8. Messages(p, q)'
  <2>1. CASE answer
    <3>1. sq[p] = "idle"
      <4>1. CASE op = "SEND"
        BY <1>1, <4>1
      <4>2. CASE op = "RECV"
        <5>1. "SEND" \notin pending[p]
          BY <1>a, <2>1, <4>2
        <5> QED  BY <1>t, <1>1, <5>1 DEF Own, Queues, Bit
      <4> QED  BY <1>1, <4>1, <4>2
    <3>2. net[q] \in Nat /\ net'[q] = net[q] /\ sq'[p] = "posted" /\ sent'[p] = sent[p] + 1
      BY <1>0, <1>t, <1>3, <2>1, Numbers
    <3>3. Coming(q)' = Coming(q) + 1
      BY <1>0, <3>1, <3>2 DEF Coming, Bit
    <3>4. sent[p] + 1 <= Iters
      <4>1. op = "SEND" => "SEND" \in pending[p]
        BY <1>1
      <4>2. op = "RECV" => "SEND" \notin pending[p]
        BY <1>a, <2>1
      <4>3. sent[p] = scnt[p] + Bit("SEND" \in pending[p])
        BY <1>t, <1>1 DEF Own, Busy
      <4> QED  BY <1>1, <1>a, <1>b, <1>n, <2>1, <4>1, <4>2, <4>3 DEF Bit
    <3>5. got[q] \in Nat /\ Coming(q) \in Nat /\ pc'[q] = pc[q] /\ got'[q] = got[q] /\ net'[p] = net[p]
          /\ qp'[p] = qp[p] /\ transport' = transport
      BY <1>0, <1>t, <1>3, <1>5, Numbers DEF Same
    <3> QED  BY <1>n, <1>t, <3>2, <3>3, <3>4, <3>5 DEF Messages
  <2>2. CASE ~ answer
    BY <1>0, <1>t, <1>3, <1>5, <2>2, MessagesFrame DEF Same
  <2> QED  BY <2>1, <2>2
<1>9. Addresses'
  <2>1. \A x \in Peers : x = p \/ x = q
    BY PeersType
  <2>2. sent'["client"] = sent["client"] \/ pc["client"] \in Looping \cup {"serve"}
    BY <1>1, <1>5, <2>1, PeersType DEF Same, SameData
  <2> QED  BY <1>t, <1>1, <1>3, <1>5, <1>6, <2>1, <2>2, AddressesFrame DEF Same
<1> QED  BY <1>0, <1>3, <1>4, <1>5, <1>6, <1>7, <1>8, <1>9, LocalStep

LEMMA QuitStep ==
  ASSUME MatchInv, NEW p \in Peers, Quit(p)
  PROVE  MatchInv'
<1> DEFINE q == Other(p)
<1>0. q \in Peers /\ q # p /\ Other(q) = p
  BY PeersType
<1>t. TypeOK /\ Own(p) /\ Messages(p, q) /\ Addresses
  BY DEF MatchInv
<1>n. /\ scnt[p] \in 0..Iters /\ rcnt[p] \in 0..Iters /\ Unseen(p) \in Nat /\ Coming(p) \in Nat /\ Coming(q) \in Nat
      /\ sent[p] \in Nat /\ got[p] \in Nat /\ Iters \in Nat \ {0} /\ got[q] \in Nat /\ sent[q] \in Nat
  BY <1>0, <1>t, LinkAssumption, Numbers DEF TypeOK
<1>1. PICK how \in {"ok", "failed"} : Exit(p, how) /\ (how = "ok" => pc[p] = "finish") /\ Live(p)
  BY DEF Quit, Live
<1>2. /\ pc'[p] = how /\ sq'[p] = "idle" /\ cq'[p] = <<>> /\ qp'[p] = "none" /\ rq'[p] = 0
      /\ pending' = pending /\ routs' = routs /\ scnt' = scnt /\ rcnt' = rcnt /\ wc' = wc
      /\ net' = net /\ got' = got /\ sent' = sent /\ chan' = chan
      /\ transport' = transport /\ mode' = mode
  BY <1>t, <1>1 DEF TypeOK, Exit, options, proc, wire
<1>3. TypeOK'
  <2>1. pc' \in [Peers -> Labels]
    BY <1>t, <1>1 DEF TypeOK, Exit, Labels
  <2>2. sock' \in [Peers -> {"none", "listening", "open", "closed"}] /\ qp' \in [Peers -> {"none", "init", "rts", "err"}]
    BY <1>t, <1>1 DEF TypeOK, Exit
  <2>3. rq' \in [Peers -> Nat] /\ sq' \in [Peers -> {"idle", "posted", "acking"}]
    BY <1>t, <1>1 DEF TypeOK, Exit
  <2>4. cq' \in [Peers -> Seq(CQE)]
    BY <1>t, <1>1, EmptySeq DEF TypeOK, Exit
  <2>5. events' \in [Peers -> Nat]
    BY <1>t, <1>1 DEF TypeOK, Exit
  <2>6. armed' \in [Peers -> BOOLEAN]
    BY <1>t, <1>1 DEF TypeOK, Exit
  <2> QED  BY <1>t, <1>1, <2>1, <2>2, <2>3, <2>4, <2>5, <2>6 DEF TypeOK, Exit, options, proc, wire
<1>4. Same(q)
  <2>1. q \in ah => q \in ah'
    BY <1>0 DEF Quit
  <2>2. /\ pc'[q] = pc[q] /\ qp'[q] = qp[q] /\ rq'[q] = rq[q] /\ sq'[q] = sq[q] /\ cq'[q] = cq[q]
        /\ armed'[q] = armed[q] /\ events'[q] = events[q]
    BY <1>0, <1>t, <1>1 DEF TypeOK, Exit
  <2> QED  BY <1>2, <2>1, <2>2 DEF Same, SameData
<1>5. pc'[p] \in Ended /\ pc'[p] \notin Before /\ pc'[p] \notin Looping /\ ~ Live(p)' /\ pc[p] \notin Ended
  BY <1>1, <1>2 DEF Ended, Before, Looping, Live
<1>6. Own(p)'
  <2>1. got[p] = rcnt[p] + Unseen(p)
    BY <1>t, <1>1 DEF Own, Queues
  <2>2. sent[p] <= rcnt[p] + Bit(p = "client")
    <3>1. CASE pc[p] \in Before
      BY <1>t, <3>1 DEF Own, Fresh, Bit
    <3>2. CASE pc[p] \in Looping
      BY <1>t, <1>n, <3>2 DEF Own, Busy, Bit
    <3> QED  BY <1>t, <1>5, <3>1, <3>2, LabelsType DEF TypeOK
  <2>3. how = "ok" => sent[p] = Iters /\ got[p] = Iters
    <3> SUFFICES ASSUME how = "ok"  PROVE sent[p] = Iters /\ got[p] = Iters
      OBVIOUS
    <3>1. scnt[p] = Iters /\ rcnt[p] = Iters /\ sent[p] = scnt[p] + Bit("SEND" \in pending[p])
      BY <1>t, <1>1 DEF Own, Busy, Looping
    <3>2. sent[p] <= Iters /\ got[p] + Coming(p) <= sent[q] /\ sent[q] <= Iters
      BY <1>0 DEF MatchInv, Messages
    <3> QED  BY <1>n, <2>1, <3>1, <3>2 DEF Bit
  <2>4. Left(p)'
    BY <1>2, <1>n, <2>1, <2>2, <2>3 DEF Left
  <2>5. Fresh(p)' /\ Busy(p)' /\ Queues(p)' /\ Awake(p)'
    BY <1>5 DEF Fresh, Busy, Queues, Awake
  <2>6. Role(p)'
    <3>1. pc'[p] \notin AfterConnect(p)
      BY <1>2, <1>1 DEF AfterConnect, Looping
    <3> QED  BY <3>1 DEF Role, AfterConnect
  <2>7. Single(cq[p])' /\ Single(wc[p])'
    BY <1>t, <1>2, EmptyQueue DEF Own
  <2> QED  BY <2>4, <2>5, <2>6, <2>7 DEF Own
<1>7. Messages(p, q)'
  <2>1. Coming(q)' <= Coming(q) /\ Coming(q)' \in Nat
    <3>1. net'[q] = net[q] /\ net[q] \in Nat /\ sq'[p] = "idle"
      BY <1>0, <1>2, <1>t, Numbers
    <3> QED  BY <1>0, <3>1 DEF Coming, Bit
  <2> QED  BY <1>n, <1>t, <1>2, <2>1 DEF Messages
<1>8. Addresses'
  <2>1. \A x \in Peers : x = p \/ x = q
    BY PeersType
  <2> QED  BY <1>t, <1>2, <1>4, <1>5, <2>1, AddressesFrame DEF Same
<1> QED  BY <1>0, <1>2, <1>3, <1>4, <1>5, <1>6, <1>7, <1>8, LocalStep

-----------------------------------------------------------------------------
(* The steps of the adapters.                                              *)

\* A completion c comes to the queue of p.
Completing(p, c) ==
  /\ transport' = transport /\ mode' = mode /\ ah' = ah
  /\ pc' = pc /\ pending' = pending /\ routs' = routs /\ scnt' = scnt /\ rcnt' = rcnt
  /\ wc' = wc /\ sent' = sent
  /\ Completed(p, c)

LEMMA CompletedType ==
  ASSUME TypeOK, NEW p \in Peers, NEW c \in CQE, Completed(p, c)
  PROVE  /\ cq' \in [Peers -> Seq(CQE)] /\ armed' \in [Peers -> BOOLEAN] /\ events' \in [Peers -> Nat]
         /\ cq'[p] = Append(cq[p], c) /\ armed'[p] = FALSE
         /\ events'[p] = IF armed[p] THEN events[p] + 1 ELSE events[p]
         /\ \A q \in Peers : q # p => cq'[q] = cq[q] /\ armed'[q] = armed[q] /\ events'[q] = events[q]
<1>1. cq \in [Peers -> Seq(CQE)] /\ Append(cq[p], c) \in Seq(CQE)
  BY DEF TypeOK
<1>2. cq' \in [Peers -> Seq(CQE)] /\ cq'[p] = Append(cq[p], c)
  BY <1>1 DEF Completed
<1>3. armed' \in [Peers -> BOOLEAN] /\ armed'[p] = FALSE
  BY DEF TypeOK, Completed
<1>4. events' \in [Peers -> Nat] /\ events'[p] = IF armed[p] THEN events[p] + 1 ELSE events[p]
  BY DEF TypeOK, Completed
<1>5. \A q \in Peers : q # p => cq'[q] = cq[q] /\ armed'[q] = armed[q] /\ events'[q] = events[q]
  BY DEF TypeOK, Completed
<1> QED  BY <1>2, <1>3, <1>4, <1>5

\* The process is as before, and its books are right again.
LEMMA CompletedOwn ==
  ASSUME TypeOK, NEW p \in Peers, Own(p), Live(p), pc[p] # "start",
         NEW c \in CQE, ~ Has(cq[p], c.op), Completing(p, c),
         qp'[p] = qp[p] \/ qp'[p] = "err",
         c.op = "SEND" => sq[p] # "idle" /\ sq'[p] = "idle" /\ rq'[p] = rq[p] /\ got'[p] = got[p],
         c.op = "RECV" => sq'[p] = sq[p] /\ rq[p] > 0 /\ rq'[p] = rq[p] - 1 /\ got'[p] = got[p] + 1
                          /\ Unseen(p) = 0
  PROVE  Own(p)'
<1>1. /\ cq'[p] = Append(cq[p], c) /\ armed'[p] = FALSE
      /\ events'[p] = IF armed[p] THEN events[p] + 1 ELSE events[p]
  BY CompletedType DEF Completing
<1>2. cq[p] \in Seq(CQE) /\ events[p] \in Nat /\ rq[p] \in Nat /\ routs[p] \in Nat /\ rcnt[p] \in Nat
      /\ got[p] \in Nat
  BY Numbers DEF TypeOK
<1>3. c.op \in {"SEND", "RECV"}
  BY DEF CQE
<1>4. /\ Single(cq'[p])
      /\ \A op : Has(cq'[p], op) <=> Has(cq[p], op) \/ op = c.op
  BY <1>1, <1>2, AppendHas DEF Own
<1>5. /\ transport' = transport /\ mode' = mode /\ ah' = ah
      /\ pc' = pc /\ pending' = pending /\ routs' = routs /\ scnt' = scnt /\ rcnt' = rcnt
      /\ wc' = wc /\ sent' = sent /\ Live(p)' /\ pc[p] \notin Ended
  BY LabelsType DEF Completing, Live
<1>6. Fresh(p)'
  BY <1>5 DEF Own, Fresh
<1>7. Busy(p)' /\ Left(p)'
  BY <1>5 DEF Own, Busy, Left
<1>8. Queues(p)'
  <2>1. Bit(sq[p] # "idle") + Bit(Has(cq[p], "SEND")) + Bit(Has(wc[p], "SEND"))
          = Bit("SEND" \in pending[p])
        /\ got[p] = rcnt[p] + Unseen(p) /\ routs[p] = rq[p] + Unseen(p)
        /\ routs[p] >= 1 /\ qp[p] # "none"
    BY DEF Own, Queues
  <2>2. Bit(sq'[p] # "idle") + Bit(Has(cq'[p], "SEND")) + Bit(Has(wc'[p], "SEND"))
          = Bit("SEND" \in pending'[p])
    BY <1>3, <1>4, <1>5, <2>1 DEF Bit
  <2>3. Unseen(p)' = IF c.op = "RECV" THEN 1 ELSE Unseen(p)
    <3>1. Has(wc'[p], "RECV") <=> Has(wc[p], "RECV")
      BY <1>5
    <3>2. Has(cq'[p], "RECV") <=> Has(cq[p], "RECV") \/ c.op = "RECV"
      BY <1>4
    <3> QED  BY <3>1, <3>2 DEF Unseen, Bit
  <2>4. got'[p] = rcnt'[p] + Unseen(p)' /\ routs'[p] = rq'[p] + Unseen(p)'
    <3>1. CASE c.op = "SEND"
      BY <1>5, <2>1, <2>3, <3>1
    <3>2. CASE c.op = "RECV"
      BY <1>2, <1>5, <2>1, <2>3, <3>2
    <3> QED  BY <1>3, <3>1, <3>2
  <2> QED  BY <1>5, <2>1, <2>2, <2>4 DEF Queues
<1>9. Role(p)'
  BY <1>5 DEF Own, Role, AfterConnect
<1>10. Awake(p)'
  BY <1>1, <1>2, <1>5 DEF Own, Awake
<1> QED  BY <1>4, <1>5, <1>6, <1>7, <1>8, <1>9, <1>10 DEF Own

\* A step of the adapters: the processes, their calls and their connection are
\* as they were.
LEMMA WireStep ==
  ASSUME MatchInv, NEW p \in Peers, NEW q \in Peers, q = Other(p),
         TypeOK', pc' = pc, chan' = chan, sent' = sent,
         Own(p)', Own(q)', Messages(p, q)', Messages(q, p)'
  PROVE  MatchInv'
<1>1. Other(q) = p /\ \A x \in Peers : x = p \/ x = q
  BY PeersType
<1>2. Addresses'
  BY AddressesFrame DEF MatchInv
<1>3. Messages(p, Other(p))' /\ Messages(q, Other(q))'
  BY <1>1
<1> QED  BY <1>1, <1>2, <1>3 DEF MatchInv

SendDone(ok) == [op |-> "SEND", ok |-> ok]
Received == [op |-> "RECV", ok |-> TRUE]

LEMMA CompletionType ==
  /\ \A ok \in BOOLEAN : SendDone(ok) \in CQE /\ SendDone(ok).op = "SEND"
  /\ Received \in CQE /\ Received.op = "RECV"
BY CqeType DEF SendDone, Received

LEMMA TransmitStep ==
  ASSUME MatchInv, NEW p \in Peers, transport # "rc", Transmit(p), UNCHANGED ah
  PROVE  MatchInv'
<1> DEFINE q == Other(p)
<1>0. q \in Peers /\ q # p /\ Other(q) = p
  BY PeersType
<1>t. TypeOK /\ Own(p) /\ Own(q) /\ Messages(p, q) /\ Messages(q, p)
  BY <1>0 DEF MatchInv
<1>1. /\ sq[p] = "posted" /\ sq' = [sq EXCEPT ![p] = "idle"] /\ net' = [net EXCEPT ![q] = @ + 1]
      /\ Completed(p, SendDone(TRUE)) /\ Completing(p, SendDone(TRUE))
      /\ qp' = qp /\ rq' = rq /\ got' = got /\ sent' = sent /\ chan' = chan /\ pc' = pc
      /\ transport' = transport
      /\ UNCHANGED <<transport, faults, mode, pc, pending, routs, scnt, rcnt, wc, sock, chan, qp, rq, lost, sent, got>>
  BY DEF Transmit, SendDone, Completing, program, options, proc, tcp
<1>2. /\ cq' \in [Peers -> Seq(CQE)] /\ armed' \in [Peers -> BOOLEAN] /\ events' \in [Peers -> Nat]
      /\ cq'[q] = cq[q] /\ armed'[q] = armed[q] /\ events'[q] = events[q]
  BY <1>0, <1>1, <1>t, CompletedType, CompletionType
<1>3. sq'[p] = "idle" /\ sq'[q] = sq[q] /\ net'[q] = net[q] + 1 /\ net'[p] = net[p] /\ net[q] \in Nat
  BY <1>0, <1>1, <1>t DEF TypeOK
<1>4. TypeOK'
  <2>1. sq' \in [Peers -> {"idle", "posted", "acking"}] /\ net' \in [Peers -> Nat]
    <3>1. net[q] + 1 \in Nat
      BY <1>3
    <3>3. net \in [Peers -> Nat]
      BY <1>t DEF TypeOK
    <3>2. sq \in [Peers -> {"idle", "posted", "acking"}]
      BY <1>t DEF TypeOK
    <3> QED  BY <1>0, <1>1, <3>1, <3>2, <3>3
  <2> QED  BY <1>1, <1>2, <1>t, <2>1 DEF TypeOK
<1>5. Own(p)'
  <2>1. pc[p] \in Looping /\ ~ Has(cq[p], "SEND")
    BY <1>1, Sending
  <2>2. Live(p) /\ pc[p] # "start"
    BY <2>1 DEF Looping, Live
  <2> QED  BY <1>1, <1>3, <1>t, <2>1, <2>2, CompletedOwn, CompletionType
<1>6. Own(q)'
  BY <1>0, <1>1, <1>2, <1>3, <1>t, OwnFrame DEF Same, SameData
<1>7. Messages(p, q)'
  <2>1. Coming(q)' = Coming(q)
    BY <1>0, <1>1, <1>3 DEF Coming, Bit
  <2> QED  BY <1>1, <1>3, <1>t, <2>1 DEF Messages
<1>8. Messages(q, p)'
  <2>1. Coming(p)' = Coming(p)
    BY <1>0, <1>3 DEF Coming
  <2> QED  BY <1>1, <1>3, <1>t, <2>1 DEF Messages
<1> QED  BY <1>0, <1>1, <1>4, <1>5, <1>6, <1>7, <1>8, WireStep

LEMMA ArriveStep ==
  ASSUME MatchInv, NEW p \in Peers, transport # "rc", Arrive(p), UNCHANGED ah
  PROVE  MatchInv'
<1> DEFINE q == Other(p)
<1>0. q \in Peers /\ q # p /\ Other(q) = p
  BY PeersType
<1>t. TypeOK /\ Own(p) /\ Own(q) /\ Messages(p, q) /\ Messages(q, p)
  BY <1>0 DEF MatchInv
<1>1. /\ net[p] > 0 /\ net' = [net EXCEPT ![p] = @ - 1]
      /\ UNCHANGED <<transport, faults, mode, pc, pending, routs, scnt, rcnt, wc, sock, chan, qp, sq, lost, sent>>
      /\ IF Ready(p) THEN Landed(p) ELSE UNCHANGED <<rq, cq, armed, events, got>>
  BY DEF Arrive, program, options, proc, tcp
<1>n. net[p] \in Nat /\ net[q] \in Nat /\ got[p] \in Nat /\ sent[q] \in Nat /\ rq[p] \in Nat
  BY <1>0, <1>t, Numbers
<1>2. net'[p] = net[p] - 1 /\ net'[q] = net[q] /\ net' \in [Peers -> Nat]
  <2>1. net[p] - 1 \in Nat
    BY <1>1, <1>n
  <2>2. net \in [Peers -> Nat]
    BY <1>t DEF TypeOK
  <2> QED  BY <1>0, <1>1, <2>1, <2>2
<1>3. Coming(p) > 0 /\ Coming(p)' = Coming(p) - 1 /\ Coming(q)' = Coming(q)
  BY <1>0, <1>1, <1>2, <1>n DEF Coming, Bit
<1>4. CASE Ready(p)
  <2>1. /\ rq' = [rq EXCEPT ![p] = @ - 1] /\ got' = [got EXCEPT ![p] = @ + 1]
        /\ Completed(p, Received) /\ Completing(p, Received)
    BY <1>1, <1>4 DEF Landed, Received, Completing
  <2>2. /\ cq' \in [Peers -> Seq(CQE)] /\ armed' \in [Peers -> BOOLEAN] /\ events' \in [Peers -> Nat]
        /\ cq'[q] = cq[q] /\ armed'[q] = armed[q] /\ events'[q] = events[q]
    BY <1>0, <2>1, <1>t, CompletedType, CompletionType
  <2>3. Live(p) /\ rq[p] > 0 /\ Unseen(p) = 0 /\ pc[p] # "start"
    BY <1>3, <1>4, Landing DEF Ready, AfterConnect, Looping
  <2>4. /\ rq'[p] = rq[p] - 1 /\ rq'[q] = rq[q] /\ got'[p] = got[p] + 1 /\ got'[q] = got[q]
        /\ rq' \in [Peers -> Nat] /\ got' \in [Peers -> Nat]
    <3>1. rq[p] - 1 \in Nat /\ got[p] + 1 \in Nat
      BY <1>n, <2>3
    <3>2. rq \in [Peers -> Nat] /\ got \in [Peers -> Nat]
      BY <1>t DEF TypeOK
    <3> QED  BY <1>0, <2>1, <3>1, <3>2
  <2>5. TypeOK'
    BY <1>1, <1>2, <1>t, <2>2, <2>4 DEF TypeOK
  <2>6. Own(p)'
    <3>1. ~ Has(cq[p], "RECV")
      BY <2>3 DEF Unseen, Bit
    <3> QED  BY <1>1, <1>t, <2>1, <2>3, <2>4, <3>1, CompletedOwn, CompletionType
  <2>7. Own(q)'
    BY <1>0, <1>1, <1>t, <2>2, <2>4, OwnFrame DEF Same, SameData
  <2>8. Messages(p, q)'
    BY <1>1, <1>2, <1>3, <1>t, <2>4 DEF Messages
  <2>9. Messages(q, p)'
    <3>1. Coming(p) \in Nat
      BY <1>t, Numbers
    <3> QED  BY <1>1, <1>2, <1>3, <1>n, <1>t, <2>4, <3>1 DEF Messages
  <2> QED  BY <1>0, <1>1, <2>5, <2>6, <2>7, <2>8, <2>9, WireStep
<1>5. CASE ~ Ready(p)
  <2>1. rq' = rq /\ cq' = cq /\ armed' = armed /\ events' = events /\ got' = got
    BY <1>1, <1>5
  <2>2. TypeOK'
    BY <1>1, <1>2, <1>t, <2>1 DEF TypeOK
  <2>3. Own(p)' /\ Own(q)'
    BY <1>0, <1>1, <1>t, <2>1, OwnFrame DEF Same, SameData
  <2>4. Messages(p, q)'
    BY <1>1, <1>2, <1>3, <1>t, <2>1 DEF Messages
  <2>5. Messages(q, p)'
    <3>1. Coming(p) \in Nat
      BY <1>t, Numbers
    <3> QED  BY <1>1, <1>2, <1>3, <1>n, <1>t, <2>1, <3>1 DEF Messages
  <2> QED  BY <1>0, <1>1, <2>2, <2>3, <2>4, <2>5, WireStep
<1> QED  BY <1>4, <1>5

LEMMA LoseStep ==
  ASSUME MatchInv, NEW p \in Peers, transport # "rc", Lose(p), UNCHANGED ah
  PROVE  MatchInv'
<1> DEFINE q == Other(p)
<1>0. q \in Peers /\ q # p /\ Other(q) = p
  BY PeersType
<1>t. TypeOK /\ Own(p) /\ Own(q) /\ Messages(p, q) /\ Messages(q, p)
  BY <1>0 DEF MatchInv
<1>1. /\ net[p] > 0 /\ net' = [net EXCEPT ![p] = @ - 1] /\ lost' = TRUE
      /\ UNCHANGED <<transport, faults, mode, pc, pending, routs, scnt, rcnt, wc, sock, chan,
                     qp, rq, sq, cq, armed, events, sent, got>>
  BY DEF Lose, program, options, proc, tcp, nic
<1>n. net[p] \in Nat /\ net[q] \in Nat /\ got[p] \in Nat /\ sent[q] \in Nat /\ Coming(p) \in Nat
  BY <1>0, <1>t, Numbers
<1>2. net'[p] = net[p] - 1 /\ net'[q] = net[q] /\ net' \in [Peers -> Nat]
  <2>1. net[p] - 1 \in Nat
    BY <1>1, <1>n
  <2>2. net \in [Peers -> Nat]
    BY <1>t DEF TypeOK
  <2> QED  BY <1>0, <1>1, <2>1, <2>2
<1>3. Coming(p)' = Coming(p) - 1 /\ Coming(q)' = Coming(q)
  BY <1>0, <1>1, <1>2, <1>n DEF Coming, Bit
<1>4. TypeOK'
  BY <1>1, <1>2, <1>t DEF TypeOK
<1>5. Own(p)' /\ Own(q)'
  BY <1>0, <1>1, <1>t, OwnFrame DEF Same, SameData
<1>6. Messages(p, q)' /\ Messages(q, p)'
  BY <1>1, <1>2, <1>3, <1>n, <1>t DEF Messages
<1> QED  BY <1>0, <1>1, <1>4, <1>5, <1>6, WireStep

LEMMA DeliverStep ==
  ASSUME MatchInv, NEW p \in Peers, transport = "rc", Rc!Deliver(p), UNCHANGED ah
  PROVE  MatchInv'
<1> DEFINE q == Other(p)
<1>0. q \in Peers /\ q # p /\ Other(q) = p
  BY PeersType
<1>t. TypeOK /\ Own(p) /\ Own(q) /\ Messages(p, q) /\ Messages(q, p)
  BY <1>0 DEF MatchInv
<1>1. /\ sq[p] = "posted" /\ sq' = [sq EXCEPT ![p] = "acking"]
      /\ rq' = [rq EXCEPT ![q] = @ - 1] /\ got' = [got EXCEPT ![q] = @ + 1]
      /\ Completed(q, Received) /\ Completing(q, Received) /\ Ready(q)
      /\ UNCHANGED <<transport, faults, mode, pc, pending, routs, scnt, rcnt, wc, sock, chan, qp, net, lost, sent>>
  BY DEF Rc!Deliver, Rc!Ready, Ready, Rc!Landed, Rc!Completed, Completed, Received, Completing,
         Rc!program, Rc!options, Rc!proc, Rc!tcp, Rc!wire, Other, Rc!Other
<1>n. /\ net[q] \in Nat /\ got[q] \in Nat /\ sent[p] \in Nat /\ rq[q] \in Nat /\ Coming(q) \in Nat
      /\ rq \in [Peers -> Nat] /\ got \in [Peers -> Nat] /\ sq \in [Peers -> {"idle", "posted", "acking"}]
  BY <1>0, <1>t, Numbers DEF TypeOK
<1>2. Coming(q) > 0
  BY <1>0, <1>1, <1>n DEF Coming, Bit
<1>3. Live(q) /\ Ready(q) /\ rq[q] > 0 /\ Unseen(q) = 0 /\ pc[q] # "start"
  BY <1>0, <1>1, <1>2, Landing DEF Ready, AfterConnect, Looping
<1>4. /\ rq'[q] = rq[q] - 1 /\ rq'[p] = rq[p] /\ got'[q] = got[q] + 1 /\ got'[p] = got[p]
      /\ rq' \in [Peers -> Nat] /\ got' \in [Peers -> Nat]
      /\ sq'[p] = "acking" /\ sq'[q] = sq[q] /\ sq' \in [Peers -> {"idle", "posted", "acking"}]
  <2>1. rq[q] - 1 \in Nat /\ got[q] + 1 \in Nat
    BY <1>n, <1>3
  <2> QED  BY <1>0, <1>1, <1>n, <2>1
<1>5. /\ cq' \in [Peers -> Seq(CQE)] /\ armed' \in [Peers -> BOOLEAN] /\ events' \in [Peers -> Nat]
      /\ cq'[p] = cq[p] /\ armed'[p] = armed[p] /\ events'[p] = events[p]
  BY <1>0, <1>1, <1>t, CompletedType, CompletionType
<1>6. TypeOK'
  BY <1>1, <1>t, <1>4, <1>5 DEF TypeOK
<1>7. Own(q)'
  <2>1. ~ Has(cq[q], "RECV")
    BY <1>3 DEF Unseen, Bit
  <2> QED  BY <1>0, <1>1, <1>t, <1>3, <1>4, <2>1, CompletedOwn, CompletionType
<1>8. Own(p)'
  <2>1. pc[p] \in Looping
    BY <1>1, Sending
  <2>2. /\ transport' = transport /\ mode'[p] = mode[p] /\ pc'[p] = pc[p] /\ pending'[p] = pending[p] /\ routs'[p] = routs[p]
        /\ scnt'[p] = scnt[p] /\ rcnt'[p] = rcnt[p] /\ wc'[p] = wc[p] /\ qp'[p] = qp[p]
        /\ sent'[p] = sent[p] /\ Live(p)' = Live(p)
    BY <1>1 DEF Live
  <2> USE <1>1, <1>4, <1>5, <1>t, <2>1, <2>2 DEF Own
  <2>3. Fresh(p)' /\ Left(p)'
    BY DEF Fresh, Left, Before, Looping, Ended
  <2>4. Busy(p)'
    BY DEF Busy
  <2>5. Queues(p)'
    BY DEF Queues, Unseen, Bit
  <2>6. Role(p)'
    BY DEF Role, AfterConnect
  <2>7. Awake(p)'
    BY DEF Awake
  <2>8. Single(cq[p])' /\ Single(wc[p])'
    BY DEF Single
  <2> QED  BY <2>3, <2>4, <2>5, <2>6, <2>7, <2>8
<1>9. Messages(p, q)'
  <2>1. Coming(q)' = Coming(q) - 1
    BY <1>0, <1>1, <1>4, <1>n DEF Coming, Bit
  <2> QED  BY <1>1, <1>4, <1>n, <1>t, <2>1 DEF Messages
<1>10. Messages(q, p)'
  <2>1. Coming(p)' = Coming(p)
    BY <1>0, <1>1, <1>4 DEF Coming
  <2> QED  BY <1>1, <1>4, <1>t, <2>1 DEF Messages
<1> QED  BY <1>0, <1>1, <1>6, <1>7, <1>8, <1>9, <1>10, WireStep

LEMMA AcknowledgeStep ==
  ASSUME MatchInv, NEW p \in Peers, transport = "rc", Rc!Acknowledge(p), UNCHANGED ah
  PROVE  MatchInv'
<1> DEFINE q == Other(p)
<1>0. q \in Peers /\ q # p /\ Other(q) = p
  BY PeersType
<1>t. TypeOK /\ Own(p) /\ Own(q) /\ Messages(p, q) /\ Messages(q, p)
  BY <1>0 DEF MatchInv
<1>1. /\ sq[p] = "acking" /\ sq' = [sq EXCEPT ![p] = "idle"]
      /\ Completed(p, SendDone(TRUE)) /\ Completing(p, SendDone(TRUE))
      /\ UNCHANGED <<transport, faults, mode, pc, pending, routs, scnt, rcnt, wc, sock, chan, qp, rq,
                     net, lost, sent, got>>
  BY DEF Rc!Acknowledge, Rc!Completed, Completed, SendDone, Completing,
         Rc!program, Rc!options, Rc!proc, Rc!tcp, Rc!wire
<1>2. /\ cq' \in [Peers -> Seq(CQE)] /\ armed' \in [Peers -> BOOLEAN] /\ events' \in [Peers -> Nat]
      /\ cq'[q] = cq[q] /\ armed'[q] = armed[q] /\ events'[q] = events[q]
  BY <1>0, <1>1, <1>t, CompletedType, CompletionType
<1>3. sq'[p] = "idle" /\ sq'[q] = sq[q] /\ sq' \in [Peers -> {"idle", "posted", "acking"}]
  BY <1>0, <1>1, <1>t DEF TypeOK
<1>4. TypeOK'
  BY <1>1, <1>2, <1>3, <1>t DEF TypeOK
<1>5. Own(p)'
  <2>1. pc[p] \in Looping /\ ~ Has(cq[p], "SEND")
    BY <1>1, Sending
  <2>2. Live(p) /\ pc[p] # "start"
    BY <2>1 DEF Looping, Live
  <2> QED  BY <1>1, <1>3, <1>t, <2>1, <2>2, CompletedOwn, CompletionType
<1>6. Own(q)'
  BY <1>0, <1>1, <1>2, <1>3, <1>t, OwnFrame DEF Same, SameData
<1>7. Messages(p, q)'
  <2>1. Coming(q)' = Coming(q)
    BY <1>0, <1>1, <1>3 DEF Coming, Bit
  <2> QED  BY <1>1, <1>3, <1>t, <2>1 DEF Messages
<1>8. Messages(q, p)'
  <2>1. Coming(p)' = Coming(p)
    BY <1>0, <1>1, <1>3 DEF Coming
  <2> QED  BY <1>1, <1>3, <1>t, <2>1 DEF Messages
<1> QED  BY <1>0, <1>1, <1>4, <1>5, <1>6, <1>7, <1>8, WireStep

LEMMA RetryExceededStep ==
  ASSUME MatchInv, NEW p \in Peers, transport = "rc", Rc!RetryExceeded(p), UNCHANGED ah
  PROVE  MatchInv'
<1> DEFINE q == Other(p)
<1>0. q \in Peers /\ q # p /\ Other(q) = p
  BY PeersType
<1>t. TypeOK /\ Own(p) /\ Own(q) /\ Messages(p, q) /\ Messages(q, p)
  BY <1>0 DEF MatchInv
<1>1. /\ sq[p] = "posted" \/ (sq[p] = "acking" /\ qp[q] = "none")
      /\ sq' = [sq EXCEPT ![p] = "idle"] /\ qp' = [qp EXCEPT ![p] = "err"]
      /\ Completed(p, SendDone(FALSE)) /\ Completing(p, SendDone(FALSE))
      /\ UNCHANGED <<transport, faults, mode, pc, pending, routs, scnt, rcnt, wc, sock, chan, rq,
                     net, lost, sent, got>>
  BY DEF Rc!RetryExceeded, Rc!Completed, Completed, SendDone, Completing, Rc!Other, Other,
         Rc!program, Rc!options, Rc!proc, Rc!tcp, Rc!wire
<1>n. net[q] \in Nat /\ got[q] \in Nat /\ sent[p] \in Nat /\ Coming(q) \in Nat
  BY <1>0, <1>t, Numbers DEF TypeOK
<1>2. /\ cq' \in [Peers -> Seq(CQE)] /\ armed' \in [Peers -> BOOLEAN] /\ events' \in [Peers -> Nat]
      /\ cq'[q] = cq[q] /\ armed'[q] = armed[q] /\ events'[q] = events[q]
  BY <1>0, <1>1, <1>t, CompletedType, CompletionType
<1>3. /\ sq'[p] = "idle" /\ sq'[q] = sq[q] /\ sq' \in [Peers -> {"idle", "posted", "acking"}]
      /\ qp'[p] = "err" /\ qp'[q] = qp[q] /\ qp' \in [Peers -> {"none", "init", "rts", "err"}]
  BY <1>0, <1>1, <1>t DEF TypeOK
<1>4. TypeOK'
  BY <1>1, <1>2, <1>3, <1>t DEF TypeOK
<1>5. Own(p)'
  <2>1. pc[p] \in Looping /\ ~ Has(cq[p], "SEND")
    BY <1>1, Sending
  <2>2. Live(p) /\ pc[p] # "start"
    BY <2>1 DEF Looping, Live
  <2> QED  BY <1>1, <1>3, <1>t, <2>1, <2>2, CompletedOwn, CompletionType
<1>6. Own(q)'
  BY <1>0, <1>1, <1>2, <1>3, <1>t, OwnFrame DEF Same, SameData
<1>7. Messages(p, q)'
  <2>1. CASE sq[p] = "posted"
    <3>1. Coming(q)' = Coming(q) - 1
      BY <1>0, <1>1, <1>3, <1>n, <2>1 DEF Coming, Bit
    <3> QED  BY <1>1, <1>3, <1>n, <1>t, <3>1 DEF Messages
  <2>2. CASE sq[p] = "acking" /\ qp[q] = "none"
    <3>1. Coming(q)' = Coming(q)
      BY <1>0, <1>1, <1>3, <2>2 DEF Coming, Bit
    <3>2. got[q] > 0
      BY <1>t, <2>2 DEF Messages
    <3>3. pc[q] \in Ended
      <4> SUFFICES ASSUME pc[q] \notin Ended  PROVE FALSE
        OBVIOUS
      <4>1. pc[q] = "start" /\ got[q] = rcnt[q] + Unseen(q)
        BY <1>t, <2>2, LabelsType DEF Own, Queues
      <4>2. rcnt[q] = 0 /\ cq[q] = <<>> /\ wc[q] = <<>>
        BY <1>t, <4>1 DEF Own, Fresh, Before
      <4>3. Unseen(q) = 0
        BY <4>2, EmptyQueue DEF Unseen, Bit
      <4> QED  BY <3>2, <4>1, <4>2, <4>3
    <3> QED  BY <1>1, <1>3, <1>t, <3>1, <3>3 DEF Messages
  <2> QED  BY <1>1, <2>1, <2>2
<1>8. Messages(q, p)'
  <2>1. Coming(p)' = Coming(p)
    BY <1>0, <1>1, <1>3 DEF Coming
  <2> QED  BY <1>1, <1>3, <1>t, <2>1 DEF Messages
<1> QED  BY <1>0, <1>1, <1>4, <1>5, <1>6, <1>7, <1>8, WireStep

-----------------------------------------------------------------------------
(* The theorems.                                                           *)

LEMMA MatchInit == PpInit => MatchInv
<1> SUFFICES ASSUME PpInit  PROVE MatchInv
  OBVIOUS
<1>1. /\ \A p \in Peers : /\ pc[p] = "start" /\ pending[p] = {} /\ wc[p] = <<>> /\ cq[p] = <<>>
                          /\ routs[p] = 0 /\ scnt[p] = 0 /\ rcnt[p] = 0 /\ rq[p] = 0
                          /\ qp[p] = "none" /\ sq[p] = "idle" /\ net[p] = 0
                          /\ sent[p] = 0 /\ got[p] = 0 /\ chan[p] = <<>>
      /\ lost = FALSE
  BY DEF PpInit, Init, Zero
<1>2. TypeOK
  <2>1. transport \in Transports /\ faults \subseteq Faults /\ mode \in [Peers -> Modes]
    BY DEF PpInit, Init, InitOptions
  <2>2. pc \in [Peers -> Labels] /\ pending \in [Peers -> SUBSET {"SEND", "RECV"}]
        /\ sock \in [Peers -> {"none", "listening", "open", "closed"}]
        /\ qp \in [Peers -> {"none", "init", "rts", "err"}]
        /\ sq \in [Peers -> {"idle", "posted", "acking"}]
    BY DEF PpInit, Init, Labels
  <2>3. routs \in [Peers -> 0..RxDepth] /\ scnt \in [Peers -> 0..Iters] /\ rcnt \in [Peers -> 0..Iters]
        /\ rq \in [Peers -> Nat] /\ events \in [Peers -> Nat] /\ net \in [Peers -> Nat]
        /\ sent \in [Peers -> Nat] /\ got \in [Peers -> Nat]
    BY LinkAssumption DEF PpInit, Init, Zero
  <2>4. wc \in [Peers -> Seq(CQE)] /\ cq \in [Peers -> Seq(CQE)] /\ chan \in [Peers -> Seq({"addr", "done"})]
    BY EmptySeq DEF PpInit, Init
  <2>5. armed \in [Peers -> BOOLEAN] /\ lost \in BOOLEAN
    BY DEF PpInit, Init
  <2> QED  BY <2>1, <2>2, <2>3, <2>4, <2>5 DEF TypeOK
<1>3. ASSUME NEW p \in Peers  PROVE Own(p) /\ Messages(p, Other(p))
  <2>0. /\ pc[p] \in Before /\ pc[p] \notin Looping /\ pc[p] \notin Ended
        /\ \A op : ~ Has(cq[p], op) /\ ~ Has(wc[p], op)
        /\ Other(p) \in Peers /\ Other(Other(p)) = p
    BY <1>1, <1>3, EmptyQueue, PeersType DEF Before, Looping, Ended
  <2>1. Fresh(p) /\ Busy(p) /\ Left(p)
    BY <1>1, <1>3, <2>0 DEF Fresh, Busy, Left
  <2>2. Queues(p)
    BY <1>1, <1>3, <2>0 DEF Queues, Unseen, Bit
  <2>3. Role(p) /\ Awake(p)
    BY <1>1, <1>3, <2>0 DEF Role, Awake, AfterConnect
  <2>4. Messages(p, Other(p))
    <3>1. Coming(Other(p)) = 0
      BY <1>1, <1>3, <2>0 DEF Coming, Bit
    <3> QED  BY <1>1, <1>3, <2>0, <3>1, LinkAssumption DEF Messages
  <2> QED  BY <1>1, <1>3, <2>1, <2>2, <2>3, <2>4, EmptyQueue DEF Own
<1>4. Addresses
  BY <1>1, PeersType DEF Addresses, Looping
<1> QED  BY <1>2, <1>3, <1>4 DEF MatchInv

LEMMA MatchNext == MatchInv /\ [Next]_ppVars => MatchInv'
<1> SUFFICES ASSUME MatchInv, [Next]_ppVars  PROVE MatchInv'
  OBVIOUS
<1>1. CASE UNCHANGED ppVars
  <2> USE <1>1 DEF ppVars, vars, options, proc, tcp, nic, wire
  <2>1. TypeOK'
    BY InvType DEF TypeOK
  <2>2. ASSUME NEW p \in Peers  PROVE Own(p)' /\ Messages(p, Other(p))'
    <3>1. Same(p)
      BY DEF Same, SameData
    <3> QED  BY <3>1, OwnFrame, MessagesFrame, PeersType DEF MatchInv
  <2>3. Addresses'
    BY AddressesFrame DEF MatchInv
  <2> QED  BY <2>1, <2>2, <2>3 DEF MatchInv
<1>2. ASSUME NEW p \in Peers, Move(p)  PROVE MatchInv'
  <2>1. CASE Going(p) /\ UNCHANGED ah
    BY <2>1, PrepareStep, DialStep, ConnectStep, ServeStep, WakeStep, PollCqStep, ParseStep,
       StartPollStep, NextPollStep DEF Going
  <2>2. CASE transport = "ud" /\ Ud!CreateAh(p)
    BY <2>2, CreateAhStep
  <2>3. CASE Quit(p)
    BY <2>3, QuitStep
  <2>4. CASE Moving(p) /\ UNCHANGED ah
    BY <2>4, TransmitStep, ArriveStep, LoseStep, DeliverStep, AcknowledgeStep, RetryExceededStep DEF Moving
  <2> QED  BY <1>2, <2>1, <2>2, <2>3, <2>4 DEF Move
<1> QED  BY <1>1, <1>2, NextMoves

LEMMA MatchHolds == Spec => []MatchInv
BY MatchInit, MatchNext, PTL DEF Spec

\* The three programs keep their variables in their types: no counter of
\* rc_pingpong.c, uc_pingpong.c or ud_pingpong.c passes its bound.
THEOREM TypeCorrect == Spec => []TypeOK
<1>1. MatchInv => TypeOK
  BY DEF MatchInv
<1> QED  BY <1>1, MatchHolds, PTL

\* The queues that pp_init_ctx makes, for rx_depth receives and one send, never
\* overflow, and the slot is free for every send: for any rx_depth and iters.
THEOREM QueuesFitHolds == Spec => []QueuesFit
BY MatchHolds, InvQueuesFit, PTL

\* No message of pp_post_send meets a queue pair that is not connected or that
\* has no receive, unless the other side is gone.
THEOREM MessageLandsHolds == Spec => []MessageLands
BY MatchHolds, InvMessageLands, PTL

\* ud_pingpong posts no send before pp_connect_ctx of both sides has made its
\* address handle.
THEOREM HandleBeforeSendHolds == Spec => []HandleBeforeSend
BY MatchHolds, InvHandleBeforeSend, PTL

\* With -e, nobody sleeps in ibv_get_cq_event over a completion that is not
\* announced and will not be.
THEOREM NeverDeafHolds == Spec => []NeverDeaf
BY MatchHolds, InvNeverDeaf, PTL

\* At most one message is under way, received or being answered at any time.
OneBallInPlay == Coming("client") + Coming("server") + Held("client") + Held("server") <= 1

\* The programs really play by turns, whatever is lost and whoever fails.
THEOREM OneBallHolds == Spec => []OneBallInPlay
<1>1. MatchInv => OneBallInPlay
  BY OneBall, PeersType DEF OneBallInPlay, Other
<1> QED  BY <1>1, MatchHolds, PTL

-----------------------------------------------------------------------------
(* The match is a rally.                                                   *)

\* A process that holds the ball may play it.
LEMMA HoldsBall ==
  ASSUME MatchInv, NEW p \in Peers, pc[p] \in Looping, Held(p) > 0
  PROVE  RallySpec!Unanswered(p)
<1>0. TypeOK /\ Own(p) /\ Other(p) \in Peers
  BY PeersType DEF MatchInv
<1>1. Held(p) = 1
  BY <1>0, OneBall, Numbers
<1>2. Live(p)
  BY LabelsType
<1>3. /\ sent[p] + Bit("RECV" \notin pending[p]) = rcnt[p] + Bit(p = "client")
      /\ got[p] = rcnt[p] + Unseen(p)
      /\ Held(p) = Unseen(p) + Bit("RECV" \notin pending[p])
  BY <1>0, <1>2 DEF Own, Busy, Queues, Held
<1>4. Unseen(p) \in Nat /\ rcnt[p] \in Nat /\ sent[p] \in Nat /\ got[p] \in Nat
  BY <1>0, Numbers
<1>5. sent[p] + 1 = got[p] + Bit(p = "client")
  BY <1>1, <1>3, <1>4 DEF Bit
<1> QED  BY <1>4, <1>5 DEF RallySpec!Unanswered, Bit

\* An answer is a stroke of the rally.
LEMMA ParseRally ==
  ASSUME MatchInv, NEW p \in Peers, GoodParse(p)
  PROVE  RallySpec!Send(p) \/ UNCHANGED RallySpec!vars
<1> DEFINE op     == Head(wc[p]).op
           s      == IF op = "SEND" THEN scnt[p] + 1 ELSE scnt[p]
           r      == IF op = "RECV" THEN rcnt[p] + 1 ELSE rcnt[p]
           answer == Answers(p, s, op)
<1>0. TypeOK /\ Own(p)
  BY DEF MatchInv
<1>1. /\ op \in {"SEND", "RECV"} /\ op \in pending[p]
      /\ pc[p] \in Looping /\ Live(p)
      /\ op = "RECV" => Has(wc[p], "RECV")
  BY FirstCompletion DEF GoodParse
<1>2. /\ sent' = [sent EXCEPT ![p] = IF answer THEN @ + 1 ELSE @] /\ got' = got
      /\ pc' = [pc EXCEPT ![p] = AfterParse(p, s, r)]
  BY DEF GoodParse, Parsed
<1>3. AfterParse(p, s, r) # "ok" /\ pc[p] # "ok"
  BY <1>1 DEF AfterParse, LoopHead, Looping
<1> HIDE DEF r
<1>4. UNCHANGED {x \in Peers : pc[x] = "ok"}
  BY <1>0, <1>2, <1>3 DEF TypeOK
<1>5. CASE answer
  <2>1. Held(p) > 0
    <3>1. op = "SEND" => "RECV" \notin pending[p]
      BY <1>5 DEF Answers
    <3>2. Bit(Has(cq[p], "RECV")) \in Nat
      BY DEF Bit
    <3> HIDE DEF op
    <3> QED  BY <1>1, <3>1, <3>2 DEF Held, Unseen, Bit
  <2>2. sent[p] < Iters
    <3>1. sent[p] = scnt[p] + Bit("SEND" \in pending[p])
      BY <1>0, <1>1 DEF Own, Busy
    <3>2. op = "RECV" => "SEND" \notin pending[p]
      BY <1>5 DEF Answers
    <3>3. s < Iters /\ scnt[p] \in Nat /\ Iters \in Nat
      BY <1>5, <1>0, Numbers DEF Answers
    <3> QED  BY <1>1, <3>1, <3>2, <3>3 DEF Bit
  <2>3. RallySpec!Unanswered(p)
    BY <1>1, <2>1, HoldsBall
  <2> QED  BY <1>2, <1>4, <1>5, <2>2, <2>3 DEF RallySpec!Send
<1>6. CASE ~ answer
  <2>1. sent' = sent
    BY <1>0, <1>2, <1>6 DEF TypeOK
  <2> QED  BY <1>2, <1>4, <2>1 DEF RallySpec!vars
<1> QED  BY <1>5, <1>6

LEMMA ServeRally ==
  ASSUME MatchInv, NEW p \in Peers, Serve(p)
  PROVE  RallySpec!Send(p) \/ UNCHANGED RallySpec!vars
<1> DEFINE q == Other(p)
<1>0. TypeOK /\ Own(p) /\ q \in Peers /\ Own(q) /\ Messages(p, q) /\ Messages(q, p) /\ Other(q) = p
  BY PeersType DEF MatchInv
<1>n. Iters \in Nat \ {0} /\ got[p] \in Nat /\ sent[q] \in Nat /\ got[q] \in Nat
      /\ Coming(p) \in Nat /\ Coming(q) \in Nat /\ Held(q) \in Nat
  BY <1>0, Numbers
<1>1. pc[p] = "serve" /\ got' = got /\ sent' = [sent EXCEPT ![p] = IF p = "client" THEN @ + 1 ELSE @]
      /\ pc' = [pc EXCEPT ![p] = LoopHead(p, 0, 0)]
  BY DEF Serve, Step
<1>2. LoopHead(p, 0, 0) # "ok"
  BY DEF LoopHead
<1>3. UNCHANGED {x \in Peers : pc[x] = "ok"}
  BY <1>0, <1>1, <1>2 DEF TypeOK
<1>4. CASE p = "client"
  <2>1. sent[p] = 0
    BY <1>0, <1>1 DEF Own, Fresh, Before
  <2>2. sent[q] + Held(q) <= got[q] + 0
    BY <1>0, <1>4, Balance, PeersType DEF Bit
  <2>3. got[q] + Coming(q) <= sent[p] /\ got[p] + Coming(p) <= sent[q]
    BY <1>0 DEF Messages
  <2>4. got[p] = 0
    BY <1>n, <2>1, <2>2, <2>3
  <2> QED  BY <1>n, <1>1, <1>3, <1>4, <2>1, <2>4 DEF RallySpec!Send, RallySpec!Unanswered
<1>5. CASE p # "client"
  <2>1. sent' = sent
    BY <1>0, <1>1, <1>5 DEF TypeOK
  <2> QED  BY <1>1, <1>3, <2>1 DEF RallySpec!vars
<1> QED  BY <1>4, <1>5

LEMMA QuitRally ==
  ASSUME MatchInv, NEW p \in Peers, Quit(p)
  PROVE  RallySpec!End(p) \/ UNCHANGED RallySpec!vars
<1>0. TypeOK
  BY DEF MatchInv
<1>1. CASE Live(p) /\ Exit(p, "failed")
  <2>1. UNCHANGED {x \in Peers : pc[x] = "ok"}
    BY <1>0, <1>1 DEF Exit, TypeOK, Live
  <2> QED  BY <1>1, <2>1 DEF Exit, RallySpec!vars
<1>2. CASE pc[p] = "finish" /\ Exit(p, "ok")
  <2>1. MatchInv'
    BY QuitStep
  <2>2. pc'[p] = "ok" /\ sent' = sent /\ got' = got
    BY <1>0, <1>2 DEF Exit, TypeOK
  <2>3. sent[p] = Iters /\ got[p] = Iters
    BY <2>1, <2>2 DEF MatchInv, Own, Left, Ended
  <2>4. {x \in Peers : pc[x] = "ok"}' = {x \in Peers : pc[x] = "ok"} \cup {p}
    BY <1>0, <1>2 DEF Exit, TypeOK
  <2> QED  BY <2>2, <2>3, <2>4 DEF RallySpec!End
<1> QED  BY <1>1, <1>2 DEF Quit

LEMMA ArriveRally ==
  ASSUME MatchInv, NEW p \in Peers, Moving(p)
  PROVE  RallySpec!Next \/ UNCHANGED RallySpec!vars
<1>0. /\ TypeOK /\ RallySpec!Sides = Peers
      /\ \A x \in Peers : RallySpec!Opponent(x) = Other(x) /\ Other(x) \in Peers /\ Other(Other(x)) = x
  BY PeersType DEF MatchInv, RallySpec!Sides, Peers, RallySpec!Opponent, Other
<1>1. ASSUME NEW x \in Peers, Coming(x) > 0, got' = [got EXCEPT ![x] = @ + 1], sent' = sent, pc' = pc
      PROVE  RallySpec!Next
  <2>1. got[x] < sent[Other(x)]
    <3>1. got[x] + Coming(x) <= sent[Other(x)]
      BY <1>0 DEF MatchInv, Messages
    <3> QED  BY <1>0, <1>1, <3>1, Numbers
  <2>2. RallySpec!Receive(x)
    BY <1>0, <1>1, <2>1 DEF RallySpec!Receive
  <2> QED  BY <1>0, <2>2 DEF RallySpec!Next
<1>2. CASE UNCHANGED <<got, sent, pc>>
  BY <1>2 DEF RallySpec!vars
<1>3. CASE Transmit(p) \/ Lose(p) \/ Rc!Acknowledge(p) \/ Rc!RetryExceeded(p)
  <2>1. UNCHANGED <<got, sent, pc>>
    BY <1>3 DEF Transmit, Lose, Rc!Acknowledge, Rc!RetryExceeded, program, Rc!program
  <2> QED  BY <1>2, <2>1
<1>4. CASE Arrive(p)
  <2>1. sent' = sent /\ pc' = pc /\ (got' = got \/ got' = [got EXCEPT ![p] = @ + 1])
    BY <1>4 DEF Arrive, Landed, program
  <2>2. Coming(p) > 0
    BY <1>0, <1>4, Numbers DEF Arrive, Coming, Bit
  <2> QED  BY <1>1, <1>2, <2>1, <2>2
<1>5. CASE Rc!Deliver(p)
  <2>1. sent' = sent /\ pc' = pc /\ got' = [got EXCEPT ![Other(p)] = @ + 1]
    BY <1>5 DEF Rc!Deliver, Rc!Landed, Rc!program, Rc!Other, Other
  <2>2. Coming(Other(p)) > 0
    BY <1>0, <1>5, Numbers DEF Rc!Deliver, Coming, Bit
  <2> QED  BY <1>0, <1>1, <2>1, <2>2
<1> QED  BY <1>3, <1>4, <1>5 DEF Moving

\* The other steps of a process are none of the rally.
LEMMA SilentRally ==
  ASSUME MatchInv, NEW p \in Peers,
         Prepare(p) \/ ServerDial(p) \/ ClientDial(p) \/ Connecting(p)
           \/ GetCqEvent(p) \/ ReqNotify(p) \/ PollCq(p)
           \/ (Rc!StartPoll(p) /\ cq[p] # <<>>) \/ Rc!NextPoll(p) \/ Ud!CreateAh(p)
  PROVE  UNCHANGED RallySpec!vars
<1>0. TypeOK
  BY DEF MatchInv
<1>1. UNCHANGED <<sent, got>> /\ \E to : to # "ok" /\ pc[p] # "ok" /\ pc' = [pc EXCEPT ![p] = to]
  <2>1. CASE Prepare(p)
    BY <2>1 DEF Prepare, Step
  <2>2. CASE ServerDial(p)
    BY <2>2 DEF ServerDial, ServerExchange, Step, Exchanging
  <2>3. CASE ClientDial(p)
    BY <2>3 DEF ClientDial, ClientExchange, Step, Exchanging
  <2>4. CASE Connecting(p)
    BY <2>4 DEF Connecting, Connect, Connected, Step
  <2>5. CASE GetCqEvent(p) \/ ReqNotify(p)
    BY <2>5 DEF GetCqEvent, ReqNotify, Step
  <2>6. CASE PollCq(p)
    BY <2>6 DEF PollCq, Step, LoopHead
  <2>7. CASE Rc!StartPoll(p) /\ cq[p] # <<>>
    BY <2>7 DEF Rc!StartPoll, Rc!Step
  <2>8. CASE Rc!NextPoll(p)
    BY <2>8 DEF Rc!NextPoll, Rc!Step, Rc!LoopHead
  <2>9. CASE Ud!CreateAh(p)
    BY <2>9, SameInUd DEF Ud!CreateAh, Ud!Step, Connected
  <2> QED  BY <2>1, <2>2, <2>3, <2>4, <2>5, <2>6, <2>7, <2>8, <2>9
<1>2. UNCHANGED {x \in Peers : pc[x] = "ok"}
  BY <1>0, <1>1 DEF TypeOK
<1> QED  BY <1>1, <1>2 DEF RallySpec!vars

LEMMA RallyNext == MatchInv /\ [Next]_ppVars => [RallySpec!Next]_RallySpec!vars
<1> SUFFICES ASSUME MatchInv, [Next]_ppVars  PROVE RallySpec!Next \/ UNCHANGED RallySpec!vars
  OBVIOUS
<1>1. CASE UNCHANGED ppVars
  BY <1>1 DEF ppVars, vars, RallySpec!vars
<1>2. ASSUME NEW p \in Peers, Move(p)  PROVE RallySpec!Next \/ UNCHANGED RallySpec!vars
  <2>0. p \in RallySpec!Sides
    BY DEF RallySpec!Sides, Peers
  <2>1. CASE Serve(p) \/ GoodParse(p)
    BY <2>0, <2>1, ServeRally, ParseRally DEF RallySpec!Next
  <2>2. CASE Quit(p)
    BY <2>0, <2>2, QuitRally DEF RallySpec!Next
  <2>3. CASE Moving(p)
    BY <2>3, ArriveRally
  <2>4. CASE ~ (Serve(p) \/ GoodParse(p) \/ Quit(p) \/ Moving(p))
    BY <1>2, <2>4, SilentRally DEF Move, Going
  <2> QED  BY <2>1, <2>2, <2>3, <2>4
<1> QED  BY <1>1, <1>2, NextMoves

LEMMA RallyInit == PpInit => RallySpec!Init
<1>1. RallySpec!Sides = Peers
  BY DEF RallySpec!Sides, Peers
<1> QED  BY <1>1 DEF PpInit, Init, Zero, RallySpec!Init

\* The three programs implement the rally, for any options and faults: the
\* client serves, every message answers the last one, and "iters iters in ..."
\* is printed only by a side that has sent and got them all.
THEOREM PingpongIsARally == Spec => ImplementsRally
<1>1. MatchInv /\ [Next]_ppVars => [RallySpec!Next]_RallySpec!vars
  BY RallyNext
<1> QED  BY <1>1, RallyInit, MatchHolds, PTL DEF Spec, ImplementsRally, RallySpec!Spec

-----------------------------------------------------------------------------
\* Ownership: the objects of all programs.

\* What holds of the objects of rdma1 at any time: the structure res misses none
\* of them but the listening socket and those whose release failed, an object
\* that was not given up has all it is built on, and every failed release has a
\* cause that is in ReleaseFails.
ObjectsInv ==
  /\ live \subseteq Rdma1!Objects
  /\ handle \subseteq Rdma1!Objects \ {"listener"}
  /\ failed \subseteq live \ {"listener"}
  /\ live \subseteq handle \cup failed \cup {"listener"}
  /\ \A o \in live \ failed : Rdma1!Needs[o] \subseteq live
  /\ \A o \in failed \ ReleaseFails : \E u \in failed : o \in Rdma1!Needs[u]
  /\ rc \in {0, 1} /\ (rc = 0 => failed = {})

\* The calls that are behind resources_create while it runs.
Creating ==
  /\ at \in 1..12 /\ failed = {} /\ handle \subseteq live
  /\ "dev_list" \in handle => at < 7
  /\ at > 5 => "ib_ctx" \in live
  /\ at > 8 => "pd" \in live
  /\ at > 9 => "cq" \in live
  /\ at > 10 => "buf" \in live

\* A loop over an order of release: what is behind it is gone or could not go,
\* what is before it and still referred to exists and was not tried.
Releasing(order) ==
  /\ at \in 1..Len(order)
  /\ \A n \in 1..(at - 1) : order[n] \in live => order[n] \in failed
  /\ \A n \in at..Len(order) : order[n] \in handle => order[n] \in live \ failed

\* rdma1, function by function.
Rdma1Inv ==
  /\ ObjectsInv
  /\ func \in {"create", "use", "cleanup", "destroy", "end", "exit"}
  /\ func \in {"create", "cleanup"} => rc = 1
  /\ func = "create" => Creating
  /\ func = "use" => at = 1 /\ failed = {} /\ handle \subseteq live
  /\ func \in {"use", "destroy"} => "dev_list" \notin handle
  /\ func = "cleanup" => /\ Releasing(Rdma1!CleanupOrder)
                         /\ \A n \in 1..(at - 1) : Rdma1!CleanupOrder[n] \notin handle
  /\ func = "destroy" => Releasing(Rdma1!DestroyOrder)
  /\ func = "end" => live \subseteq failed \cup {"listener"}

\* What the first n calls of pp_init_ctx obtain.
Taken(n) == {Calls[k][1] : k \in 1..n} \ ({"query", "init"} \cup (Optional \ opts))

\* A ladder or pp_close_ctx under way: it knows every object there is, and those
\* it has not reached are still there.
Remaining(order) ==
  /\ at \in 1..Len(order)
  /\ \A o \in live : \E n \in 1..Len(order) : order[n] = o
  /\ \A n \in at..Len(order) : order[n] \in live \cup MayBeAbsent

\* A program of RDMA/examples: while pp_init_ctx runs, live is what its calls
\* obtained; behind the ladder only what could not go is left, behind
\* pp_close_ctx nothing.
ContextInv ==
  /\ prog \in Programs
  /\ opts \subseteq Optional
  /\ func \in {"init", "use", "clean", "close", "gave_up", "closed", "stopped"}
  /\ func = "init" => /\ at \in 1..Len(Calls)
                      /\ Taken(at - 1) \ {"fd"} \subseteq live
                      /\ live \subseteq Taken(at - 1)
  /\ func = "use" => /\ at = 1
                     /\ Taken(Len(Calls)) \ {"fd"} \subseteq live
                     /\ live \subseteq Taken(Len(Calls))
  /\ func = "close" => /\ Remaining(Close)
                       /\ \A n \in 1..(at - 1) : Close[n] \notin live
  /\ func = "clean" => /\ prog # "xsrq" /\ Remaining(Clean)
                       /\ \A n \in 1..(at - 1) : Clean[n] \in live => Stuck(Clean[n])
  /\ NothingOwned

\* The inductive invariant: a process is one of the programs for good.
OwnInv == IF IsRdma1 THEN Rdma1Inv ELSE ContextInv

-----------------------------------------------------------------------------
\* rdma1.

\* The tables: everything but the listening socket is on the order of the
\* cleanup, everything but the device list too on that of resources_destroy,
\* and an object is not released before what is built on it, but for the buffer.
GoodOrder(order, size, objects) ==
  /\ Len(order) = size
  /\ \A n \in 1..size : order[n] \in objects
  /\ \A o \in objects : \E n \in 1..size : order[n] = o
  /\ \A m, n \in 1..size : order[m] \in Rdma1!Needs[order[n]] => n < m
  /\ \A m, n \in 1..size : order[m] = order[n] => n = m

LEMMA DestroyTable ==
  GoodOrder(Rdma1!DestroyOrder, 7, Rdma1!Objects \ {"listener", "dev_list"})
BY DEF GoodOrder, Rdma1!DestroyOrder, Rdma1!Objects, Rdma1!Needs

LEMMA CleanupTable ==
  GoodOrder(Rdma1!CleanupOrder, 8, Rdma1!Objects \ {"listener"})
BY DEF GoodOrder, Rdma1!CleanupOrder, Rdma1!Objects, Rdma1!Needs

LEMMA NeedsOfRdma1 ==
  /\ \A o \in Rdma1!Objects : Rdma1!Needs[o] \subseteq Rdma1!Objects \ {"listener", "dev_list"}
  /\ \A o \in Rdma1!Objects : "listener" \notin Rdma1!Needs[o]
  /\ Rdma1!Needs["listener"] = {}
BY DEF Rdma1!Objects, Rdma1!Needs

LEMMA Rdma1Init ==
  ASSUME Rdma1!Init PROVE Rdma1Inv
BY DEF Rdma1!Init, Rdma1Inv, ObjectsInv, Creating

\* What a call of resources_create obtains is there for the first time, and
\* what it is built on already exists.
LEMMA CallTable ==
  ASSUME NEW n \in 1..12
  PROVE  LET c == Rdma1!Calls[n] IN
         /\ Rdma1!Obtains(c) \subseteq Rdma1!Objects
         /\ c = "free_device_list" <=> n = 6
         /\ "dev_list" \in Rdma1!Obtains(c) => n = 3
         /\ n = 5 => "ib_ctx" \in Rdma1!Obtains(c)
         /\ n = 8 => "pd" \in Rdma1!Obtains(c)
         /\ n = 9 => "cq" \in Rdma1!Obtains(c)
         /\ n = 10 => "buf" \in Rdma1!Obtains(c)
         /\ \A o \in Rdma1!Obtains(c) : \A d \in Rdma1!Needs[o] :
              \/ d = "ib_ctx" /\ n > 5
              \/ d = "pd" /\ n > 8
              \/ d = "cq" /\ n > 9
              \/ d = "buf" /\ n > 10
<1> USE DEF Rdma1!Calls, Rdma1!Obtains, Rdma1!Objects, Rdma1!Needs
<1>1. CASE n \in {1, 2, 3, 4}
  BY <1>1
<1>2. CASE n \in {5, 6, 7, 8}
  BY <1>2
<1>3. CASE n \in {9, 10}
  BY <1>3
<1>4. CASE n \in {11, 12}
  BY <1>4
<1> QED  BY <1>1, <1>2, <1>3, <1>4

LEMMA Rdma1Create ==
  ASSUME Rdma1Inv, Rdma1!Create PROVE Rdma1Inv'
<1> DEFINE c == Rdma1!Calls[at]
<1>1. /\ func = "create" /\ Creating /\ ObjectsInv /\ UNCHANGED <<failed, rc>> /\ failed = {}
      /\ rc = 1
  BY DEF Rdma1!Create, Rdma1Inv, Creating
<1>2. \/ func' = "create" /\ at' = at + 1 /\ at < 12
      \/ func' = "use" /\ at' = 1 /\ at = 12
  <2>1. Len(Rdma1!Calls) = 12
    BY DEF Rdma1!Calls
  <2> QED  BY <1>1, <2>1 DEF Rdma1!Create, Creating
<1>3. at \in 1..12
  BY <1>1 DEF Creating
<1>4. CASE c = "free_device_list"
  <2>1. live' = live \ {"dev_list"} /\ handle' = handle \ {"dev_list"}
    BY <1>4 DEF Rdma1!Create
  <2>2. at = 6
    BY <1>3, <1>4, CallTable
  <2>3. ObjectsInv'
    BY <1>1, <2>1, NeedsOfRdma1 DEF ObjectsInv
  <2>4. Creating' /\ func' = "create"
    BY <1>1, <1>2, <2>1, <2>2 DEF Creating
  <2> QED  BY <1>1, <2>3, <2>4 DEF Rdma1Inv
<1>5. CASE c # "free_device_list"
  <2> DEFINE X == Rdma1!Obtains(c)
  <2>1. live' = live \cup X /\ handle' = handle \cup (X \ {"listener"})
    BY <1>5 DEF Rdma1!Create
  <2>2. X \subseteq Rdma1!Objects /\ at # 6 /\ ("dev_list" \in X => at = 3)
    BY <1>3, <1>5, CallTable
  <2>3. \A o \in X : Rdma1!Needs[o] \subseteq live
    BY <1>1, <1>3, CallTable DEF Creating
  <2>4. /\ at = 5 => "ib_ctx" \in X
        /\ at = 8 => "pd" \in X
        /\ at = 9 => "cq" \in X
        /\ at = 10 => "buf" \in X
    BY <1>3, CallTable
  <2> HIDE DEF X
  <2>5. ObjectsInv'
    BY <1>1, <2>1, <2>2, <2>3 DEF ObjectsInv
  <2>6. CASE func' = "create"
    <3>1. Creating'
      BY <1>1, <1>2, <1>3, <2>1, <2>2, <2>4, <2>6 DEF Creating
    <3> QED  BY <1>1, <2>5, <2>6, <3>1 DEF Rdma1Inv
  <2>7. CASE func' = "use"
    <3>1. at' = 1 /\ failed' = {} /\ handle' \subseteq live' /\ "dev_list" \notin handle'
      BY <1>1, <1>2, <2>1, <2>2, <2>7 DEF Creating
    <3> QED  BY <2>5, <2>7, <3>1 DEF Rdma1Inv
  <2> QED  BY <1>2, <2>6, <2>7
<1> QED  BY <1>4, <1>5

LEMMA Rdma1CreateFails ==
  ASSUME Rdma1Inv, Rdma1!CreateFails PROVE Rdma1Inv'
<1>1. /\ func = "create" /\ Creating /\ ObjectsInv
      /\ UNCHANGED <<live, handle, failed, rc>> /\ at' = 1 /\ failed = {}
      /\ func' \in {"exit", "cleanup"}
  BY DEF Rdma1!CreateFails, Rdma1Inv, Creating
<1>2. ObjectsInv'
  BY <1>1 DEF ObjectsInv
<1>3. Releasing(Rdma1!CleanupOrder)'
  BY <1>1, CleanupTable DEF GoodOrder, Releasing, Creating
<1> QED  BY <1>1, <1>2, <1>3 DEF Rdma1Inv

LEMMA Rdma1Use ==
  ASSUME Rdma1Inv, Rdma1!Use PROVE Rdma1Inv'
<1>1. /\ func = "use" /\ at = 1 /\ failed = {} /\ handle \subseteq live /\ ObjectsInv
      /\ "dev_list" \notin handle
      /\ UNCHANGED <<at, live, handle, failed>> /\ func' = "destroy" /\ rc' \in {0, 1}
  BY DEF Rdma1!Use, Rdma1Inv
<1>2. ObjectsInv'
  BY <1>1 DEF ObjectsInv
<1>3. Releasing(Rdma1!DestroyOrder)'
  BY <1>1, DestroyTable DEF GoodOrder, Releasing
<1> QED  BY <1>1, <1>2, <1>3 DEF Rdma1Inv

\* One object of the order is behind the cleanup or resources_destroy.
LEMMA Rdma1Released ==
  ASSUME ObjectsInv, NEW order \in {Rdma1!CleanupOrder, Rdma1!DestroyOrder},
         func \in {"cleanup", "destroy"}, order = Rdma1!Order, func = "cleanup" => rc = 1,
         Releasing(order), Rdma1!Release \/ Rdma1!Skip
  PROVE  /\ ObjectsInv'
         /\ \A n \in 1..at : order[n] \in live' => order[n] \in failed'
         /\ \A n \in (at + 1)..Len(order) : order[n] \in handle' => order[n] \in live' \ failed'
         /\ handle' \subseteq handle
         /\ func = "cleanup" => handle' = handle \ {order[at]} /\ rc' = rc
<1> DEFINE o == order[at]
<1>1. /\ at \in 1..Len(order) /\ Len(order) \in {7, 8}
      /\ \A n \in 1..Len(order) : order[n] \in Rdma1!Objects \ {"listener"}
      /\ \A m, n \in 1..Len(order) : order[m] \in Rdma1!Needs[order[n]] => n < m
      /\ \A m, n \in 1..Len(order) : order[m] = order[n] => n = m
  <2>1. CASE order = Rdma1!CleanupOrder
    BY <2>1, CleanupTable DEF GoodOrder, Releasing
  <2>2. CASE order = Rdma1!DestroyOrder
    BY <2>2, DestroyTable DEF GoodOrder, Releasing
  <2> QED  BY <2>1, <2>2
<1>2. /\ \A n \in 1..(at - 1) : order[n] \in live => order[n] \in failed
      /\ \A n \in at..Len(order) : order[n] \in handle => order[n] \in live \ failed
  BY DEF Releasing
<1>3. o \in Rdma1!Objects \ {"listener"} /\ o = Rdma1!Order[at]
  BY <1>1
<1>4. CASE Rdma1!Skip
  <2>1. o \notin handle /\ UNCHANGED <<live, handle, failed, rc>>
    BY <1>4 DEF Rdma1!Skip
  <2>2. o \in live => o \in failed
    BY <1>3, <2>1 DEF ObjectsInv
  <2>3. ObjectsInv'
    BY <2>1 DEF ObjectsInv
  <2>4. \A n \in 1..at : order[n] \in live' => order[n] \in failed'
    BY <1>1, <1>2, <2>1, <2>2
  <2>5. \A n \in (at + 1)..Len(order) : order[n] \in handle' => order[n] \in live' \ failed'
    BY <1>1, <1>2, <2>1
  <2> QED  BY <2>1, <2>3, <2>4, <2>5
<1>5. CASE Rdma1!Release
  <2>1. PICK ok \in BOOLEAN :
          /\ o \in handle
          /\ ok => ~Rdma1!MustFail(o)
          /\ ~ok => Rdma1!MayFail(o)
          /\ live' = IF ok THEN live \ {o} ELSE live
          /\ failed' = IF ok THEN failed ELSE failed \cup {o}
          /\ handle' = IF func = "cleanup" THEN handle \ {o} ELSE handle
          /\ rc' = IF func = "destroy" /\ ~ok THEN 1 ELSE rc
    BY <1>5 DEF Rdma1!Release, Rdma1!Forget, Rdma1!Account
  <2>2. o \in live \ failed
    BY <1>1, <1>2, <2>1
  \* What is built on the object has been dealt with.
  <2>3. ASSUME NEW u \in live, o \in Rdma1!Needs[u] PROVE u \in failed
    <3>1. u \in Rdma1!Objects \ {"listener", "dev_list"}
      BY <2>3 DEF ObjectsInv, Rdma1!Needs, Rdma1!Objects
    <3>2. PICK n \in 1..Len(order) : order[n] = u
      BY <3>1, CleanupTable, DestroyTable DEF GoodOrder
    <3>3. n < at
      BY <1>1, <2>3, <3>2
    <3> QED  BY <1>1, <1>2, <3>2, <3>3
  <2>4. CASE ok
    <3>1. live' = live \ {o} /\ failed' = failed /\ rc' = rc
      BY <2>1, <2>4
    <3>2. \A u \in live' \ failed' : Rdma1!Needs[u] \subseteq live'
      BY <2>3, <3>1 DEF ObjectsInv
    <3>3. ObjectsInv'
      BY <2>1, <2>2, <3>1, <3>2 DEF ObjectsInv
    <3>4. \A n \in 1..at : order[n] \in live' => order[n] \in failed'
      BY <1>1, <1>2, <3>1
    <3>5. \A n \in (at + 1)..Len(order) :
            order[n] \in handle' => order[n] \in live' \ failed'
      BY <1>1, <1>2, <2>1, <3>1
    <3> QED  BY <2>1, <3>3, <3>4, <3>5
  <2>5. CASE ~ok
    <3>1. live' = live /\ failed' = failed \cup {o}
      BY <2>1, <2>5
    <3>2. o \in ReleaseFails \/ \E u \in live : o \in Rdma1!Needs[u]
      BY <2>1, <2>5 DEF Rdma1!MayFail, Rdma1!MustFail, Rdma1!InUse
    <3>3. \A x \in failed' \ ReleaseFails : \E u \in failed' : x \in Rdma1!Needs[u]
      <4>1. ASSUME NEW x \in failed \ ReleaseFails
            PROVE  \E u \in failed' : x \in Rdma1!Needs[u]
        BY <3>1 DEF ObjectsInv
      <4>2. o \notin ReleaseFails => \E u \in failed' : o \in Rdma1!Needs[u]
        BY <2>3, <3>1, <3>2
      <4> QED  BY <3>1, <4>1, <4>2
    <3>4. rc' \in {0, 1} /\ (rc' = 0 => failed' = {})
      BY <2>1, <2>5 DEF ObjectsInv
    <3>5. ObjectsInv'
      BY <1>3, <2>1, <2>2, <3>1, <3>3, <3>4 DEF ObjectsInv
    <3>6. \A n \in 1..at : order[n] \in live' => order[n] \in failed'
      BY <1>1, <1>2, <3>1
    <3>7. \A n \in (at + 1)..Len(order) :
            order[n] \in handle' => order[n] \in live' \ failed'
      BY <1>1, <1>2, <2>1, <3>1
    <3> QED  BY <2>1, <3>5, <3>6, <3>7
  <2> QED  BY <2>4, <2>5
<1> QED  BY <1>4, <1>5

LEMMA Rdma1ReleaseNext ==
  ASSUME Rdma1Inv, Rdma1!ReleaseNext PROVE Rdma1Inv'
<1> DEFINE order == Rdma1!Order
<1>1. /\ func \in {"cleanup", "destroy"} /\ (Rdma1!Release \/ Rdma1!Skip)
      /\ \/ at < Len(order) /\ at' = at + 1 /\ func' = func
         \/ /\ ~(at < Len(order)) /\ at' = 1
            /\ func' = IF func = "cleanup" THEN "destroy" ELSE "end"
  BY DEF Rdma1!ReleaseNext, Rdma1!Release, Rdma1!Skip
<1>2. /\ order \in {Rdma1!CleanupOrder, Rdma1!DestroyOrder}
      /\ func = "cleanup" => order = Rdma1!CleanupOrder
      /\ func = "destroy" => order = Rdma1!DestroyOrder
  BY <1>1 DEF Rdma1!Order
<1>3. ObjectsInv /\ Releasing(order) /\ Len(order) \in Nat /\ at \in 1..Len(order)
  <2>1. Len(order) \in Nat
    BY <1>2, CleanupTable, DestroyTable DEF GoodOrder
  <2> QED  BY <1>1, <1>2, <2>1 DEF Rdma1Inv, Releasing
<1> HIDE DEF order
<1>4. /\ ObjectsInv'
      /\ \A n \in 1..at : order[n] \in live' => order[n] \in failed'
      /\ \A n \in (at + 1)..Len(order) : order[n] \in handle' => order[n] \in live' \ failed'
      /\ handle' \subseteq handle
      /\ func = "cleanup" => handle' = handle \ {order[at]} /\ rc' = rc
  <2>1. func = "cleanup" => rc = 1
    BY DEF Rdma1Inv
  <2>2. order = Rdma1!Order
    BY DEF order
  <2> QED  BY <1>1, <1>2, <1>3, <2>1, <2>2, Rdma1Released
<1>5. CASE at < Len(order)
  <2>1. at' = at + 1 /\ func' = func
    BY <1>1, <1>5
  <2>2. /\ at' \in 1..Len(order)
        /\ \A n \in 1..(at' - 1) : order[n] \in live' => order[n] \in failed'
        /\ \A n \in at'..Len(order) : order[n] \in handle' => order[n] \in live' \ failed'
    BY <1>3, <1>4, <1>5, <2>1
  <2>3. CASE func = "cleanup"
    <3>1. \A n \in 1..(at' - 1) : order[n] \notin handle'
      BY <1>2, <1>3, <1>4, <2>1, <2>3 DEF Rdma1Inv
    <3>2. rc' = 1
      BY <1>4, <2>3 DEF Rdma1Inv
    <3> QED  BY <1>2, <1>4, <2>1, <2>2, <2>3, <3>1, <3>2 DEF Rdma1Inv, Releasing
  <2>4. CASE func = "destroy"
    <3>1. "dev_list" \notin handle'
      BY <1>4, <2>4 DEF Rdma1Inv
    <3> QED  BY <1>2, <1>4, <2>1, <2>2, <2>4, <3>1 DEF Rdma1Inv, Releasing
  <2> QED  BY <1>1, <2>3, <2>4
<1>6. CASE ~(at < Len(order)) /\ func = "cleanup"
  <2>1. at' = 1 /\ func' = "destroy" /\ at = Len(order)
    BY <1>1, <1>3, <1>6
  <2>2. \A n \in 1..Len(order) : order[n] \notin handle'
    BY <1>2, <1>3, <1>4, <1>6, <2>1 DEF Rdma1Inv
  <2>3. handle' = {}
    <3>1. \A o \in Rdma1!Objects \ {"listener"} : \E n \in 1..Len(order) : order[n] = o
      BY <1>2, <1>6, CleanupTable DEF GoodOrder
    <3> QED  BY <1>4, <2>2, <3>1 DEF ObjectsInv
  <2>4. Releasing(Rdma1!DestroyOrder)'
    BY <2>1, <2>3, DestroyTable DEF GoodOrder, Releasing
  <2> QED  BY <1>4, <2>1, <2>3, <2>4 DEF Rdma1Inv
<1>7. CASE ~(at < Len(order)) /\ func = "destroy"
  <2>1. at' = 1 /\ func' = "end" /\ at = Len(order) /\ "dev_list" \notin handle'
    BY <1>1, <1>3, <1>4, <1>7 DEF Rdma1Inv
  <2>2. ASSUME NEW o \in live', o # "listener" PROVE o \in failed'
    <3>1. CASE o = "dev_list"
      BY <1>4, <2>1, <2>2, <3>1 DEF ObjectsInv
    <3>2. CASE o # "dev_list"
      <4>1. PICK n \in 1..Len(order) : order[n] = o
        BY <1>2, <1>4, <1>7, <2>2, <3>2, DestroyTable DEF GoodOrder, ObjectsInv
      <4> QED  BY <1>4, <2>1, <2>2, <4>1
    <3> QED  BY <3>1, <3>2
  <2> QED  BY <1>4, <2>1, <2>2 DEF Rdma1Inv
<1> QED  BY <1>1, <1>5, <1>6, <1>7

LEMMA Rdma1Properties ==
  ASSUME Rdma1Inv PROVE Rdma1!ReleasedInOrder /\ Rdma1!NothingLeft
<1>1. func \in {"create", "use"} => handle \subseteq live
  BY DEF Rdma1Inv, Creating
<1>2. func \in {"cleanup", "destroy"} =>
        \A i \in at..Len(Rdma1!Order) : Rdma1!Order[i] \in handle => Rdma1!Order[i] \in live
  BY DEF Rdma1Inv, Releasing, Rdma1!Order
<1>3. Rdma1!NothingLeft
  BY DEF Rdma1Inv, ObjectsInv, Rdma1!NothingLeft
<1> QED
  BY <1>1, <1>2, <1>3 DEF Rdma1!ReleasedInOrder, Rdma1Inv, ObjectsInv

-----------------------------------------------------------------------------
\* The programs of RDMA/examples.

\* An order of release: what is built on an object comes before it.
Ladder(order) ==
  /\ Len(order) \in Nat \ {0}
  /\ \A m, n \in 1..Len(order) : order[m] \in Needs(order[n]) => n < m
  /\ \A m, n \in 1..Len(order) : order[m] = order[n] => n = m

LEMMA LadderOf8 == Ladder(UcClose) /\ Ladder(UcClean) /\ Ladder(UdClean)
<1>1. Len(UcClose) = 8 /\ UcClean = UcClose /\ UdClean = UcClose
  BY DEF UcClose, UcClean, UdClean
<1>2. \A m, n \in 1..8 : UcClose[m] \in Needs(UcClose[n]) => n < m
  BY DEF UcClose, Needs
<1>3. \A m, n \in 1..8 : UcClose[m] = UcClose[n] => n = m
  BY DEF UcClose
<1>4. Ladder(UcClose)
  BY <1>1, <1>2, <1>3 DEF Ladder
<1> QED  BY <1>1, <1>4

LEMMA RcLadder == Ladder(RcClose) /\ Ladder(RcClean)
<1>1. Len(RcClose) = 9 /\ RcClean = RcClose
  BY DEF RcClose, RcClean
<1>2. \A m, n \in 1..9 : RcClose[m] \in Needs(RcClose[n]) => n < m
  BY DEF RcClose, Needs
<1>3. \A m, n \in 1..9 : RcClose[m] = RcClose[n] => n = m
  BY DEF RcClose
<1>4. Ladder(RcClose)
  BY <1>1, <1>2, <1>3 DEF Ladder
<1> QED  BY <1>1, <1>4

LEMMA UdLadder == Ladder(UdClose)
<1>1. Len(UdClose) = 9
  BY DEF UdClose
<1>2. \A m, n \in 1..9 : UdClose[m] \in Needs(UdClose[n]) => n < m
  BY DEF UdClose, Needs
<1>3. \A m, n \in 1..9 : UdClose[m] = UdClose[n] => n = m
  BY DEF UdClose
<1> QED  BY <1>1, <1>2, <1>3 DEF Ladder

LEMMA SrqLadder == ASSUME prog = "srq" PROVE Ladder(SrqClose) /\ Ladder(SrqClean)
<1>1. Len(SrqClose) = 10 /\ Len(SrqClean) = 10
  BY DEF SrqClose, SrqClean
<1>2. \A m, n \in 1..10 : SrqClose[m] \in Needs(SrqClose[n]) => n < m
  BY DEF SrqClose, Needs
<1>3. \A m, n \in 1..10 : SrqClean[m] \in Needs(SrqClean[n]) => n < m
  BY DEF SrqClean, Needs
<1>4. \A m, n \in 1..10 : /\ SrqClose[m] = SrqClose[n] => n = m
                          /\ SrqClean[m] = SrqClean[n] => n = m
  BY DEF SrqClose, SrqClean
<1> QED  BY <1>1, <1>2, <1>3, <1>4 DEF Ladder

LEMMA XsrqLadder == ASSUME prog = "xsrq" PROVE Ladder(XsrqClose)
<1>1. Len(XsrqClose) = 13
  BY DEF XsrqClose
<1>2. \A m, n \in 1..13 : XsrqClose[m] \in Needs(XsrqClose[n]) => n < m
  BY DEF XsrqClose, Needs
<1>3. \A m, n \in 1..13 : XsrqClose[m] = XsrqClose[n] => n = m
  BY DEF XsrqClose
<1> QED  BY <1>1, <1>2, <1>3 DEF Ladder

LEMMA CloseLadder == ASSUME prog \in Programs PROVE Ladder(Close)
BY LadderOf8, RcLadder, UdLadder, SrqLadder, XsrqLadder DEF Programs, Close

LEMMA CleanLadder == ASSUME prog \in Programs \ {"xsrq"} PROVE Ladder(Clean)
BY LadderOf8, RcLadder, SrqLadder DEF Programs, Clean

\* The objects pp_init_ctx takes.
Obtained ==
  CASE prog = "rc"  -> {"ctx", "buf", "dev", "channel", "pd", "dm", "mr", "cq", "qp"}
    [] prog = "uc"  -> {"ctx", "buf", "dev", "channel", "pd", "mr", "cq", "qp"}
    [] prog = "ud"  -> {"ctx", "buf", "dev", "channel", "pd", "mr", "cq", "qp"}
    [] prog = "srq" -> {"ctx", "buf", "dev", "channel", "pd", "mr", "cq", "srq",
                        "qp1", "qp2"}
    [] OTHER        -> {"ctx", "dev", "buf", "channel", "pd", "mr", "fd", "xrcd",
                        "recv_cq", "send_cq", "srq", "recv_qp", "send_qp"}

\* The tables, entry by entry.
LEMMA RcCallsAre ==
  /\ Len(RcCalls) = 11
  /\ RcCalls[1][1] = "ctx" /\ RcCalls[2][1] = "buf" /\ RcCalls[3][1] = "dev"
  /\ RcCalls[4][1] = "channel" /\ RcCalls[5][1] = "pd" /\ RcCalls[6][1] = "query"
  /\ RcCalls[7][1] = "dm" /\ RcCalls[8][1] = "mr" /\ RcCalls[9][1] = "cq"
  /\ RcCalls[10][1] = "qp" /\ RcCalls[11][1] = "init"
BY DEF RcCalls

LEMMA RcLabelsAre ==
  /\ RcCalls[1][2] = "" /\ RcCalls[2][2] = "ctx" /\ RcCalls[3][2] = "buf"
  /\ RcCalls[4][2] = "dev" /\ RcCalls[5][2] = "channel" /\ RcCalls[6][2] = "pd"
  /\ RcCalls[7][2] = "pd" /\ RcCalls[8][2] = "dm" /\ RcCalls[9][2] = "mr"
  /\ RcCalls[10][2] = "cq" /\ RcCalls[11][2] = "qp"
BY DEF RcCalls

LEMMA UcCallsAre ==
  /\ Len(UcCalls) = 9
  /\ UcCalls[1][1] = "ctx" /\ UcCalls[2][1] = "buf" /\ UcCalls[3][1] = "dev"
  /\ UcCalls[4][1] = "channel" /\ UcCalls[5][1] = "pd" /\ UcCalls[6][1] = "mr"
  /\ UcCalls[7][1] = "cq" /\ UcCalls[8][1] = "qp" /\ UcCalls[9][1] = "init"
BY DEF UcCalls

LEMMA UcLabelsAre ==
  /\ UcCalls[1][2] = "" /\ UcCalls[2][2] = "ctx" /\ UcCalls[3][2] = "buf"
  /\ UcCalls[4][2] = "dev" /\ UcCalls[5][2] = "channel" /\ UcCalls[6][2] = "pd"
  /\ UcCalls[7][2] = "mr" /\ UcCalls[8][2] = "cq" /\ UcCalls[9][2] = "qp"
BY DEF UcCalls

LEMMA UdCallsAre ==
  /\ Len(UdCalls) = 10
  /\ UdCalls[1][1] = "ctx" /\ UdCalls[2][1] = "buf" /\ UdCalls[3][1] = "dev"
  /\ UdCalls[4][1] = "query" /\ UdCalls[5][1] = "channel" /\ UdCalls[6][1] = "pd"
  /\ UdCalls[7][1] = "mr" /\ UdCalls[8][1] = "cq" /\ UdCalls[9][1] = "qp"
  /\ UdCalls[10][1] = "init"
BY DEF UdCalls

LEMMA UdLabelsAre ==
  /\ UdCalls[1][2] = "" /\ UdCalls[2][2] = "ctx" /\ UdCalls[3][2] = "buf"
  /\ UdCalls[4][2] = "dev" /\ UdCalls[5][2] = "dev" /\ UdCalls[6][2] = "channel"
  /\ UdCalls[7][2] = "pd" /\ UdCalls[8][2] = "mr" /\ UdCalls[9][2] = "cq"
  /\ UdCalls[10][2] = "qp"
BY DEF UdCalls

LEMMA SrqCallsAre ==
  /\ Len(SrqCalls) = 12
  /\ SrqCalls[1][1] = "ctx" /\ SrqCalls[2][1] = "buf" /\ SrqCalls[3][1] = "dev"
  /\ SrqCalls[4][1] = "query" /\ SrqCalls[5][1] = "channel" /\ SrqCalls[6][1] = "pd"
  /\ SrqCalls[7][1] = "mr" /\ SrqCalls[8][1] = "cq" /\ SrqCalls[9][1] = "srq"
  /\ SrqCalls[10][1] = "qp1" /\ SrqCalls[11][1] = "qp2" /\ SrqCalls[12][1] = "init"
BY DEF SrqCalls

LEMMA SrqLabelsAre ==
  /\ SrqCalls[1][2] = "" /\ SrqCalls[2][2] = "ctx" /\ SrqCalls[3][2] = "buf"
  /\ SrqCalls[4][2] = "dev" /\ SrqCalls[5][2] = "dev" /\ SrqCalls[6][2] = "channel"
  /\ SrqCalls[7][2] = "pd" /\ SrqCalls[8][2] = "mr" /\ SrqCalls[9][2] = "cq"
  /\ SrqCalls[10][2] = "srq" /\ SrqCalls[11][2] = "qp1" /\ SrqCalls[12][2] = "qp2"
BY DEF SrqCalls

LEMMA XsrqCallsAre ==
  /\ Len(XsrqCalls) = 14
  /\ XsrqCalls[1][1] = "ctx" /\ XsrqCalls[2][1] = "dev" /\ XsrqCalls[3][1] = "query"
  /\ XsrqCalls[4][1] = "buf" /\ XsrqCalls[5][1] = "channel" /\ XsrqCalls[6][1] = "pd"
  /\ XsrqCalls[7][1] = "mr" /\ XsrqCalls[8][1] = "fd" /\ XsrqCalls[9][1] = "xrcd"
  /\ XsrqCalls[10][1] = "recv_cq" /\ XsrqCalls[11][1] = "send_cq" /\ XsrqCalls[12][1] = "srq"
  /\ XsrqCalls[13][1] = "recv_qp" /\ XsrqCalls[14][1] = "send_qp"
BY DEF XsrqCalls

LEMMA XsrqLabelsAre ==
  /\ XsrqCalls[1][2] = "" /\ XsrqCalls[2][2] = "" /\ XsrqCalls[3][2] = ""
  /\ XsrqCalls[4][2] = "" /\ XsrqCalls[5][2] = "" /\ XsrqCalls[6][2] = ""
  /\ XsrqCalls[7][2] = "" /\ XsrqCalls[8][2] = "" /\ XsrqCalls[9][2] = ""
  /\ XsrqCalls[10][2] = "" /\ XsrqCalls[11][2] = "" /\ XsrqCalls[12][2] = ""
  /\ XsrqCalls[13][2] = "" /\ XsrqCalls[14][2] = ""
BY DEF XsrqCalls

LEMMA RcCloseIs ==
  /\ Len(RcClose) = 9
  /\ RcClose[1] = "qp" /\ RcClose[2] = "cq" /\ RcClose[3] = "mr"
  /\ RcClose[4] = "dm" /\ RcClose[5] = "pd" /\ RcClose[6] = "channel"
  /\ RcClose[7] = "dev" /\ RcClose[8] = "buf" /\ RcClose[9] = "ctx"
BY DEF RcClose

LEMMA RcCleanIs ==
  /\ Len(RcClean) = 9
  /\ RcClean[1] = "qp" /\ RcClean[2] = "cq" /\ RcClean[3] = "mr"
  /\ RcClean[4] = "dm" /\ RcClean[5] = "pd" /\ RcClean[6] = "channel"
  /\ RcClean[7] = "dev" /\ RcClean[8] = "buf" /\ RcClean[9] = "ctx"
BY DEF RcClean

LEMMA UcCloseIs ==
  /\ Len(UcClose) = 8
  /\ UcClose[1] = "qp" /\ UcClose[2] = "cq" /\ UcClose[3] = "mr"
  /\ UcClose[4] = "pd" /\ UcClose[5] = "channel" /\ UcClose[6] = "dev"
  /\ UcClose[7] = "buf" /\ UcClose[8] = "ctx"
BY DEF UcClose

LEMMA UcCleanIs ==
  /\ Len(UcClean) = 8
  /\ UcClean[1] = "qp" /\ UcClean[2] = "cq" /\ UcClean[3] = "mr"
  /\ UcClean[4] = "pd" /\ UcClean[5] = "channel" /\ UcClean[6] = "dev"
  /\ UcClean[7] = "buf" /\ UcClean[8] = "ctx"
BY DEF UcClean

LEMMA UdCloseIs ==
  /\ Len(UdClose) = 9
  /\ UdClose[1] = "qp" /\ UdClose[2] = "cq" /\ UdClose[3] = "mr"
  /\ UdClose[4] = "ah" /\ UdClose[5] = "pd" /\ UdClose[6] = "channel"
  /\ UdClose[7] = "dev" /\ UdClose[8] = "buf" /\ UdClose[9] = "ctx"
BY DEF UdClose

LEMMA UdCleanIs ==
  /\ Len(UdClean) = 8
  /\ UdClean[1] = "qp" /\ UdClean[2] = "cq" /\ UdClean[3] = "mr"
  /\ UdClean[4] = "pd" /\ UdClean[5] = "channel" /\ UdClean[6] = "dev"
  /\ UdClean[7] = "buf" /\ UdClean[8] = "ctx"
BY DEF UdClean

LEMMA SrqCloseIs ==
  /\ Len(SrqClose) = 10
  /\ SrqClose[1] = "qp1" /\ SrqClose[2] = "qp2" /\ SrqClose[3] = "srq"
  /\ SrqClose[4] = "cq" /\ SrqClose[5] = "mr" /\ SrqClose[6] = "pd"
  /\ SrqClose[7] = "channel" /\ SrqClose[8] = "dev" /\ SrqClose[9] = "buf"
  /\ SrqClose[10] = "ctx"
BY DEF SrqClose

LEMMA SrqCleanIs ==
  /\ Len(SrqClean) = 10
  /\ SrqClean[1] = "qp2" /\ SrqClean[2] = "qp1" /\ SrqClean[3] = "srq"
  /\ SrqClean[4] = "cq" /\ SrqClean[5] = "mr" /\ SrqClean[6] = "pd"
  /\ SrqClean[7] = "channel" /\ SrqClean[8] = "dev" /\ SrqClean[9] = "buf"
  /\ SrqClean[10] = "ctx"
BY DEF SrqClean

LEMMA XsrqCloseIs ==
  /\ Len(XsrqClose) = 13
  /\ XsrqClose[1] = "send_qp" /\ XsrqClose[2] = "recv_qp" /\ XsrqClose[3] = "srq"
  /\ XsrqClose[4] = "xrcd" /\ XsrqClose[5] = "fd" /\ XsrqClose[6] = "send_cq"
  /\ XsrqClose[7] = "recv_cq" /\ XsrqClose[8] = "mr" /\ XsrqClose[9] = "pd"
  /\ XsrqClose[10] = "channel" /\ XsrqClose[11] = "dev" /\ XsrqClose[12] = "buf"
  /\ XsrqClose[13] = "ctx"
BY DEF XsrqClose

LEMMA CallsOwn ==
  ASSUME prog \in Programs
  PROVE  /\ Len(Calls) \in Nat \ {0}
         /\ \A n \in 1..Len(Calls) : Calls[n][1] \in Obtained \cup {"query", "init"}
         /\ \A o \in Obtained : \E n \in 1..Len(Calls) : Calls[n][1] = o
<1>1. CASE prog = "rc"
  <2>1. Calls = RcCalls /\ Len(RcCalls) = 11
    BY <1>1, RcCallsAre DEF Calls
  <2>2. \A n \in 1..11 : RcCalls[n][1] \in Obtained \cup {"query", "init"}
    BY <1>1, RcCallsAre DEF Obtained
  <2>3. \A o \in Obtained : \E n \in 1..11 : RcCalls[n][1] = o
    BY <1>1, RcCallsAre DEF Obtained
  <2> QED  BY <2>1, <2>2, <2>3
<1>2. CASE prog = "uc"
  <2>1. Calls = UcCalls /\ Len(UcCalls) = 9
    BY <1>2, UcCallsAre DEF Calls
  <2>2. \A n \in 1..9 : UcCalls[n][1] \in Obtained \cup {"query", "init"}
    BY <1>2, UcCallsAre DEF Obtained
  <2>3. \A o \in Obtained : \E n \in 1..9 : UcCalls[n][1] = o
    BY <1>2, UcCallsAre DEF Obtained
  <2> QED  BY <2>1, <2>2, <2>3
<1>3. CASE prog = "ud"
  <2>1. Calls = UdCalls /\ Len(UdCalls) = 10
    BY <1>3, UdCallsAre DEF Calls
  <2>2. \A n \in 1..10 : UdCalls[n][1] \in Obtained \cup {"query", "init"}
    BY <1>3, UdCallsAre DEF Obtained
  <2>3. \A o \in Obtained : \E n \in 1..10 : UdCalls[n][1] = o
    BY <1>3, UdCallsAre DEF Obtained
  <2> QED  BY <2>1, <2>2, <2>3
<1>4. CASE prog = "srq"
  <2>1. Calls = SrqCalls /\ Len(SrqCalls) = 12
    BY <1>4, SrqCallsAre DEF Calls
  <2>2. \A n \in 1..12 : SrqCalls[n][1] \in Obtained \cup {"query", "init"}
    BY <1>4, SrqCallsAre DEF Obtained
  <2>3. \A o \in Obtained : \E n \in 1..12 : SrqCalls[n][1] = o
    BY <1>4, SrqCallsAre DEF Obtained
  <2> QED  BY <2>1, <2>2, <2>3
<1>5. CASE prog = "xsrq"
  <2>1. Calls = XsrqCalls /\ Len(XsrqCalls) = 14
    BY <1>5, XsrqCallsAre DEF Calls
  <2>2. \A n \in 1..14 : XsrqCalls[n][1] \in Obtained \cup {"query", "init"}
    BY <1>5, XsrqCallsAre DEF Obtained
  <2>3. \A o \in Obtained : \E n \in 1..14 : XsrqCalls[n][1] = o
    BY <1>5, XsrqCallsAre DEF Obtained
  <2> QED  BY <2>1, <2>2, <2>3
<1> QED  BY <1>1, <1>2, <1>3, <1>4, <1>5 DEF Programs

\* pp_close_ctx knows all of them, and nothing else but the address handle of
\* ud_pingpong.
LEMMA CloseOwn ==
  ASSUME prog \in Programs
  PROVE  LET all == Obtained \cup (IF prog = "ud" THEN {"ah"} ELSE {}) IN
         /\ \A n \in 1..Len(Close) : Close[n] \in all
         /\ \A o \in all : \E n \in 1..Len(Close) : Close[n] = o
<1> DEFINE all == Obtained \cup (IF prog = "ud" THEN {"ah"} ELSE {})
<1>1. CASE prog = "rc"
  <2>1. Close = RcClose /\ Len(RcClose) = 9
    BY <1>1, RcCloseIs DEF Close
  <2>2. \A n \in 1..9 : RcClose[n] \in all
    BY <1>1, RcCloseIs DEF Obtained
  <2>3. \A o \in all : \E n \in 1..9 : RcClose[n] = o
    BY <1>1, RcCloseIs DEF Obtained
  <2> QED  BY <2>1, <2>2, <2>3
<1>2. CASE prog = "uc"
  <2>1. Close = UcClose /\ Len(UcClose) = 8
    BY <1>2, UcCloseIs DEF Close
  <2>2. \A n \in 1..8 : UcClose[n] \in all
    BY <1>2, UcCloseIs DEF Obtained
  <2>3. \A o \in all : \E n \in 1..8 : UcClose[n] = o
    BY <1>2, UcCloseIs DEF Obtained
  <2> QED  BY <2>1, <2>2, <2>3
<1>3. CASE prog = "ud"
  <2>1. Close = UdClose /\ Len(UdClose) = 9
    BY <1>3, UdCloseIs DEF Close
  <2>2. \A n \in 1..9 : UdClose[n] \in all
    BY <1>3, UdCloseIs DEF Obtained
  <2>3. \A o \in all : \E n \in 1..9 : UdClose[n] = o
    BY <1>3, UdCloseIs DEF Obtained
  <2> QED  BY <2>1, <2>2, <2>3
<1>4. CASE prog = "srq"
  <2>1. Close = SrqClose /\ Len(SrqClose) = 10
    BY <1>4, SrqCloseIs DEF Close
  <2>2. \A n \in 1..10 : SrqClose[n] \in all
    BY <1>4, SrqCloseIs DEF Obtained
  <2>3. \A o \in all : \E n \in 1..10 : SrqClose[n] = o
    BY <1>4, SrqCloseIs DEF Obtained
  <2> QED  BY <2>1, <2>2, <2>3
<1>5. CASE prog = "xsrq"
  <2>1. Close = XsrqClose /\ Len(XsrqClose) = 13
    BY <1>5, XsrqCloseIs DEF Close
  <2>2. \A n \in 1..13 : XsrqClose[n] \in all
    BY <1>5, XsrqCloseIs DEF Obtained
  <2>3. \A o \in all : \E n \in 1..13 : XsrqClose[n] = o
    BY <1>5, XsrqCloseIs DEF Obtained
  <2> QED  BY <2>1, <2>2, <2>3
<1> QED  BY <1>1, <1>2, <1>3, <1>4, <1>5 DEF Programs

\* The label k a failed call n jumps to releases what the calls before obtained.
Label(calls, clean, last, n, k) ==
  /\ clean[k] = calls[n][2]
  /\ \A j \in k..last : \E m \in 1..(n - 1) : calls[m][1] = clean[j]
  /\ \A m \in 1..(n - 1) : \/ calls[m][1] \in {"query", "init"}
                           \/ \E j \in k..last : clean[j] = calls[m][1]

LEMMA RcLabels ==
  \A n \in 2..11 : \E k \in 1..9 : Label(RcCalls, RcClean, 9, n, k)
<1>1. /\ RcClean[9] = RcCalls[2][2] /\ RcClean[8] = RcCalls[3][2] /\ RcClean[7] = RcCalls[4][2]
      /\ RcClean[6] = RcCalls[5][2] /\ RcClean[5] = RcCalls[6][2] /\ RcClean[5] = RcCalls[7][2]
      /\ RcClean[4] = RcCalls[8][2] /\ RcClean[3] = RcCalls[9][2] /\ RcClean[2] = RcCalls[10][2]
      /\ RcClean[1] = RcCalls[11][2]
  BY RcLabelsAre, RcCleanIs
<1>2. Label(RcCalls, RcClean, 9, 2, 9)
  BY <1>1, RcCallsAre, RcCleanIs DEF Label
<1>3. Label(RcCalls, RcClean, 9, 3, 8)
  BY <1>1, RcCallsAre, RcCleanIs DEF Label
<1>4. Label(RcCalls, RcClean, 9, 4, 7)
  BY <1>1, RcCallsAre, RcCleanIs DEF Label
<1>5. Label(RcCalls, RcClean, 9, 5, 6)
  BY <1>1, RcCallsAre, RcCleanIs DEF Label
<1>6. Label(RcCalls, RcClean, 9, 6, 5)
  BY <1>1, RcCallsAre, RcCleanIs DEF Label
<1>7. Label(RcCalls, RcClean, 9, 7, 5)
  BY <1>1, RcCallsAre, RcCleanIs DEF Label
<1>8. Label(RcCalls, RcClean, 9, 8, 4)
  BY <1>1, RcCallsAre, RcCleanIs DEF Label
<1>9. Label(RcCalls, RcClean, 9, 9, 3)
  BY <1>1, RcCallsAre, RcCleanIs DEF Label
<1>10. Label(RcCalls, RcClean, 9, 10, 2)
  BY <1>1, RcCallsAre, RcCleanIs DEF Label
<1>11. Label(RcCalls, RcClean, 9, 11, 1)
  BY <1>1, RcCallsAre, RcCleanIs DEF Label
<1> QED  BY <1>2, <1>3, <1>4, <1>5, <1>6, <1>7, <1>8, <1>9, <1>10, <1>11

LEMMA UcLabels ==
  \A n \in 2..9 : \E k \in 1..8 : Label(UcCalls, UcClean, 8, n, k)
<1>1. /\ UcClean[8] = UcCalls[2][2] /\ UcClean[7] = UcCalls[3][2] /\ UcClean[6] = UcCalls[4][2]
      /\ UcClean[5] = UcCalls[5][2] /\ UcClean[4] = UcCalls[6][2] /\ UcClean[3] = UcCalls[7][2]
      /\ UcClean[2] = UcCalls[8][2] /\ UcClean[1] = UcCalls[9][2]
  BY UcLabelsAre, UcCleanIs
<1>2. Label(UcCalls, UcClean, 8, 2, 8)
  BY <1>1, UcCallsAre, UcCleanIs DEF Label
<1>3. Label(UcCalls, UcClean, 8, 3, 7)
  BY <1>1, UcCallsAre, UcCleanIs DEF Label
<1>4. Label(UcCalls, UcClean, 8, 4, 6)
  BY <1>1, UcCallsAre, UcCleanIs DEF Label
<1>5. Label(UcCalls, UcClean, 8, 5, 5)
  BY <1>1, UcCallsAre, UcCleanIs DEF Label
<1>6. Label(UcCalls, UcClean, 8, 6, 4)
  BY <1>1, UcCallsAre, UcCleanIs DEF Label
<1>7. Label(UcCalls, UcClean, 8, 7, 3)
  BY <1>1, UcCallsAre, UcCleanIs DEF Label
<1>8. Label(UcCalls, UcClean, 8, 8, 2)
  BY <1>1, UcCallsAre, UcCleanIs DEF Label
<1>9. Label(UcCalls, UcClean, 8, 9, 1)
  BY <1>1, UcCallsAre, UcCleanIs DEF Label
<1> QED  BY <1>2, <1>3, <1>4, <1>5, <1>6, <1>7, <1>8, <1>9

LEMMA UdLabels ==
  \A n \in 2..10 : \E k \in 1..8 : Label(UdCalls, UdClean, 8, n, k)
<1>1. /\ UdClean[8] = UdCalls[2][2] /\ UdClean[7] = UdCalls[3][2] /\ UdClean[6] = UdCalls[4][2]
      /\ UdClean[6] = UdCalls[5][2] /\ UdClean[5] = UdCalls[6][2] /\ UdClean[4] = UdCalls[7][2]
      /\ UdClean[3] = UdCalls[8][2] /\ UdClean[2] = UdCalls[9][2] /\ UdClean[1] = UdCalls[10][2]
  BY UdLabelsAre, UdCleanIs
<1>2. Label(UdCalls, UdClean, 8, 2, 8)
  BY <1>1, UdCallsAre, UdCleanIs DEF Label
<1>3. Label(UdCalls, UdClean, 8, 3, 7)
  BY <1>1, UdCallsAre, UdCleanIs DEF Label
<1>4. Label(UdCalls, UdClean, 8, 4, 6)
  BY <1>1, UdCallsAre, UdCleanIs DEF Label
<1>5. Label(UdCalls, UdClean, 8, 5, 6)
  BY <1>1, UdCallsAre, UdCleanIs DEF Label
<1>6. Label(UdCalls, UdClean, 8, 6, 5)
  BY <1>1, UdCallsAre, UdCleanIs DEF Label
<1>7. Label(UdCalls, UdClean, 8, 7, 4)
  BY <1>1, UdCallsAre, UdCleanIs DEF Label
<1>8. Label(UdCalls, UdClean, 8, 8, 3)
  BY <1>1, UdCallsAre, UdCleanIs DEF Label
<1>9. Label(UdCalls, UdClean, 8, 9, 2)
  BY <1>1, UdCallsAre, UdCleanIs DEF Label
<1>10. Label(UdCalls, UdClean, 8, 10, 1)
  BY <1>1, UdCallsAre, UdCleanIs DEF Label
<1> QED  BY <1>2, <1>3, <1>4, <1>5, <1>6, <1>7, <1>8, <1>9, <1>10

LEMMA SrqLabels ==
  \A n \in 2..12 : \E k \in 1..10 : Label(SrqCalls, SrqClean, 10, n, k)
<1>1. /\ SrqClean[10] = SrqCalls[2][2] /\ SrqClean[9] = SrqCalls[3][2]
      /\ SrqClean[8] = SrqCalls[4][2]
      /\ SrqClean[8] = SrqCalls[5][2] /\ SrqClean[7] = SrqCalls[6][2]
      /\ SrqClean[6] = SrqCalls[7][2]
      /\ SrqClean[5] = SrqCalls[8][2] /\ SrqClean[4] = SrqCalls[9][2]
      /\ SrqClean[3] = SrqCalls[10][2]
      /\ SrqClean[2] = SrqCalls[11][2] /\ SrqClean[1] = SrqCalls[12][2]
  BY SrqLabelsAre, SrqCleanIs
<1>2. Label(SrqCalls, SrqClean, 10, 2, 10)
  BY <1>1, SrqCallsAre, SrqCleanIs DEF Label
<1>3. Label(SrqCalls, SrqClean, 10, 3, 9)
  BY <1>1, SrqCallsAre, SrqCleanIs DEF Label
<1>4. Label(SrqCalls, SrqClean, 10, 4, 8)
  BY <1>1, SrqCallsAre, SrqCleanIs DEF Label
<1>5. Label(SrqCalls, SrqClean, 10, 5, 8)
  BY <1>1, SrqCallsAre, SrqCleanIs DEF Label
<1>6. Label(SrqCalls, SrqClean, 10, 6, 7)
  BY <1>1, SrqCallsAre, SrqCleanIs DEF Label
<1>7. Label(SrqCalls, SrqClean, 10, 7, 6)
  BY <1>1, SrqCallsAre, SrqCleanIs DEF Label
<1>8. Label(SrqCalls, SrqClean, 10, 8, 5)
  BY <1>1, SrqCallsAre, SrqCleanIs DEF Label
<1>9. Label(SrqCalls, SrqClean, 10, 9, 4)
  BY <1>1, SrqCallsAre, SrqCleanIs DEF Label
<1>10. Label(SrqCalls, SrqClean, 10, 10, 3)
  BY <1>1, SrqCallsAre, SrqCleanIs DEF Label
<1>11. Label(SrqCalls, SrqClean, 10, 11, 2)
  BY <1>1, SrqCallsAre, SrqCleanIs DEF Label
<1>12. Label(SrqCalls, SrqClean, 10, 12, 1)
  BY <1>1, SrqCallsAre, SrqCleanIs DEF Label
<1> QED  BY <1>2, <1>3, <1>4, <1>5, <1>6, <1>7, <1>8, <1>9, <1>10, <1>11, <1>12

LEMMA CleanOwn ==
  ASSUME prog \in Programs \ {"xsrq"}
  PROVE  /\ \A n \in 1..Len(Clean) : Clean[n] \in Obtained
         /\ \A o \in Obtained : \E n \in 1..Len(Clean) : Clean[n] = o
<1>1. CASE prog = "rc"
  <2>1. Clean = RcClean /\ Len(RcClean) = 9
    BY <1>1, RcCleanIs DEF Clean
  <2>2. \A n \in 1..9 : RcClean[n] \in Obtained
    BY <1>1, RcCleanIs DEF Obtained
  <2>3. \A o \in Obtained : \E n \in 1..9 : RcClean[n] = o
    BY <1>1, RcCleanIs DEF Obtained
  <2> QED  BY <2>1, <2>2, <2>3
<1>2. CASE prog = "uc"
  <2>1. Clean = UcClean /\ Len(UcClean) = 8
    BY <1>2, UcCleanIs DEF Clean
  <2>2. \A n \in 1..8 : UcClean[n] \in Obtained
    BY <1>2, UcCleanIs DEF Obtained
  <2>3. \A o \in Obtained : \E n \in 1..8 : UcClean[n] = o
    BY <1>2, UcCleanIs DEF Obtained
  <2> QED  BY <2>1, <2>2, <2>3
<1>3. CASE prog = "ud"
  <2>1. Clean = UdClean /\ Len(UdClean) = 8
    BY <1>3, UdCleanIs DEF Clean
  <2>2. \A n \in 1..8 : UdClean[n] \in Obtained
    BY <1>3, UdCleanIs DEF Obtained
  <2>3. \A o \in Obtained : \E n \in 1..8 : UdClean[n] = o
    BY <1>3, UdCleanIs DEF Obtained
  <2> QED  BY <2>1, <2>2, <2>3
<1>4. CASE prog = "srq"
  <2>1. Clean = SrqClean /\ Len(SrqClean) = 10
    BY <1>4, SrqCleanIs DEF Clean
  <2>2. \A n \in 1..10 : SrqClean[n] \in Obtained
    BY <1>4, SrqCleanIs DEF Obtained
  <2>3. \A o \in Obtained : \E n \in 1..10 : SrqClean[n] = o
    BY <1>4, SrqCleanIs DEF Obtained
  <2> QED  BY <2>1, <2>2, <2>3
<1> QED  BY <1>1, <1>2, <1>3, <1>4 DEF Programs

LEMMA LabelsHold ==
  ASSUME prog \in Programs \ {"xsrq"}
  PROVE  /\ Calls[1][2] = ""
         /\ \A n \in 2..Len(Calls) : \E k \in 1..Len(Clean) :
              Label(Calls, Clean, Len(Clean), n, k)
<1>1. CASE prog = "rc"
  <2>1. Calls = RcCalls /\ Clean = RcClean
    BY <1>1 DEF Calls, Clean
  <2> QED  BY <2>1, RcLabels, RcLabelsAre, RcCallsAre, RcCleanIs
<1>2. CASE prog = "uc"
  <2>1. Calls = UcCalls /\ Clean = UcClean
    BY <1>2 DEF Calls, Clean
  <2> QED  BY <2>1, UcLabels, UcLabelsAre, UcCallsAre, UcCleanIs
<1>3. CASE prog = "ud"
  <2>1. Calls = UdCalls /\ Clean = UdClean
    BY <1>3 DEF Calls, Clean
  <2> QED  BY <2>1, UdLabels, UdLabelsAre, UdCallsAre, UdCleanIs
<1>4. CASE prog = "srq"
  <2>1. Calls = SrqCalls /\ Clean = SrqClean
    BY <1>4 DEF Calls, Clean
  <2> QED  BY <2>1, SrqLabels, SrqLabelsAre, SrqCallsAre, SrqCleanIs
<1> QED  BY <1>1, <1>2, <1>3, <1>4 DEF Programs

LEMMA NoXsrqLabels ==
  ASSUME prog = "xsrq", NEW n \in 1..Len(Calls) PROVE Calls[n][2] = ""
<1>1. Calls = XsrqCalls /\ Len(Calls) = 14
  BY XsrqCallsAre DEF Calls
<1>2. n \in 1..14
  BY <1>1
<1>3. \A m \in {1, 2, 3, 4, 5, 6, 7, 8, 9, 10, 11, 12, 13, 14} : XsrqCalls[m][2] = ""
  BY XsrqLabelsAre
<1>4. n \in {1, 2, 3, 4, 5, 6, 7, 8, 9, 10, 11, 12, 13, 14}
  BY <1>2
<1> QED  BY <1>1, <1>3, <1>4

\* A call that obtains nothing, and a missing label, have names of their own.
LEMMA OwnNames == {"query", "init", ""} \cap Obtained = {}
BY DEF Obtained

\* What the calls obtain, and what one more adds.
LEMMA TakenOwn ==
  ASSUME prog \in Programs, NEW n \in 0..Len(Calls)
  PROVE  /\ Taken(n) \subseteq Obtained
         /\ \A m \in 1..n : Calls[m][1] \in Obtained => Calls[m][1] \in Taken(n) \cup MayBeAbsent
<1>1. \A m \in 1..n : m \in 1..Len(Calls)
  BY CallsOwn
<1>2. Taken(n) \subseteq Obtained
  BY <1>1, CallsOwn DEF Taken
<1> QED  BY <1>2, OwnNames DEF Taken, MayBeAbsent

LEMMA TakenNext ==
  ASSUME prog \in Programs, at \in 1..Len(Calls)
  PROVE  Taken(at) = Taken(at - 1) \cup Obtains
<1>1. Len(Calls) \in Nat
  BY CallsOwn
<1>2. \A k : k \in 1..at <=> k \in 1..(at - 1) \/ k = at
  BY <1>1
<1>3. {Calls[k][1] : k \in 1..at} = {Calls[k][1] : k \in 1..(at - 1)} \cup {Call}
  BY <1>2 DEF Call
<1> QED  BY <1>3 DEF Taken, Obtains

\* What is still needed after a release.
LEMMA StillNeeded ==
  ASSUME prog' = prog, live' \subseteq live, NEW u, NEW o \in live', o \in Needs(u)
  PROVE  o \in Needs(u)'
BY DEF Needs

-----------------------------------------------------------------------------
\* Every step of a program keeps its invariant.
LEMMA ContextInit == ASSUME CtxInit PROVE ContextInv
<1>1. Len(Calls) \in Nat \ {0} /\ prog \in Programs
  BY CallsOwn DEF CtxInit
<1>2. at \in 1..Len(Calls) /\ Taken(at - 1) = {}
  BY <1>1 DEF CtxInit, Taken
<1> QED  BY <1>1, <1>2 DEF CtxInit, ContextInv, NothingOwned

LEMMA ContextTake ==
  ASSUME ContextInv, Take \/ TakeNoFile PROVE ContextInv'
<1>1. /\ func = "init" /\ prog \in Programs /\ opts \subseteq Optional
      /\ at \in 1..Len(Calls)
      /\ Taken(at - 1) \ {"fd"} \subseteq live /\ live \subseteq Taken(at - 1)
  BY DEF ContextInv, Take, TakeNoFile, Go
<1>2. /\ prog' = prog /\ opts' = opts
      /\ \/ at < Len(Calls) /\ at' = at + 1 /\ func' = "init"
         \/ ~(at < Len(Calls)) /\ at' = 1 /\ func' = "use"
  BY <1>1 DEF Take, TakeNoFile, Go
<1>3. Calls' = Calls /\ Len(Calls) \in Nat
  BY <1>1, <1>2, CallsOwn DEF Calls
<1>4. /\ Taken(at) \ {"fd"} \subseteq live' /\ live' \subseteq Taken(at)
  <2>1. CASE Take
    BY <1>1, <2>1, TakenNext DEF Take
  <2>2. CASE TakeNoFile
    <3>1. live' = live /\ Obtains \subseteq {"fd"}
      BY <2>2 DEF TakeNoFile, Obtains
    <3> QED  BY <1>1, <3>1, TakenNext
  <2> QED  BY <2>1, <2>2
<1>5. CASE at < Len(Calls)
  <2>1. at' \in 1..Len(Calls) /\ at' - 1 = at /\ func' = "init"
    BY <1>1, <1>2, <1>3, <1>5
  <2>2. Taken(at - 1)' = Taken(at)
    BY <1>2, <1>3, <2>1 DEF Taken
  <2> QED  BY <1>1, <1>2, <1>3, <1>4, <2>1, <2>2 DEF ContextInv, NothingOwned
<1>6. CASE ~(at < Len(Calls))
  <2>1. at = Len(Calls) /\ at' = 1 /\ func' = "use"
    BY <1>1, <1>2, <1>3, <1>6
  <2>2. Taken(Len(Calls))' = Taken(at)
    BY <1>2, <1>3, <2>1 DEF Taken
  <2> QED  BY <1>1, <1>2, <1>3, <1>4, <2>1, <2>2 DEF ContextInv, NothingOwned
<1> QED  BY <1>5, <1>6

LEMMA ContextTakeFails ==
  ASSUME ContextInv, TakeFails PROVE ContextInv'
<1>1. /\ func = "init" /\ prog \in Programs /\ opts \subseteq Optional
      /\ at \in 1..Len(Calls)
      /\ Taken(at - 1) \ {"fd"} \subseteq live /\ live \subseteq Taken(at - 1)
      /\ UNCHANGED <<prog, opts, live>>
  BY DEF ContextInv, TakeFails
<1>2. Len(Calls) \in Nat
  BY <1>1, CallsOwn
<1>3. CASE Calls[at][2] = ""
  <2>1. func' = "gave_up" /\ at' = 1
    BY <1>3 DEF TakeFails
  <2>2. prog # "xsrq" => live = {}
    <3>1. ASSUME prog # "xsrq", at # 1 PROVE FALSE
      <4>1. PICK k \in 1..Len(Clean) : Clean[k] = Calls[at][2]
        <5>1. at \in 2..Len(Calls) /\ prog \in Programs \ {"xsrq"}
          BY <1>1, <1>2, <3>1
        <5>2. PICK k \in 1..Len(Clean) : Label(Calls, Clean, Len(Clean), at, k)
          BY <5>1, LabelsHold
        <5> QED  BY <5>2 DEF Label
      <4> QED  BY <1>1, <1>3, <3>1, <4>1, CleanOwn, OwnNames
    <3>2. Taken(0) = {}
      BY DEF Taken
    <3> QED  BY <1>1, <3>1, <3>2
  <2> QED  BY <1>1, <2>1, <2>2 DEF ContextInv, NothingOwned
<1>4. CASE Calls[at][2] # ""
  <2>1. prog # "xsrq" /\ at \in 2..Len(Calls)
    <3>1. prog # "xsrq"
      BY <1>1, <1>4, NoXsrqLabels
    <3>2. at # 1
      BY <1>1, <1>4, <3>1, LabelsHold
    <3> QED  BY <1>1, <1>2, <3>1, <3>2
  <2>2. /\ func' = "clean"
        /\ at' = CHOOSE k \in DOMAIN Clean : Clean[k] = Calls[at][2]
    BY <1>4 DEF TakeFails
  <2>3. PICK k \in 1..Len(Clean) : Label(Calls, Clean, Len(Clean), at, k)
    BY <1>1, <2>1, LabelsHold
  <2>4. Ladder(Clean)
    BY <1>1, <2>1, CleanLadder
  <2>5. at' = k
    <3>1. DOMAIN Clean = 1..Len(Clean)
      <4>1. /\ DOMAIN RcClean = 1..Len(RcClean) /\ DOMAIN UcClean = 1..Len(UcClean)
            /\ DOMAIN UdClean = 1..Len(UdClean) /\ DOMAIN SrqClean = 1..Len(SrqClean)
        BY DEF RcClean, UcClean, UdClean, SrqClean
      <4>2. Clean \in {RcClean, UcClean, UdClean, SrqClean}
        BY DEF Clean
      <4> QED  BY <4>1, <4>2
    <3> QED  BY <2>2, <2>3, <2>4, <3>1 DEF Label, Ladder
  <2>6. Clean' = Clean /\ MayBeAbsent' = MayBeAbsent
    BY <1>1 DEF Clean, MayBeAbsent
  <2>7. at - 1 \in 0..Len(Calls) /\ Taken(at - 1) \subseteq Obtained
    BY <1>1, <1>2, <2>1, TakenOwn
  <2>8. \A n \in k..Len(Clean) : Clean[n] \in live \cup MayBeAbsent
    <3>1. SUFFICES ASSUME NEW n \in k..Len(Clean) PROVE Clean[n] \in live \cup MayBeAbsent
      OBVIOUS
    <3>2. PICK m \in 1..(at - 1) : Calls[m][1] = Clean[n]
      BY <2>3 DEF Label
    <3>3. Clean[n] \in Obtained
      BY <1>1, <2>1, <2>4, CleanOwn DEF Ladder
    <3> QED  BY <1>1, <2>7, <3>2, <3>3, TakenOwn DEF MayBeAbsent
  <2>9. \A n \in 1..(k - 1) : Clean[n] \notin live
    <3>1. SUFFICES ASSUME NEW n \in 1..(k - 1), Clean[n] \in live PROVE FALSE
      OBVIOUS
    <3>2. PICK m \in 1..(at - 1) : Calls[m][1] = Clean[n] /\ Calls[m][1] \notin {"query", "init"}
      BY <1>1, <3>1 DEF Taken
    <3>3. PICK j \in k..Len(Clean) : Clean[j] = Calls[m][1]
      BY <2>3, <3>2 DEF Label
    <3> QED  BY <2>4, <3>2, <3>3 DEF Ladder
  <2>10. \A o \in live : \E n \in 1..Len(Clean) : Clean[n] = o
    BY <1>1, <2>1, <2>7, CleanOwn
  <2>11. Remaining(Clean)'
    BY <1>1, <2>5, <2>6, <2>8, <2>10 DEF Remaining
  <2> QED  BY <1>1, <2>1, <2>2, <2>5, <2>6, <2>9, <2>11 DEF ContextInv, NothingOwned
<1> QED  BY <1>3, <1>4

LEMMA ContextUse ==
  ASSUME ContextInv, Use PROVE ContextInv'
<1>1. /\ func = "use" /\ prog \in Programs /\ opts \subseteq Optional
      /\ Taken(Len(Calls)) \ {"fd"} \subseteq live /\ live \subseteq Taken(Len(Calls))
      /\ UNCHANGED <<prog, opts>> /\ func' = "close" /\ at' = 1
      /\ live' = live \cup (IF prog = "ud" THEN {"ah"} ELSE {})
  BY DEF ContextInv, Use, Go
<1>2. Close' = Close /\ MayBeAbsent' = MayBeAbsent /\ Ladder(Close)
  BY <1>1, CloseLadder DEF Close, MayBeAbsent
<1>3. Len(Calls) \in 0..Len(Calls) /\ Taken(Len(Calls)) \subseteq Obtained
  BY <1>1, CallsOwn, TakenOwn
<1>4. \A o \in live' : \E n \in 1..Len(Close) : Close[n] = o
  BY <1>1, <1>3, CloseOwn
<1>5. \A n \in 1..Len(Close) : Close[n] \in live' \cup MayBeAbsent
  <2>1. SUFFICES ASSUME NEW n \in 1..Len(Close), Close[n] \in Obtained
                 PROVE  Close[n] \in live' \cup MayBeAbsent
    BY <1>1, CloseOwn
  <2>2. PICK m \in 1..Len(Calls) : Calls[m][1] = Close[n]
    BY <1>1, <2>1, CallsOwn
  <2> QED  BY <1>1, <1>3, <2>1, <2>2, TakenOwn DEF MayBeAbsent
<1>6. Remaining(Close)'
  BY <1>1, <1>2, <1>4, <1>5 DEF Remaining, Ladder
<1> QED  BY <1>1, <1>2, <1>6 DEF ContextInv, NothingOwned

LEMMA ContextCleanUp ==
  ASSUME ContextInv, CleanUp PROVE ContextInv'
<1> DEFINE o == Clean[at]
<1>1. /\ func = "clean" /\ prog \in Programs \ {"xsrq"} /\ opts \subseteq Optional
      /\ Remaining(Clean)
      /\ \A n \in 1..(at - 1) : Clean[n] \in live => Stuck(Clean[n])
      /\ UNCHANGED <<prog, opts>>
      /\ \/ at < Len(Clean) /\ at' = at + 1 /\ func' = "clean"
         \/ ~(at < Len(Clean)) /\ at' = 1 /\ func' = "gave_up"
  BY DEF ContextInv, CleanUp, Go
<1>2. Clean' = Clean /\ MayBeAbsent' = MayBeAbsent /\ Ladder(Clean) /\ at \in 1..Len(Clean)
  BY <1>1, CleanLadder DEF Clean, MayBeAbsent, Remaining
<1>3. live' \subseteq live /\ \A x \in live : x # o => x \in live'
  BY DEF CleanUp
<1>4. ASSUME NEW n \in 1..at, Clean[n] \in live' PROVE Stuck(Clean[n])'
  <2>1. CASE n = at
    <3>1. MayStay(o) /\ live' = live
      BY <1>4, <2>1 DEF CleanUp
    <3>2. Stuck(o)
      BY <3>1 DEF MayStay, MayGo, Stuck
    <3>3. \A u \in live : o \in Needs(u) => o \in Needs(u)'
      BY <1>1, <3>1, StillNeeded DEF MayStay
    <3> QED  BY <1>2, <2>1, <3>1, <3>2, <3>3 DEF Stuck, InUse
  <2>2. CASE n # at
    <3>1. Stuck(Clean[n])
      BY <1>1, <1>2, <1>3, <1>4, <2>2
    <3>2. ASSUME NEW u \in live, Clean[n] \in Needs(u) PROVE u \in live'
      <4>1. u # o
        BY <1>2, <2>2, <3>2 DEF Ladder
      <4> QED  BY <1>3, <4>1
    <3>3. ASSUME NEW u \in live, Clean[n] \in Needs(u)
          PROVE  u \in live' /\ Clean[n] \in Needs(u)'
      BY <1>1, <1>3, <1>4, <3>2, <3>3, StillNeeded
    <3> QED  BY <1>2, <3>1, <3>3 DEF Stuck, InUse
  <2> QED  BY <2>1, <2>2
<1>5. \A x \in live' : \E n \in 1..Len(Clean) : Clean[n] = x
  BY <1>1, <1>3 DEF Remaining
<1>6. CASE at < Len(Clean)
  <2>1. at' \in 1..Len(Clean) /\ at' = at + 1 /\ func' = "clean"
    BY <1>1, <1>2, <1>6 DEF Ladder
  <2>2. \A n \in at'..Len(Clean) : Clean[n] \in live' \cup MayBeAbsent
    BY <1>1, <1>2, <1>3, <2>1 DEF Remaining, Ladder
  <2>3. Remaining(Clean)'
    BY <1>2, <1>5, <2>1, <2>2 DEF Remaining
  <2>4. \A n \in 1..(at' - 1) : Clean[n] \in live' => Stuck(Clean[n])'
    BY <1>2, <1>4, <2>1
  <2> QED  BY <1>1, <1>2, <2>1, <2>3, <2>4 DEF ContextInv, NothingOwned
<1>7. CASE ~(at < Len(Clean))
  <2>1. at = Len(Clean) /\ func' = "gave_up"
    BY <1>1, <1>2, <1>7 DEF Ladder
  <2>2. ASSUME NEW x \in live' PROVE Stuck(x)'
    <3>1. PICK n \in 1..Len(Clean) : Clean[n] = x
      BY <1>5
    <3> QED  BY <1>2, <1>4, <2>1, <3>1
  <2> QED  BY <1>1, <2>1, <2>2 DEF ContextInv, NothingOwned
<1> QED  BY <1>6, <1>7

LEMMA ContextClose ==
  ASSUME ContextInv, CloseCtx PROVE ContextInv'
<1>1. /\ func = "close" /\ prog \in Programs /\ opts \subseteq Optional
      /\ Remaining(Close)
      /\ \A n \in 1..(at - 1) : Close[n] \notin live
      /\ UNCHANGED <<prog, opts>> /\ live' = live \ {Close[at]}
      /\ \/ at < Len(Close) /\ at' = at + 1 /\ func' = "close"
         \/ ~(at < Len(Close)) /\ at' = 1 /\ func' = "closed"
  BY DEF ContextInv, CloseCtx, Go
<1>2. Close' = Close /\ MayBeAbsent' = MayBeAbsent /\ Ladder(Close) /\ at \in 1..Len(Close)
  BY <1>1, CloseLadder DEF Close, MayBeAbsent, Remaining
<1>3. \A n \in 1..at : Close[n] \notin live'
  BY <1>1, <1>2
<1>4. \A x \in live' : \E n \in 1..Len(Close) : Close[n] = x
  BY <1>1 DEF Remaining
<1>5. CASE at < Len(Close)
  <2>1. at' \in 1..Len(Close) /\ at' = at + 1 /\ func' = "close"
    BY <1>1, <1>2, <1>5 DEF Ladder
  <2>2. \A n \in at'..Len(Close) : Close[n] \in live' \cup MayBeAbsent
    BY <1>1, <1>2, <2>1 DEF Remaining, Ladder
  <2>3. Remaining(Close)'
    BY <1>2, <1>4, <2>1, <2>2 DEF Remaining
  <2>4. \A n \in 1..(at' - 1) : Close[n] \notin live'
    BY <1>2, <1>3, <2>1
  <2> QED  BY <1>1, <1>2, <2>1, <2>3, <2>4 DEF ContextInv, NothingOwned
<1>6. CASE ~(at < Len(Close))
  <2>1. at = Len(Close) /\ func' = "closed"
    BY <1>1, <1>2, <1>6 DEF Ladder
  <2>2. live' = {}
    BY <1>3, <1>4, <2>1
  <2> QED  BY <1>1, <2>1, <2>2 DEF ContextInv, NothingOwned
<1> QED  BY <1>5, <1>6

LEMMA ContextStep == ASSUME ContextInv, CtxNext PROVE ContextInv'
<1>1. CASE CloseFails
  BY <1>1 DEF CloseFails, ContextInv, NothingOwned
<1>2. CASE Returned
  BY <1>2 DEF Returned, ctxVars, ContextInv, NothingOwned, Stuck, InUse, Needs
<1> QED
  BY <1>1, <1>2, ContextTake, ContextTakeFails, ContextUse, ContextCleanUp, ContextClose
     DEF CtxNext

LEMMA ContextInOrder == ASSUME ContextInv PROVE InOrder
<1>1. CASE func = "clean"
  <2> DEFINE o == Clean[at]
  <2>1. Remaining(Clean) /\ prog \in Programs \ {"xsrq"}
        /\ \A n \in 1..(at - 1) : Clean[n] \in live => Stuck(Clean[n])
    BY <1>1 DEF ContextInv
  <2>2. Ladder(Clean) /\ at \in 1..Len(Clean) /\ o \in live \cup MayBeAbsent
    BY <2>1, CleanLadder DEF Remaining, Ladder
  <2>3. ASSUME NEW u \in live, o \in Needs(u) PROVE Stuck(u)
    <3>1. PICK n \in 1..Len(Clean) : Clean[n] = u
      BY <2>1 DEF Remaining
    <3>2. n < at
      BY <2>2, <2>3, <3>1 DEF Ladder
    <3> QED  BY <2>1, <2>2, <3>1, <3>2
  <2> QED  BY <1>1, <2>2, <2>3 DEF InOrder
<1>2. CASE func = "close"
  <2> DEFINE o == Close[at]
  <2>1. Remaining(Close) /\ prog \in Programs
        /\ \A n \in 1..(at - 1) : Close[n] \notin live
    BY <1>2 DEF ContextInv
  <2>2. Ladder(Close) /\ at \in 1..Len(Close) /\ o \in live \cup MayBeAbsent
    BY <2>1, CloseLadder DEF Remaining, Ladder
  <2>3. ASSUME NEW u \in live, o \in Needs(u) PROVE FALSE
    <3>1. PICK n \in 1..Len(Close) : Close[n] = u
      BY <2>1 DEF Remaining
    <3>2. n < at
      BY <2>2, <2>3, <3>1 DEF Ladder
    <3> QED  BY <2>1, <2>2, <3>1, <3>2
  <2> QED  BY <1>2, <2>2, <2>3 DEF InOrder
<1> QED  BY <1>1, <1>2 DEF InOrder

-----------------------------------------------------------------------------
\* All programs together.
LEMMA OwnInitInv == OwnInit => OwnInv
<1>1. ASSUME CtxInit PROVE ~IsRdma1
  BY <1>1 DEF CtxInit, Programs, IsRdma1
<1> QED  BY <1>1, ContextInit, Rdma1Init DEF OwnInit, OwnInv, IsRdma1

LEMMA OwnStepInv == OwnInv /\ [OwnNext]_ownVars => OwnInv'
<1> SUFFICES ASSUME OwnInv, [OwnNext]_ownVars PROVE OwnInv'
  OBVIOUS
<1>1. CASE UNCHANGED ownVars
  <2>1. CASE IsRdma1
    BY <1>1, <2>1 DEF ownVars, ctxVars, IsRdma1, OwnInv, Rdma1Inv, ObjectsInv, Creating, Releasing
  <2>2. CASE ~IsRdma1
    <3>1. ContextInv /\ UNCHANGED <<prog, opts, func, at, live>>
      BY <1>1, <2>2 DEF ownVars, ctxVars, OwnInv
    <3>2. ContextInv'
      BY <3>1 DEF ContextInv, Taken, Calls, Clean, Close, Remaining, MayBeAbsent,
                  NothingOwned, Stuck, InUse, Needs
    <3> QED  BY <2>2, <3>1, <3>2 DEF OwnInv, IsRdma1
  <2> QED  BY <2>1, <2>2
<1>2. CASE IsRdma1 /\ Rdma1!Next /\ UNCHANGED <<prog, opts>>
  <2>1. Rdma1Inv /\ IsRdma1'
    BY <1>2 DEF OwnInv, IsRdma1
  <2>2. CASE Rdma1!Returned
    BY <2>1, <2>2 DEF Rdma1!Returned, Rdma1!vars, OwnInv, Rdma1Inv, ObjectsInv, Creating,
                      Releasing
  <2> QED
    BY <1>2, <2>1, <2>2, Rdma1Create, Rdma1CreateFails, Rdma1Use, Rdma1ReleaseNext
       DEF Rdma1!Next, OwnInv
<1>3. CASE ~IsRdma1 /\ CtxNext /\ UNCHANGED <<handle, failed, rc>>
  <2>1. ContextInv /\ ContextInv'
    BY <1>3, ContextStep DEF OwnInv
  <2> QED  BY <2>1 DEF OwnInv, ContextInv, Programs, IsRdma1
<1> QED  BY <1>1, <1>2, <1>3 DEF OwnNext

LEMMA OwnAlways == OwnSpec => []OwnInv
BY OwnInitInv, OwnStepInv, PTL DEF OwnSpec

\* Whatever call of resources_create or pp_init_ctx fails, and whatever set of
\* objects the adapter does not let go of, the ladder of clean_ labels,
\* pp_close_ctx, the cleanup of resources_create and resources_destroy release
\* only what exists, each object once, and none before what is built on it, but
\* for what could not be released.
THEOREM ReleasedInOrderHolds == OwnSpec => []ReleasedInOrder
<1>1. OwnInv => ReleasedInOrder
  BY Rdma1Properties, ContextInOrder DEF OwnInv, ReleasedInOrder
<1> QED  BY <1>1, OwnAlways, PTL

\* When pp_close_ctx reports no failure nothing is left; when pp_init_ctx of a
\* program with labels gives up, or resources_destroy of rdma1 has run, what is
\* left could not be released (the listening socket of rdma1 aside, which stays
\* open), and rdma1 returns 0 only if every release succeeded.
THEOREM NothingLeftHolds == OwnSpec => []NothingLeft
<1>1. OwnInv => NothingLeft
  BY Rdma1Properties DEF OwnInv, NothingLeft, ContextInv
<1> QED  BY <1>1, OwnAlways, PTL
=============================================================================
