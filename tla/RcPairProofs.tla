---------------------------- MODULE RcPairProofs ----------------------------
(***************************************************************************)
(* Theorems about RcPair, for every ConLen and every choice of Faults.     *)
(*                                                                         *)
(* First the types, the requests and completions of a side (CreditInv),    *)
(* the place of each program (PlaceInv) and the bytes between them         *)
(* (StreamInv).  Then what the exchanges do: they put the two programs in  *)
(* the order they need (SyncInv, which reads it off the counts of bytes    *)
(* and requests), whence RequestsLand, BufferSafe and GivingUpNoticed.     *)
(* Last which text lies in which buffer (TextInv), so that RcPair          *)
(* implements RcTransfer.                                                  *)
(***************************************************************************)
EXTENDS RcPair, SequenceTheorems, TLAPS

\* Steps at which control is inside connect_qp or the body of main.
Body == ConnectSteps \cup MainSteps

LEMMA FollowSteps == ASSUME NEW p \in Peers, NEW at \in Body
                     PROVE  Follow(p, at) \in Steps
BY DEF Body, Follow, ConnectQp, Main, Steps, ConnectSteps, MainSteps, ExitSteps

LEMMA StepNames ==
  /\ {"start", "accept", "create", "con_write", "init", "destroy", "close", "done"}
       \subseteq Steps
  /\ WriteSteps \cup ReadSteps \cup VerbsSteps \cup PollSteps \subseteq Body
  /\ {"got_msg", "fill", "put", "report"} \subseteq Body
BY DEF Steps, Body, ConnectSteps, MainSteps, ExitSteps, WriteSteps, ReadSteps,
       VerbsSteps, PollSteps

\* The calls that go on in connect_qp or main.
LEMMA ContinueType ==
  ASSUME pc \in [Peers -> Steps], NEW p \in Peers, pc[p] \in Body, Continue(p)
  PROVE  pc' \in [Peers -> Steps]
BY FollowSteps DEF Continue, Goto

LEMMA OtherPeer == ASSUME NEW p \in Peers
                   PROVE  Other(p) \in Peers /\ Other(p) # p
BY RcAssumption DEF Peers, Other

-----------------------------------------------------------------------------
LEMMA InitStateOK == Init => StateOK
<1> SUFFICES ASSUME Init PROVE StateOK
  OBVIOUS
<1> QED  BY RcAssumption DEF Init, StateOK, Peers, Steps, Bytes, Garbage,
              Contents, QpStates, CQE, Ops

LEMMA EstablishStateOK ==
  ASSUME StateOK, Establish \/ ConnectRefused PROVE StateOK'
<1> USE StepNames DEF StateOK, Goto, Peers
<1>1. CASE Listen
  BY <1>1 DEF Listen, nic
<1>2. CASE Connect
  BY <1>2 DEF Connect, nic
<1>3. CASE Accept
  BY <1>3 DEF Accept, nic
<1>4. CASE ConnectRefused
  BY <1>4 DEF ConnectRefused, nic, tcp
<1> QED  BY <1>1, <1>2, <1>3, <1>4 DEF Establish

LEMMA CloseType ==
  ASSUME StateOK, NEW p \in Peers, CloseSocket(p)
  PROVE  /\ sock' \in [Peers -> {"none", "listening", "open", "closed"}]
         /\ peerEnd' \in [Peers -> {"up", "fin", "finrst", "rst"}]
         /\ chan' \in [Peers -> Seq(Bytes)]
BY OtherPeer DEF StateOK, CloseSocket

LEMMA LifetimeStateOK ==
  ASSUME StateOK, NEW p \in Peers, Lifetime(p) \/ Failure(p) PROVE StateOK'
<1>1. CASE ResourcesCreate(p)
  BY <1>1, StepNames DEF StateOK, ResourcesCreate, Goto, tcp, QpStates, Contents
<1>2. CASE DestroyVerbs(p)
  <2>1. rc' \in [Peers -> {0, 1}] /\ buf' \in [Peers -> Contents]
    BY <1>2 DEF StateOK, DestroyVerbs, Contents
  <2>2. qp' \in [Peers -> QpStates]
    BY <1>2 DEF StateOK, DestroyVerbs, QpStates
  <2>3. /\ rq' \in [Peers -> Nat]
        /\ sq' \in [Peers -> Seq(Ops)]
        /\ pend' \in [Peers -> Seq(CQE)]
        /\ cq' \in [Peers -> Seq(CQE)]
    BY <1>2 DEF StateOK, DestroyVerbs
  <2> QED  BY <1>2, <2>1, <2>2, <2>3, StepNames DEF StateOK, DestroyVerbs, Goto, tcp
<1>3. CASE CloseAndReturn(p)
  BY <1>3, StepNames, CloseType DEF StateOK, CloseAndReturn, Goto, nic
<1>4. CASE ResourcesCreateFails(p)
  BY <1>4, StepNames, CloseType DEF StateOK, ResourcesCreateFails, Goto, nic
<1>5. CASE VerbsError(p)
  BY <1>5, StepNames DEF StateOK, VerbsError, Goto, nic, tcp
<1> QED  BY <1>1, <1>2, <1>3, <1>4, <1>5 DEF Lifetime, Failure

LEMMA PayloadType ==
  ASSUME NEW p \in Peers, NEW at \in WriteSteps
  PROVE  Payload(p, at) \in Seq(Bytes)
<1>1. CASE at = "con_write"
  BY <1>1, RcAssumption DEF Payload, ConData, Bytes
<1>2. ASSUME NEW c \in {"Q", "R", "W"} PROVE <<Token(c)>> \in Seq(Bytes)
  BY DEF Bytes
<1> QED  BY <1>1, <1>2 DEF Payload, WriteSteps

LEMMA SyncStateOK ==
  ASSUME StateOK, NEW p \in Peers, Sync(p) PROVE StateOK'
<1>1. CASE SyncWrite(p)
  <2>1. pc' \in [Peers -> Steps]
    BY <1>1, StepNames, ContinueType DEF StateOK, SyncWrite, Goto
  <2>2. chan' \in [Peers -> Seq(Bytes)]
    BY <1>1, OtherPeer, PayloadType DEF StateOK, SyncWrite
  <2> QED  BY <1>1, <2>1, <2>2 DEF StateOK, SyncWrite, nic
<1>2. CASE ShortWrite(p)
  <2> PICK k \in 1..(ConLen - 1) :
             /\ chan' = [chan EXCEPT ![Other(p)] = @ \o SubSeq(ConData(p), 1, k)]
             /\ Goto(p, "init")
             /\ UNCHANGED <<rc, total, remote, out, sock, peerEnd, nic, buf>>
    BY <1>2 DEF ShortWrite
  <2>1. SubSeq(ConData(p), 1, k) \in Seq(Bytes)
    BY RcAssumption DEF ConData, Bytes
  <2> QED  BY <2>1, OtherPeer, StepNames DEF StateOK, Goto, nic
<1>3. CASE SyncRead(p)
  <2> PICK n \in 1..XferSize(pc[p]) :
             /\ pc[p] \in ReadSteps
             /\ n <= Len(chan[p])
             /\ chan' = [chan EXCEPT ![p] = SubSeq(@, n + 1, Len(@))]
             /\ total' = [total EXCEPT ![p] = Count(p, n)]
             /\ remote' = IF pc[p] = "con_read"
                   THEN [remote EXCEPT ![p] = [i \in 1..ConLen |->
                           IF i <= n THEN chan[p][i] ELSE @[i]]]
                   ELSE remote
             /\ IF total[p] + n >= XferSize(pc[p]) THEN Continue(p) ELSE UNCHANGED pc
             /\ UNCHANGED <<rc, out, sock, peerEnd, nic, buf>>
    BY <1>3 DEF SyncRead
  <2>1. XferSize(pc[p]) \in 1..2
    BY RcAssumption DEF XferSize
  <2>2. chan' \in [Peers -> Seq(Bytes)]
    BY <2>1 DEF StateOK
  <2>3. total' \in [Peers -> 0..1]
    <3>1. total \in [Peers -> 0..1] /\ total[p] \in 0..1
      BY DEF StateOK
    <3>2. Count(p, n) \in 0..1
      BY <2>1, <3>1 DEF Count
    <3> QED  BY <3>1, <3>2
  <2>4. remote' \in [Peers -> [1..ConLen -> Bytes \cup {Garbage}]]
    <3>1. \A i \in 1..ConLen : i <= n => chan[p][i] \in Bytes
      BY <2>1, RcAssumption DEF StateOK
    <3> QED  BY <3>1 DEF StateOK
  <2>5. pc' \in [Peers -> Steps]
    BY StepNames, ContinueType DEF StateOK
  <2> QED  BY <2>2, <2>3, <2>4, <2>5 DEF StateOK, nic
<1>4. CASE SyncReadFails(p)
  BY <1>4, StepNames DEF StateOK, SyncReadFails, Goto, tcp, nic
<1>5. CASE SyncSpin(p)
  BY <1>5 DEF StateOK, SyncSpin, vars, prog, tcp, nic
<1> QED  BY <1>1, <1>2, <1>3, <1>4, <1>5 DEF Sync

LEMMA VerbsStateOK ==
  ASSUME StateOK, NEW p \in Peers, Verbs(p) PROVE StateOK'
<1>1. ASSUME NEW at \in VerbsSteps, NEW to \in QpStates, ModifyQp(p, at, to)
      PROVE  StateOK'
  BY <1>1, StepNames, ContinueType DEF StateOK, ModifyQp, tcp
<1>2. ModifyQpToInit(p) \/ ModifyQpToRtr(p) \/ ModifyQpToRts(p) => StateOK'
  BY <1>1 DEF ModifyQpToInit, ModifyQpToRtr, ModifyQpToRts, VerbsSteps, QpStates
<1>3. CASE PostReceive(p)
  BY <1>3, StepNames, ContinueType DEF StateOK, PostReceive, tcp, VerbsSteps
<1>4. ASSUME NEW at \in VerbsSteps, NEW op \in Ops, PostSend(p, at, op)
      PROVE  StateOK'
  BY <1>4, StepNames, ContinueType DEF StateOK, PostSend, tcp
<1>5. PostAnySend(p) => StateOK'
  BY <1>4 DEF PostAnySend, VerbsSteps, Ops
<1>6. CASE PollCompletion(p)
  <2>1. pc' \in [Peers -> Steps]
    BY <1>6, StepNames, ContinueType DEF StateOK, PollCompletion, Goto
  <2>2. cq' \in [Peers -> Seq(CQE)]
    <3>1. cq[p] \in Seq(CQE) /\ cq[p] # <<>>
      BY <1>6 DEF StateOK, PollCompletion
    <3>2. Tail(cq[p]) \in Seq(CQE)
      BY <3>1
    <3> QED  BY <1>6, <3>2 DEF StateOK, PollCompletion
  <2> QED  BY <1>6, <2>1, <2>2 DEF StateOK, PollCompletion, tcp
<1>7. CASE PollTimeout(p)
  BY <1>7, StepNames DEF StateOK, PollTimeout, Goto, tcp, nic
<1> QED  BY <1>2, <1>3, <1>5, <1>6, <1>7 DEF Verbs

LEMMA BufferStateOK ==
  ASSUME StateOK, NEW p \in Peers, Buffer(p) PROVE StateOK'
<1>1. pc' \in [Peers -> Steps]
  BY StepNames, ContinueType DEF Buffer, PrintMessage, SetupReadMessage,
     ReplaceContents, Report, StateOK
<1>2. out' \in [Peers -> Seq(Contents)]
  <2>1. ASSUME Show(p) PROVE out' \in [Peers -> Seq(Contents)]
    <3>1. Append(out[p], buf[p]) \in Seq(Contents)
      BY DEF StateOK
    <3> QED  BY <2>1, <3>1 DEF StateOK, Show
  <2>2. Show(p) \/ UNCHANGED out
    BY DEF Buffer, PrintMessage, SetupReadMessage, ReplaceContents, Report
  <2> QED  BY <2>1, <2>2 DEF StateOK
<1>3. buf' \in [Peers -> Contents] /\ rc' \in [Peers -> {0, 1}]
  BY DEF Buffer, PrintMessage, SetupReadMessage, ReplaceContents, Report,
     Contents, StateOK
<1> QED
  BY <1>1, <1>2, <1>3 DEF Buffer, PrintMessage, SetupReadMessage,
     ReplaceContents, Report, StateOK, tcp, nic

LEMMA CompletionType ==
  ASSUME NEW op \in Ops \cup {"RECV"}, NEW ok \in BOOLEAN
  PROVE  [op |-> op, ok |-> ok] \in CQE
BY Zenon DEF CQE

\* What the queues of both sides may become when one request is executed.
LEMMA AdapterStateOK ==
  ASSUME StateOK, NEW p \in Peers, Adapter(p) PROVE StateOK'
<1>1. CASE Execute(p)
  <2> DEFINE q  == Other(p)
             op == Head(sq[p])
             ok == Granted(p, op)
             received == IF ok /\ op = "SEND"
                           THEN <<[op |-> "RECV", ok |-> TRUE]>> ELSE <<>>
  <2>1. PICK heard \in BOOLEAN :
          LET acked == ok /\ heard /\ Reaches(q, p)
              done  == Append(pend[p], [op |-> op, ok |-> acked]) IN
          /\ sq[p] # <<>>
          /\ sq' = [sq EXCEPT ![p] = Tail(@)]
          /\ buf' = IF ok /\ (acked \/ op # "READ") THEN Transfer(p, op) ELSE buf
          /\ rq' = [rq EXCEPT ![q] = @ - Len(received)]
          /\ pend' = [pend EXCEPT ![p] = done, ![q] = @ \o received]
          /\ qp' = [qp EXCEPT ![p] = IF acked THEN @ ELSE "ERR"]
          /\ UNCHANGED <<prog, tcp, cq>>
    BY <1>1 DEF Execute
  <2>2. q \in Peers /\ q # p
    BY OtherPeer
  <2>3. op \in Ops /\ Tail(sq[p]) \in Seq(Ops)
    BY <2>1 DEF StateOK
  <2>4. buf' \in [Peers -> Contents]
    BY <2>1, <2>2 DEF StateOK, Transfer
  <2>5. received \in Seq(CQE) /\ Len(received) \in {0, 1}
    <3>1. [op |-> "RECV", ok |-> TRUE] \in CQE
      BY CompletionType
    <3> QED  BY <3>1
  <2>6. rq' \in [Peers -> Nat]
    <3>1. ok /\ op = "SEND" => rq[q] > 0
      BY DEF Granted
    <3>2. rq[q] - Len(received) \in Nat
      BY <2>2, <2>5, <3>1 DEF StateOK
    <3> QED  BY <2>1, <2>2, <3>2 DEF StateOK
  <2>7. pend' \in [Peers -> Seq(CQE)]
    <3>1. \A b \in BOOLEAN : Append(pend[p], [op |-> op, ok |-> b]) \in Seq(CQE)
      BY <2>3, CompletionType DEF StateOK
    <3>2. (ok /\ heard /\ Reaches(q, p)) \in BOOLEAN
      OBVIOUS
    <3>3. pend[q] \o received \in Seq(CQE)
      BY <2>2, <2>5 DEF StateOK
    <3> HIDE DEF ok, received, op, q
    <3> QED  BY <2>1, <2>2, <3>1, <3>2, <3>3 DEF StateOK
  <2>8. qp' \in [Peers -> QpStates]
    BY <2>1 DEF StateOK, QpStates
  <2> QED  BY <2>1, <2>3, <2>4, <2>6, <2>7, <2>8 DEF StateOK, prog, tcp
<1>2. CASE RetryExceeded(p)
  <2>1. Head(sq[p]) \in Ops /\ Tail(sq[p]) \in Seq(Ops)
    BY <1>2 DEF StateOK, RetryExceeded
  <2>2. Append(pend[p], [op |-> Head(sq[p]), ok |-> FALSE]) \in Seq(CQE)
    <3>1. [op |-> Head(sq[p]), ok |-> FALSE] \in CQE
      BY <2>1, CompletionType
    <3> QED  BY <3>1 DEF StateOK
  <2> QED  BY <1>2, <2>1, <2>2 DEF StateOK, RetryExceeded, prog, tcp, QpStates
<1>3. CASE DeliverCompletion(p)
  <2>1. Head(pend[p]) \in CQE /\ Tail(pend[p]) \in Seq(CQE)
    BY <1>3 DEF StateOK, DeliverCompletion
  <2> QED  BY <1>3, <2>1 DEF StateOK, DeliverCompletion, prog, tcp
<1> QED  BY <1>1, <1>2, <1>3 DEF Adapter

LEMMA NextStateOK == StateOK /\ [Next]_vars => StateOK'
<1> SUFFICES ASSUME StateOK, [Next]_vars PROVE StateOK'
  OBVIOUS
<1>1. CASE UNCHANGED vars
  BY <1>1 DEF StateOK, vars, prog, tcp, nic
<1>2. CASE Establish \/ ConnectRefused
  BY <1>2, EstablishStateOK
<1>3. ASSUME NEW p \in Peers, Program(p) \/ Failure(p) \/ Adapter(p)
      PROVE  StateOK'
  BY <1>3, SyncStateOK, VerbsStateOK, BufferStateOK, LifetimeStateOK,
     AdapterStateOK DEF Program
<1> QED  BY <1>1, <1>2, <1>3 DEF Next, Finished

\* Every variable of the two programs, of the TCP connection and of the
\* adapters has its type in every reachable state.
THEOREM TypeCorrect == Spec => []TypeOK
<1>1. Init => faults \in {{}, Faults}
  BY DEF Init
<1>2. [Next]_vars => UNCHANGED faults
  BY DEF Next, Establish, ConnectRefused, Program, Failure, Adapter, Finished, vars
<1>3. faults \in {{}, Faults} /\ UNCHANGED faults => (faults \in {{}, Faults})'
  OBVIOUS
<1>4. faults \in {{}, Faults} /\ StateOK => TypeOK
  BY DEF TypeOK
<1> QED  BY InitStateOK, NextStateOK, <1>1, <1>2, <1>3, <1>4, PTL DEF Spec

-----------------------------------------------------------------------------
(* QueuesFit and CompletionMatches.  Neither is inductive: what keeps the  *)
(* queues short is that a request, its completion on the way and its entry *)
(* in the completion queue are one and the same credit, taken when the     *)
(* request is posted and given back by poll_completion.                    *)

\* The requests and completions of p that poll_completion has not yet taken.
Load(p) == rq[p] + Len(sq[p]) + Len(pend[p]) + Len(cq[p])

\* The operations whose completion p may still get where it is now.
Awaited(p) ==
  CASE pc[p] = "poll_send"  -> {"SEND"}
    [] pc[p] = "poll_read"  -> {"READ"}
    [] pc[p] = "poll_write" -> {"WRITE"}
    [] pc[p] = "poll_recv"  -> {"RECV"}
    [] p = Client /\ pc[p] \in {"rtr", "rts", "q_write", "q_read"} -> {"RECV"}
    [] pc[p] = "destroy"    -> Ops \cup {"RECV"}
    [] OTHER                -> {}

Window(p) == IF Awaited(p) = {} THEN 0 ELSE 1

Credit(p) == /\ Load(p) <= Window(p)
             /\ rq[p] > 0 => "RECV" \in Awaited(p)
             /\ \A i \in 1..Len(sq[p]) : sq[p][i] \in Awaited(p)
             /\ \A i \in 1..Len(pend[p]) : pend[p][i].op \in Awaited(p)
             /\ \A i \in 1..Len(cq[p]) : cq[p][i].op \in Awaited(p)

CreditInv == /\ StateOK
             /\ pc[Server] # "post_rr"
             /\ \A p \in Peers : Credit(p)

\* Arithmetic about the four summands of Load.
LEMMA SumBound ==
  ASSUME NEW a \in Nat, NEW b \in Nat, NEW c \in Nat, NEW d \in Nat,
         a + b + c + d <= 1
  PROVE  a <= 1 /\ b <= 1 /\ d + c <= 1
OBVIOUS

LEMMA SumLast ==
  ASSUME NEW a \in Nat, NEW b \in Nat, NEW c \in Nat, NEW d \in Nat,
         a + b + c + d <= 1, d > 0
  PROVE  a = 0 /\ b = 0 /\ c = 0 /\ d = 1
OBVIOUS

LEMMA SumMoved ==
  ASSUME NEW a \in Nat, NEW b \in Nat, NEW c \in Nat, NEW d \in Nat
  PROVE  a + (b - 1) + (c + 1) + d = a + b + c + d
OBVIOUS

\* A credit that moves from one queue to the next does not change Load.
LEMMA LoadMoved ==
  ASSUME NEW p \in Peers, StateOK
  PROVE  /\ rq[p] + Len(sq[p]) + (Len(pend[p]) - 1) + (Len(cq[p]) + 1) = Load(p)
         /\ rq[p] + (Len(sq[p]) - 1) + (Len(pend[p]) + 1) + Len(cq[p]) = Load(p)
         /\ (rq[p] - 1) + Len(sq[p]) + (Len(pend[p]) + 1) + Len(cq[p]) = Load(p)
<1>1. rq[p] + Len(sq[p]) + (Len(pend[p]) - 1) + (Len(cq[p]) + 1) = Load(p)
  BY DEF StateOK, Load
<1>2. rq[p] + (Len(sq[p]) - 1) + (Len(pend[p]) + 1) + Len(cq[p]) = Load(p)
  <2> DEFINE b == Len(sq[p])
             c == Len(pend[p])
             d == Len(cq[p])
  <2>1. rq[p] \in Nat /\ b \in Nat /\ c \in Nat /\ d \in Nat
    BY DEF StateOK
  <2> HIDE DEF b, c, d
  <2>2. rq[p] + (b - 1) + (c + 1) + d = rq[p] + b + c + d
    BY <2>1, SumMoved DEF StateOK
  <2> QED  BY <2>2 DEF b, c, d, Load
<1>3. (rq[p] - 1) + Len(sq[p]) + (Len(pend[p]) + 1) + Len(cq[p]) = Load(p)
  BY DEF StateOK, Load
<1> QED  BY <1>1, <1>2, <1>3

\* A step of p that takes no completion and posts nothing.
LEMMA CreditKept ==
  ASSUME NEW p \in Peers, Credit(p), Awaited(p) \subseteq Awaited(p)',
         rq'[p] = rq[p], sq'[p] = sq[p], pend'[p] = pend[p], cq'[p] = cq[p],
         StateOK
  PROVE  Credit(p)'
<1>1. Load(p)' = Load(p) /\ Load(p) \in Nat
  BY DEF Load, StateOK
<1>2. Window(p) <= Window(p)' /\ Window(p) \in Nat /\ Window(p)' \in Nat
  BY DEF Window
<1>3. Load(p)' <= Window(p)'
  BY <1>1, <1>2 DEF Credit
<1> QED  BY <1>3 DEF Credit

\* A queue pair with nothing posted and nothing to be taken.
LEMMA CreditEmpty ==
  ASSUME NEW p \in Peers, StateOK, Load(p) = 0 PROVE Credit(p)
<1>1. rq[p] = 0 /\ Len(sq[p]) = 0 /\ Len(pend[p]) = 0 /\ Len(cq[p]) = 0
  BY DEF Load, StateOK
<1> QED  BY <1>1 DEF Credit, Window

LEMMA CreditNone ==
  ASSUME NEW p \in Peers, StateOK, Credit(p), Awaited(p) = {} PROVE Load(p) = 0
BY DEF Credit, Window, Load, StateOK

LEMMA AwaitedGrows ==
  ASSUME NEW p \in Peers, pc[p] \in Body \ PollSteps, pc'[p] = Follow(p, pc[p])
  PROVE  Awaited(p) \subseteq Awaited(p)'
BY DEF Awaited, Body, ConnectSteps, MainSteps, PollSteps, Follow, ConnectQp, Main

LEMMA OnlyClientReceives ==
  ASSUME NEW at \in Body PROVE Follow(Server, at) # "post_rr"
BY RcAssumption DEF Body, ConnectSteps, MainSteps, Follow, ConnectQp, Main

\* A step of p leaves the other side's queues and program counter alone.
LEMMA CreditOther ==
  ASSUME CreditInv, NEW p \in Peers, NEW q \in Peers, q # p,
         pc'[q] = pc[q], rq'[q] = rq[q], sq'[q] = sq[q], pend'[q] = pend[q],
         cq'[q] = cq[q]
  PROVE  Credit(q)'
<1>1. Awaited(q)' = Awaited(q)
  BY DEF Awaited
<1> QED  BY <1>1, CreditKept DEF CreditInv

\* The part of the type invariant that the counting needs.
LEMMA QueueTypes ==
  ASSUME CreditInv
  PROVE  /\ pc \in [Peers -> Steps] /\ rq \in [Peers -> Nat]
         /\ sq \in [Peers -> Seq(Ops)]
         /\ pend \in [Peers -> Seq(CQE)] /\ cq \in [Peers -> Seq(CQE)]
BY DEF CreditInv, StateOK

-----------------------------------------------------------------------------
LEMMA InitCredit == Init => CreditInv
<1> SUFFICES ASSUME Init PROVE CreditInv
  OBVIOUS
<1>1. StateOK
  BY InitStateOK
<1>2. ASSUME NEW p \in Peers PROVE Credit(p)
  <2>1. Load(p) = 0
    BY DEF Init, Load
  <2> QED  BY <1>1, <2>1, CreditEmpty
<1>3. pc[Server] # "post_rr"
  BY DEF Init, Peers
<1> QED  BY <1>1, <1>2, <1>3 DEF CreditInv

\* The steps that leave all queues alone: p goes on, or moves to a step where
\* it may still get whatever it might get before.
LEMMA QuietStep ==
  ASSUME CreditInv, StateOK', NEW p \in Peers, NEW to \in Steps,
         Goto(p, to), UNCHANGED <<rq, sq, pend, cq>>,
         \/ to = "destroy"
         \/ pc[p] \in Body \ PollSteps /\ to = Follow(p, pc[p])
         \/ Awaited(p) = {} /\ to # "post_rr"
  PROVE  CreditInv'
<1>1. pc' = [pc EXCEPT ![p] = to] /\ pc \in [Peers -> Steps]
  BY DEF Goto, CreditInv, StateOK
<1>2. Awaited(p) \subseteq Awaited(p)'
  <2>1. CASE to = "destroy"
    BY <1>1, <2>1 DEF Awaited, Ops
  <2>2. CASE pc[p] \in Body \ PollSteps /\ to = Follow(p, pc[p])
    BY <1>1, <2>2, AwaitedGrows
  <2> QED  BY <2>1, <2>2
<1>3. Credit(p)'
  BY <1>2, CreditKept DEF CreditInv
<1>4. \A q \in Peers : q # p => Credit(q)'
  BY <1>1, CreditOther
<1>5. pc'[Server] # "post_rr"
  BY <1>1, OnlyClientReceives DEF CreditInv, Peers
<1> QED  BY <1>3, <1>4, <1>5 DEF CreditInv

LEMMA ContinueQuietly ==
  ASSUME CreditInv, StateOK', NEW p \in Peers, pc[p] \in Body \ PollSteps,
         Continue(p), UNCHANGED <<rq, sq, pend, cq>>
  PROVE  CreditInv'
BY QuietStep, FollowSteps DEF Continue

LEMMA EstablishCredit ==
  ASSUME CreditInv, StateOK', Establish \/ ConnectRefused PROVE CreditInv'
<1> USE QuietStep, StepNames DEF nic, Awaited, Peers
<1>1. CASE Listen
  BY <1>1 DEF Listen
<1>2. CASE Connect
  BY <1>2 DEF Connect
<1>3. CASE Accept
  BY <1>3 DEF Accept
<1>4. CASE ConnectRefused
  BY <1>4 DEF ConnectRefused
<1> QED  BY <1>1, <1>2, <1>3, <1>4 DEF Establish

LEMMA SyncCredit ==
  ASSUME CreditInv, StateOK', NEW p \in Peers, Sync(p) PROVE CreditInv'
<1>0. WriteSteps \cup ReadSteps \subseteq Body \ PollSteps
  BY DEF WriteSteps, ReadSteps, Body, ConnectSteps, MainSteps, PollSteps
<1>1. CASE SyncWrite(p)
  BY <1>0, <1>1, QuietStep, ContinueQuietly, StepNames DEF SyncWrite, nic
<1>2. CASE ShortWrite(p)
  BY <1>2, QuietStep, StepNames DEF ShortWrite, nic, Awaited
<1>3. CASE SyncRead(p)
  <2>1. CASE Continue(p)
    BY <1>0, <1>3, <2>1, ContinueQuietly DEF SyncRead, nic
  <2>2. CASE UNCHANGED pc
    <3>1. \A q \in Peers : Awaited(q)' = Awaited(q)
      BY <2>2 DEF Awaited
    <3> QED  BY <1>3, <2>2, <3>1, CreditKept DEF SyncRead, nic, CreditInv
  <2> QED  BY <1>3, <2>1, <2>2 DEF SyncRead
<1>4. CASE SyncReadFails(p)
  BY <1>4, QuietStep, StepNames DEF SyncReadFails, nic
<1>5. CASE SyncSpin(p)
  <2>1. UNCHANGED <<pc, rq, sq, pend, cq>>
    BY <1>5 DEF SyncSpin, vars, prog, nic
  <2>2. \A q \in Peers : Awaited(q)' = Awaited(q)
    BY <2>1 DEF Awaited
  <2> QED  BY <2>1, <2>2, CreditKept DEF CreditInv
<1> QED  BY <1>1, <1>2, <1>3, <1>4, <1>5 DEF Sync

LEMMA BufferCredit ==
  ASSUME CreditInv, StateOK', NEW p \in Peers, Buffer(p) PROVE CreditInv'
<1>1. {"got_msg", "fill", "put", "report"} \subseteq Body \ PollSteps
  BY DEF Body, MainSteps, PollSteps
<1> QED
  BY <1>1, ContinueQuietly DEF Buffer, PrintMessage, SetupReadMessage,
     ReplaceContents, Report, nic

\* The end of a program: its queue pair is gone, and nothing with it.
LEMMA LifetimeCredit ==
  ASSUME CreditInv, StateOK', NEW p \in Peers, Lifetime(p) \/ Failure(p)
  PROVE  CreditInv'
<1>1. CASE ResourcesCreate(p)
  BY <1>1, QuietStep, StepNames DEF ResourcesCreate, Awaited
<1>2. CASE DestroyVerbs(p)
  <2>1. pc' = [pc EXCEPT ![p] = "close"] /\ pc \in [Peers -> Steps]
    BY <1>2 DEF DestroyVerbs, Goto, CreditInv, StateOK
  <2>2. Load(p)' = 0
    BY <1>2 DEF DestroyVerbs, Load, CreditInv, StateOK
  <2>3. Credit(p)'
    <3>1. /\ rq'[p] = 0
          /\ sq'[p] = <<>> /\ pend'[p] = <<>> /\ cq'[p] = <<>>
      BY <1>2 DEF DestroyVerbs, CreditInv, StateOK
    <3> QED  BY <2>2, <3>1 DEF Credit, Window
  <2>4. \A q \in Peers : q # p => Credit(q)'
    <3> SUFFICES ASSUME NEW q \in Peers, q # p  PROVE Credit(q)'
      OBVIOUS
    <3>1. /\ pc'[q] = pc[q] /\ rq'[q] = rq[q] /\ sq'[q] = sq[q]
          /\ pend'[q] = pend[q] /\ cq'[q] = cq[q]
      BY <1>2, <2>1, QueueTypes DEF DestroyVerbs
    <3> QED  BY <3>1, CreditOther
  <2> QED  BY <2>1, <2>3, <2>4 DEF CreditInv, Peers
<1>3. CASE CloseAndReturn(p)
  BY <1>3, QuietStep, StepNames DEF CloseAndReturn, nic, Awaited
<1>4. CASE ResourcesCreateFails(p)
  BY <1>4, QuietStep, StepNames DEF ResourcesCreateFails, nic, Awaited
<1>5. CASE VerbsError(p)
  BY <1>5, QuietStep, StepNames DEF VerbsError, nic
<1> QED  BY <1>1, <1>2, <1>3, <1>4, <1>5 DEF Lifetime, Failure

\* Posting a request takes the credit of a queue pair that has none out.
LEMMA PostCredit ==
  ASSUME CreditInv, StateOK', NEW p \in Peers,
         PostReceive(p) \/ PostAnySend(p)
  PROVE  CreditInv'
<1>1. CASE PostReceive(p)
  <2>1. p = Client
    BY <1>1 DEF PostReceive, CreditInv, Peers
  <2>2. pc' = [pc EXCEPT ![p] = "rtr"] /\ pc \in [Peers -> Steps]
    BY <1>1, <2>1 DEF PostReceive, Continue, Goto, Follow, ConnectSteps,
       ConnectQp, CreditInv, StateOK
  <2>3. Load(p) = 0
    BY <1>1, CreditNone DEF PostReceive, Awaited, CreditInv
  <2>4. Awaited(p)' = {"RECV"}
    BY <2>1, <2>2 DEF Awaited
  <2>5. /\ rq'[p] = 1
        /\ Len(sq'[p]) = 0 /\ Len(pend'[p]) = 0 /\ Len(cq'[p]) = 0
    BY <1>1, <2>3 DEF PostReceive, Load, CreditInv, StateOK
  <2>6. Credit(p)'
    BY <2>4, <2>5 DEF Credit, Window, Load
  <2>7. \A q \in Peers : q # p => Credit(q)'
    BY <1>1, <2>2, CreditOther DEF PostReceive, CreditInv, StateOK
  <2> QED  BY <2>2, <2>6, <2>7 DEF CreditInv, Peers
<1>2. ASSUME NEW at, NEW op \in Ops, PostSend(p, at, op),
             \/ at = "post_send" /\ op = "SEND"
             \/ at = "post_read" /\ op = "READ"
             \/ at = "post_write" /\ op = "WRITE"
      PROVE  CreditInv'
  <2>1. pc' = [pc EXCEPT ![p] = Follow(p, at)] /\ pc \in [Peers -> Steps]
    BY <1>2 DEF PostSend, Continue, Goto, CreditInv, StateOK
  <2>2. Load(p) = 0
    BY <1>2, CreditNone DEF PostSend, Awaited, CreditInv
  <2>3. Awaited(p)' = {op}
    BY <1>2, <2>1 DEF Awaited, Follow, ConnectSteps, Main
  <2>4. rq[p] = 0 /\ Len(sq[p]) = 0 /\ Len(pend[p]) = 0 /\ Len(cq[p]) = 0
    BY <2>2 DEF Load, CreditInv, StateOK
  <2>5. /\ rq'[p] = 0 /\ Len(pend'[p]) = 0 /\ Len(cq'[p]) = 0
        /\ Len(sq'[p]) = 1 /\ sq'[p][1] = op
    BY <1>2, <2>4 DEF PostSend, CreditInv, StateOK
  <2>6. Credit(p)'
    BY <2>3, <2>5 DEF Credit, Window, Load
  <2>7. \A q \in Peers : q # p => Credit(q)'
    BY <1>2, <2>1, CreditOther DEF PostSend, CreditInv, StateOK
  <2>8. pc'[Server] # "post_rr"
    BY <1>2, <2>1 DEF Follow, ConnectSteps, Main, CreditInv, Peers
  <2> QED  BY <2>6, <2>7, <2>8 DEF CreditInv
<1> QED  BY <1>1, <1>2 DEF PostAnySend, Ops

\* poll_completion gives the credit back.
LEMMA PollCredit ==
  ASSUME CreditInv, StateOK', NEW p \in Peers, PollCompletion(p)
  PROVE  CreditInv'
<1>1. /\ rq'[p] = rq[p] /\ sq'[p] = sq[p] /\ pend'[p] = pend[p]
      /\ cq'[p] = Tail(cq[p]) /\ cq[p] # <<>>
  BY DEF PollCompletion, CreditInv, StateOK
<1>2. Load(p) <= 1
  <2>1. Load(p) \in Nat /\ Window(p) \in {0, 1}
    BY QueueTypes DEF Load, Window
  <2> QED  BY <2>1 DEF CreditInv, Credit
<1>3. rq[p] = 0 /\ Len(sq[p]) = 0 /\ Len(pend[p]) = 0 /\ Len(cq[p]) = 1
  <2>1. Len(cq[p]) > 0
    BY <1>1 DEF CreditInv, StateOK
  <2>2. /\ rq[p] \in Nat /\ Len(sq[p]) \in Nat
        /\ Len(pend[p]) \in Nat /\ Len(cq[p]) \in Nat
    BY DEF CreditInv, StateOK
  <2> QED  BY <1>2, <2>1, <2>2, SumLast DEF Load
<1>4. Load(p)' = 0
  BY <1>1, <1>3 DEF Load, CreditInv, StateOK
<1>5. Credit(p)'
  <2>1. Len(cq'[p]) = 0
    BY <1>1, <1>3 DEF CreditInv, StateOK
  <2> QED  BY <1>1, <1>3, <1>4, <2>1 DEF Credit, Window
<1>6. \A q \in Peers : q # p => Credit(q)'
  <2> SUFFICES ASSUME NEW q \in Peers, q # p  PROVE Credit(q)'
    OBVIOUS
  <2>1. /\ pc'[q] = pc[q] /\ rq'[q] = rq[q] /\ sq'[q] = sq[q]
        /\ pend'[q] = pend[q] /\ cq'[q] = cq[q]
    BY QueueTypes DEF PollCompletion, Continue, Goto
  <2> QED  BY <2>1, CreditOther
<1>7. pc'[Server] # "post_rr"
  BY OnlyClientReceives, StepNames DEF PollCompletion, Continue, Goto,
     CreditInv, StateOK, Peers
<1> QED  BY <1>5, <1>6, <1>7 DEF CreditInv

LEMMA VerbsCredit ==
  ASSUME CreditInv, StateOK', NEW p \in Peers, Verbs(p) PROVE CreditInv'
<1>1. ASSUME NEW at \in {"init", "rtr", "rts"}, NEW to, ModifyQp(p, at, to)
      PROVE  CreditInv'
  BY <1>1, ContinueQuietly DEF ModifyQp, Body, ConnectSteps, PollSteps
<1>2. ModifyQpToInit(p) \/ ModifyQpToRtr(p) \/ ModifyQpToRts(p) => CreditInv'
  BY <1>1 DEF ModifyQpToInit, ModifyQpToRtr, ModifyQpToRts
<1>3. CASE PollTimeout(p)
  BY <1>3, QuietStep, StepNames DEF PollTimeout, nic
<1> QED  BY <1>2, <1>3, PostCredit, PollCredit DEF Verbs

\* The adapters pass credits on, from the send queue or the peer's receive
\* queue over the wire to the completion queues.
LEMMA DeliverCredit ==
  ASSUME CreditInv, StateOK', NEW p \in Peers, DeliverCompletion(p)
  PROVE  CreditInv'
<1>1. /\ pend[p] \in Seq(CQE) /\ pend[p] # <<>> /\ cq[p] \in Seq(CQE)
      /\ rq'[p] = rq[p] /\ sq'[p] = sq[p]
      /\ pend'[p] = Tail(pend[p]) /\ cq'[p] = Append(cq[p], Head(pend[p]))
      /\ pc' = pc
  BY DEF DeliverCompletion, CreditInv, StateOK, prog
<1>2. Load(p)' = Load(p)
  <2>1. Len(pend'[p]) = Len(pend[p]) - 1 /\ Len(cq'[p]) = Len(cq[p]) + 1
    BY <1>1
  <2>2. Load(p)' = rq[p] + Len(sq[p]) + (Len(pend[p]) - 1) + (Len(cq[p]) + 1)
    BY <1>1, <2>1 DEF Load
  <2> QED  BY <2>2, LoadMoved DEF CreditInv
<1>3. Awaited(p)' = Awaited(p)
  BY <1>1 DEF Awaited
<1>4. Credit(p)'
  <2>1. \A i \in 1..Len(pend'[p]) : pend'[p][i].op \in Awaited(p)
    BY <1>1 DEF CreditInv, Credit
  <2>2. \A i \in 1..Len(cq'[p]) : cq'[p][i].op \in Awaited(p)
    BY <1>1 DEF CreditInv, Credit
  <2> QED  BY <1>1, <1>2, <1>3, <2>1, <2>2 DEF CreditInv, Credit, Window
<1>5. \A q \in Peers : q # p => Credit(q)'
  BY <1>1, CreditOther DEF DeliverCompletion, CreditInv, StateOK
<1> QED  BY <1>1, <1>4, <1>5 DEF CreditInv

\* p's oldest request leaves the send queue and a completion for it is under
\* way.
LEMMA CompletedCredit ==
  ASSUME CreditInv, StateOK', NEW p \in Peers, NEW ok, sq[p] # <<>>,
         pc' = pc, rq'[p] = rq[p], cq'[p] = cq[p], sq'[p] = Tail(sq[p]),
         pend'[p] = Append(pend[p], [op |-> Head(sq[p]), ok |-> ok])
  PROVE  Credit(p)'
<1>1. pend[p] \in Seq(CQE) /\ sq[p] \in Seq(Ops) /\ Len(sq[p]) > 0
  BY DEF CreditInv, StateOK
<1>2. Load(p)' = Load(p)
  <2>1. Len(pend'[p]) = Len(pend[p]) + 1 /\ Len(sq'[p]) = Len(sq[p]) - 1
    BY <1>1
  <2>2. Load(p)' = rq[p] + (Len(sq[p]) - 1) + (Len(pend[p]) + 1) + Len(cq[p])
    BY <2>1 DEF Load
  <2> QED  BY <2>2, LoadMoved DEF CreditInv
<1>3. Awaited(p)' = Awaited(p)
  BY DEF Awaited
<1>4. Head(sq[p]) \in Awaited(p)
  BY <1>1 DEF CreditInv, Credit
<1>5. \A i \in 1..Len(pend'[p]) : pend'[p][i].op \in Awaited(p)
  BY <1>1, <1>4 DEF CreditInv, Credit
<1>6. \A i \in 1..Len(sq'[p]) : sq'[p][i] \in Awaited(p)
  BY <1>1 DEF CreditInv, Credit
<1> QED  BY <1>2, <1>3, <1>5, <1>6 DEF CreditInv, Credit, Window

\* A receive request of q is used up by the peer's SEND.
LEMMA ReceivedCredit ==
  ASSUME CreditInv, StateOK', NEW q \in Peers, rq[q] > 0,
         pc' = pc, rq'[q] = rq[q] - 1, cq'[q] = cq[q], sq'[q] = sq[q],
         pend'[q] = pend[q] \o <<[op |-> "RECV", ok |-> TRUE]>>
  PROVE  Credit(q)'
<1>1. pend[q] \in Seq(CQE) /\ rq[q] \in Nat
  BY DEF CreditInv, StateOK
<1>2. Load(q)' = Load(q)
  <2>1. Len(pend'[q]) = Len(pend[q]) + 1
    BY <1>1
  <2>2. Load(q)' = (rq[q] - 1) + Len(sq[q]) + (Len(pend[q]) + 1) + Len(cq[q])
    BY <2>1 DEF Load
  <2> QED  BY <2>2, LoadMoved DEF CreditInv
<1>3. Awaited(q)' = Awaited(q)
  BY DEF Awaited
<1>4. "RECV" \in Awaited(q)
  BY DEF CreditInv, Credit
<1>5. \A i \in 1..Len(pend'[q]) : pend'[q][i].op \in Awaited(q)
  BY <1>1, <1>4 DEF CreditInv, Credit
<1> QED  BY <1>2, <1>3, <1>4, <1>5 DEF CreditInv, Credit, Window

LEMMA ExecuteCredit ==
  ASSUME CreditInv, StateOK', NEW p \in Peers, Execute(p)
  PROVE  CreditInv'
<1> DEFINE q  == Other(p)
           op == Head(sq[p])
           ok == Granted(p, op)
           received == IF ok /\ op = "SEND"
                         THEN <<[op |-> "RECV", ok |-> TRUE]>> ELSE <<>>
<1>1. q \in Peers /\ q # p /\ \A r \in Peers : r = p \/ r = q
  BY OtherPeer DEF Peers, Other
<1>2. PICK acked \in BOOLEAN :
        LET done == Append(pend[p], [op |-> op, ok |-> acked]) IN
        /\ sq[p] # <<>>
        /\ sq' = [sq EXCEPT ![p] = Tail(@)]
        /\ rq' = [rq EXCEPT ![q] = @ - Len(received)]
        /\ pend' = [pend EXCEPT ![p] = done, ![q] = @ \o received]
        /\ UNCHANGED <<prog, tcp, cq>>
  BY DEF Execute
<1>3. pc' = pc /\ cq' = cq
  BY <1>2 DEF prog
<1>4. Credit(p)'
  <2> DEFINE c == [op |-> op, ok |-> acked]
  <2>1. /\ sq[p] # <<>> /\ sq'[p] = Tail(sq[p])
        /\ rq'[p] = rq[p] /\ pend'[p] = Append(pend[p], c)
    BY <1>1, <1>2, QueueTypes
  <2> QED  BY <1>3, <2>1, CompletedCredit
<1>5. Credit(q)'
  <2>1. CASE ok /\ op = "SEND"
    <3>1. rq[q] > 0
      BY <2>1 DEF Granted
    <3>2. received = <<[op |-> "RECV", ok |-> TRUE]>> /\ Len(received) = 1
      BY <2>1
    <3>3. rq'[q] = rq[q] - 1 /\ sq'[q] = sq[q] /\ pend'[q] = pend[q] \o received
      <4> HIDE DEF received, ok, op
      <4> QED  BY <1>1, <1>2, <3>2, QueueTypes
    <3> QED  BY <1>1, <1>3, <3>1, <3>2, <3>3, ReceivedCredit
  <2>2. CASE ~(ok /\ op = "SEND")
    <3>1. rq'[q] = rq[q] /\ sq'[q] = sq[q] /\ pend'[q] = pend[q]
      <4>1. received = <<>> /\ Len(received) = 0
        BY <2>2
      <4> HIDE DEF received, ok, op
      <4>2. rq'[q] = rq[q] /\ sq'[q] = sq[q] /\ pend'[q] = pend[q] \o received
        BY <1>1, <1>2, <4>1, QueueTypes
      <4> QED  BY <1>1, <4>1, <4>2, QueueTypes
    <3> QED  BY <1>1, <1>3, <3>1, CreditOther
  <2> QED  BY <2>1, <2>2
<1> QED  BY <1>1, <1>3, <1>4, <1>5 DEF CreditInv

LEMMA AdapterCredit ==
  ASSUME CreditInv, StateOK', NEW p \in Peers, Adapter(p) PROVE CreditInv'
<1>1. CASE RetryExceeded(p)
  <2>1. Credit(p)'
    <3>1. /\ pc' = pc /\ rq'[p] = rq[p] /\ cq'[p] = cq[p] /\ sq[p] # <<>>
          /\ sq'[p] = Tail(sq[p])
          /\ pend'[p] = Append(pend[p], [op |-> Head(sq[p]), ok |-> FALSE])
      BY <1>1, QueueTypes DEF RetryExceeded, prog
    <3> QED  BY <3>1, CompletedCredit
  <2>2. \A q \in Peers : q # p => Credit(q)'
    <3> SUFFICES ASSUME NEW q \in Peers, q # p  PROVE Credit(q)'
      OBVIOUS
    <3>1. /\ pc'[q] = pc[q] /\ rq'[q] = rq[q] /\ sq'[q] = sq[q]
          /\ pend'[q] = pend[q] /\ cq'[q] = cq[q]
      BY <1>1, QueueTypes DEF RetryExceeded, prog
    <3> QED  BY <3>1, CreditOther
  <2> QED  BY <1>1, <2>1, <2>2 DEF RetryExceeded, prog, CreditInv
<1> QED  BY <1>1, ExecuteCredit, DeliverCredit DEF Adapter

LEMMA NextCredit == CreditInv /\ [Next]_vars => CreditInv'
<1> SUFFICES ASSUME CreditInv, [Next]_vars PROVE CreditInv'
  OBVIOUS
<1>1. StateOK'
  BY NextStateOK DEF CreditInv
<1>2. CASE UNCHANGED vars
  <2>1. UNCHANGED <<pc, rq, sq, pend, cq>>
    BY <1>2 DEF vars, prog, nic
  <2>2. \A q \in Peers : Awaited(q)' = Awaited(q)
    BY <2>1 DEF Awaited
  <2> QED  BY <1>1, <2>1, <2>2, CreditKept DEF CreditInv
<1>3. CASE Establish \/ ConnectRefused
  BY <1>1, <1>3, EstablishCredit
<1>4. ASSUME NEW p \in Peers, Program(p) \/ Failure(p) \/ Adapter(p)
      PROVE  CreditInv'
  BY <1>1, <1>4, SyncCredit, VerbsCredit, BufferCredit, LifetimeCredit,
     AdapterCredit DEF Program
<1> QED  BY <1>2, <1>3, <1>4 DEF Next, Finished

LEMMA CreditInvariant == Spec => []CreditInv
BY InitCredit, NextCredit, PTL DEF Spec

\* A completion queue of one entry is enough, whatever fails and however TCP
\* cuts the connection data: at most one request of a side is outstanding.
THEOREM QueuesFitAlways == Spec => []QueuesFit
<1>1. CreditInv => QueuesFit
  <2> SUFFICES ASSUME CreditInv, NEW p \in Peers
               PROVE  rq[p] <= 1 /\ Len(sq[p]) <= 1 /\ Len(cq[p]) + Len(pend[p]) <= 1
    BY DEF QueuesFit
  <2>1. Load(p) <= 1
    <3>1. Load(p) \in Nat /\ Window(p) \in {0, 1}
      BY DEF Load, Window, CreditInv, StateOK
    <3> QED  BY <3>1 DEF CreditInv, Credit
  <2>2. /\ rq[p] \in Nat /\ Len(sq[p]) \in Nat
        /\ Len(pend[p]) \in Nat /\ Len(cq[p]) \in Nat
    BY DEF CreditInv, StateOK
  <2> QED  BY <2>1, <2>2, SumBound DEF Load
<1> QED  BY <1>1, CreditInvariant, PTL

\* poll_completion, which does not look at the opcode, always takes the
\* completion of the request main is waiting for.
THEOREM CompletionsMatch == Spec => []CompletionMatches
<1>1. CreditInv => CompletionMatches
  <2> SUFFICES ASSUME CreditInv, NEW p \in Peers, pc[p] \in PollSteps, cq[p] # <<>>
               PROVE  Head(cq[p]).op \in Awaited(p)
    BY DEF CompletionMatches, Awaited, PollSteps
  <2>1. cq[p] \in Seq(CQE) /\ Len(cq[p]) > 0
    BY DEF CreditInv, StateOK
  <2> QED  BY <2>1 DEF CreditInv, Credit
<1> QED  BY <1>1, CreditInvariant, PTL

-----------------------------------------------------------------------------
(* The bytes the programs exchange.  The one-byte exchanges                *)
(* order the two programs only as long as every byte is taken for what it  *)
(* is; a short write or a read in pieces shifts them.  What saves the      *)
(* programs is that a side which has not read the other's data in one      *)
(* piece does not reach its queue pair.  So Knows splits the runs: the     *)
(* bytes are counted (Taken, Sent) where the reader has not lost count     *)
(* (Straight), and who has lost it never gets past its first poll.         *)

\* The calls up to each milestone of connect_qp and main: nothing written to
\* the socket; the queue pair not ready to send; the SEND not posted; the end.
Early == {"start", "accept", "create", "con_write"}
Setup == Early \cup {"con_read", "init", "post_rr", "rtr", "rts", "q_write"}
ToPost == Setup \cup {"q_read", "post_send"}
Ended == {"destroy", "close", "done"}
Going(p) == pc[p] \notin Ended

\* p has the last piece of the other side's connection data where it belongs.
Last(p)  == <<p, ConLen>>
Knows(p) == remote[p][ConLen] = Last(Other(p))

\* Each program at the calls it makes, and its queue pair in the state they
\* have brought it to.
ServerCalls == Steps \ {"post_rr", "poll_recv", "got_msg", "post_read", "poll_read",
                        "put", "post_write", "poll_write"}
ClientCalls == Steps \ {"accept", "post_send", "poll_send", "fill"}

\* What p's program counter says of its own queue pair, buffer, read and
\* connection.
Place(p) ==
  /\ pc[p] \in {"q_write", "q_read"} \cup MainSteps => qp[p] \in {"RTS", "ERR"}
  /\ pc[p] = "close" => qp[p] = "destroyed"
  /\ pc[p] = "done" => qp[p] \in {"none", "destroyed"}
  /\ pc[p] \in {"start", "accept", "create"} => qp[p] = "none"
  /\ buf[p] = "freed" => pc[p] \in {"close", "done"}
  /\ peerEnd[p] # "up" => pc[Other(p)] = "done"
  /\ total[p] # 0 => pc[p] = "con_read"
  /\ pc[p] \in Early \cup {"con_read"} => ~ Knows(p)

\* The credits of RcPairProofs, each side at calls of its own, and no SEND from
\* the client.
PlaceInv == /\ CreditInv
            /\ pc[Server] \in ServerCalls /\ pc[Client] \in ClientCalls
            /\ \A k \in 1..Len(sq[Client]) : sq[Client][k] # "SEND"
            /\ \A p \in Peers : Place(p)

LEMMA TwoPeers == /\ Server \in Peers /\ Client \in Peers /\ Server # Client
                  /\ Other(Server) = Client /\ Other(Client) = Server
                  /\ \A p \in Peers : p = Server \/ p = Client
BY RcAssumption DEF Peers, Other

LEMMA ConLength == ConLen \in {1, 2} /\ ConLen \in 1..ConLen
BY RcAssumption

LEMMA Named == /\ Early \cup Setup \cup ToPost \cup Ended \subseteq Steps
               /\ Ended \cap (Body \cup Early) = {}
               /\ Body = Steps \ ({"start", "accept", "create"} \cup Ended)
BY DEF Early, Setup, ToPost, Ended, Steps, Body, ConnectSteps, MainSteps, ExitSteps

\* Each program keeps to its own calls.
LEMMA OwnCalls ==
  /\ \A at \in ServerCalls \cap Body : Follow(Server, at) \in ServerCalls
  /\ \A at \in ClientCalls \cap Body : Follow(Client, at) \in ClientCalls
BY TwoPeers DEF ServerCalls, ClientCalls, Body, Follow, ConnectQp, Main, Steps, ConnectSteps,
   MainSteps, ExitSteps

\* What a step leaves alone of the things Place relates.
LEMMA PlaceKept ==
  ASSUME NEW p \in Peers, Place(p), pc'[p] = pc[p],
         qp'[p] = qp[p] \/ (qp[p] = "RTS" /\ qp'[p] = "ERR"),
         buf'[p] = buf[p] \/ buf'[p] # "freed",
         peerEnd'[p] = peerEnd[p],
         pc[Other(p)] = "done" => pc'[Other(p)] = "done",
         total'[p] = total[p], remote'[p] = remote[p]
  PROVE  Place(p)'
BY DEF Place, Knows

\* A step of p alone, to a place that fits its queue pair.
LEMMA PlaceMoved ==
  ASSUME PlaceInv, CreditInv', NEW p \in Peers, NEW to \in Steps, Goto(p, to),
         \A q \in Peers : q # p => qp'[q] = qp[q] /\ buf'[q] = buf[q] /\ total'[q] = total[q],
         sq' = sq, remote' = remote,
         pc[p] # "done", Place(p)',
         \A q \in Peers : q # p => peerEnd'[q] = peerEnd[q] \/ to = "done",
         p = Server => to \in ServerCalls, p = Client => to \in ClientCalls
  PROVE  PlaceInv'
<1>1. pc' = [pc EXCEPT ![p] = to] /\ pc \in [Peers -> Steps]
  BY DEF Goto, PlaceInv, CreditInv, StateOK
<1>2. pc'[Server] \in ServerCalls /\ pc'[Client] \in ClientCalls
  BY <1>1, TwoPeers DEF PlaceInv
<1>3. ASSUME NEW q \in Peers, q # p PROVE Place(q)'
  <2>1. pc'[q] = pc[q] /\ Other(q) = p
    BY <1>1, <1>3, TwoPeers
  <2>2. CASE peerEnd'[q] = peerEnd[q]
    <3>1. pc[Other(q)] # "done" /\ Place(q)
      BY <2>1 DEF PlaceInv
    <3>2. qp'[q] = qp[q] /\ buf'[q] = buf[q] /\ total'[q] = total[q] /\ remote'[q] = remote[q]
      BY <1>3
    <3> QED  BY <2>1, <2>2, <3>1, <3>2, PlaceKept
  <2>3. CASE to = "done"
    BY <1>1, <1>3, <2>1, <2>3 DEF PlaceInv, Place, Knows
  <2> QED  BY <1>3, <2>2, <2>3
<1> QED  BY <1>2, <1>3 DEF PlaceInv

\* PlaceInv is inductive: one lemma for each group of actions of RcPair.
LEMMA InitPlace == Init => PlaceInv
<1> SUFFICES ASSUME Init PROVE PlaceInv
  OBVIOUS
<1>1. CreditInv
  BY InitCredit
<1>2. \A p \in Peers : Place(p)
  <2> SUFFICES ASSUME NEW p \in Peers PROVE Place(p)
    OBVIOUS
  <2>1. pc[p] = "start" /\ qp[p] = "none" /\ buf[p] = "none" /\ peerEnd[p] = "up" /\ total[p] = 0
    BY DEF Init
  <2>2. remote[p][ConLen] = <<"uninitialized", 0>>
    BY ConLength DEF Init, Garbage, Token
  <2>3. ~ Knows(p)
    BY <2>2, ConLength DEF Knows, Last
  <2> QED  BY <2>1, <2>3 DEF Place, MainSteps
<1>3. "start" \in ServerCalls /\ "start" \in ClientCalls
  BY DEF ServerCalls, ClientCalls, Steps
<1> QED  BY <1>1, <1>2, <1>3, TwoPeers DEF PlaceInv, Init

LEMMA GoneTo ==
  ASSUME StateOK, NEW p \in Peers, NEW to, Goto(p, to)
  PROVE  pc'[p] = to /\ \A q \in Peers : q # p => pc'[q] = pc[q]
BY DEF StateOK, Goto

\* Before resources_create.
LEMMA Unborn ==
  ASSUME PlaceInv, NEW p \in Peers, NEW to \in {"accept", "create", "done"}, Goto(p, to),
         pc[p] \in {"start", "accept"}, UNCHANGED <<total, remote, peerEnd, nic, buf>>,
         p = Server => to \in {"accept", "create"}, p = Client => to \in {"create", "done"},
         CreditInv'
  PROVE  PlaceInv'
<1>1. StateOK /\ Place(p) /\ to \in Steps /\ Other(p) \in Peers /\ Other(p) # p
  BY OtherPeer, StepNames DEF PlaceInv, CreditInv
<1>2. pc'[p] = to /\ pc'[Other(p)] = pc[Other(p)]
  BY <1>1, GoneTo
<1>3. Place(p)'
  BY <1>1, <1>2 DEF Place, Knows, nic, Early, MainSteps
<1> QED  BY <1>1, <1>3, PlaceMoved, StepNames DEF nic, ServerCalls, ClientCalls

LEMMA EstablishPlace ==
  ASSUME PlaceInv, CreditInv', Establish \/ ConnectRefused PROVE PlaceInv'
<1>1. CASE Listen
  BY <1>1, Unborn, TwoPeers DEF Listen
<1>2. CASE Connect
  BY <1>2, Unborn, TwoPeers DEF Connect
<1>3. CASE Accept
  BY <1>3, Unborn, TwoPeers DEF Accept
<1>4. CASE ConnectRefused
  BY <1>4, Unborn, TwoPeers DEF ConnectRefused, tcp
<1> QED  BY <1>1, <1>2, <1>3, <1>4 DEF Establish

\* The calls that follow one another in connect_qp and main.
LEMMA FollowFacts ==
  ASSUME NEW p \in Peers, NEW at \in Body
  PROVE  /\ Follow(p, at) \in (Body \ {"con_write"}) \cup {"destroy"}
         /\ Follow(p, at) = "con_read" <=> at = "con_write"
         /\ Follow(p, at) \in {"q_write", "q_read"} \cup MainSteps
              => at \in {"rts", "q_write", "q_read"} \cup MainSteps
         /\ at \in Setup /\ at # "q_write" => Follow(p, at) \in Setup
         /\ Follow(p, at) \in Setup => at \in Setup /\ at # "q_write"
         /\ Follow(p, at) \notin Early
BY DEF Body, Follow, ConnectQp, Main, ConnectSteps, MainSteps, Setup, Early

\* p goes on with the next call.
LEMMA Onward ==
  ASSUME PlaceInv, CreditInv', NEW p \in Peers, pc[p] \in Body, Continue(p),
         \A q \in Peers : q # p => qp'[q] = qp[q] /\ buf'[q] = buf[q] /\ total'[q] = total[q]
                                   /\ peerEnd'[q] = peerEnd[q] /\ remote'[q] = remote[q],
         pc[p] # "rts" => qp'[p] = qp[p], pc[p] = "rts" => qp'[p] = "RTS",
         buf'[p] # "freed", peerEnd'[p] = "up" \/ peerEnd[p] # "up",
         total'[p] = 0, pc[p] = "con_write" => remote'[p] = remote[p],
         \A k \in 1..Len(sq'[Client]) : sq'[Client][k] # "SEND"
  PROVE  PlaceInv'
<1> DEFINE to == Follow(p, pc[p])
<1>1. StateOK /\ Place(p) /\ to \in Steps /\ Other(p) \in Peers /\ Other(p) # p
  BY OtherPeer, FollowSteps DEF PlaceInv, CreditInv
<1>2. pc'[p] = to /\ \A q \in Peers : q # p => pc'[q] = pc[q]
  BY <1>1, GoneTo DEF Continue
<1>3. to \notin {"start", "accept", "create", "con_write", "close", "done"}
  BY FollowFacts DEF Body, ConnectSteps, MainSteps, Early
<1>4. Place(p)'
  <2>1. to \in {"q_write", "q_read"} \cup MainSteps => qp'[p] \in {"RTS", "ERR"}
    BY <1>1, FollowFacts DEF Place
  <2>2. peerEnd'[p] # "up" => pc'[Other(p)] = "done"
    BY <1>1, <1>2 DEF Place
  <2>3. to = "con_read" => ~ Knows(p)'
    BY <1>1, FollowFacts DEF Place, Knows, Early
  <2> HIDE DEF to
  <2> QED  BY <1>2, <1>3, <2>1, <2>2, <2>3 DEF Place, Early
<1>5. \A q \in Peers : q # p => Place(q)'
  <2> SUFFICES ASSUME NEW q \in Peers, q # p PROVE Place(q)'
    OBVIOUS
  <2>1. Other(q) = p /\ pc[p] # "done" /\ Place(q)
    BY TwoPeers, Named DEF PlaceInv, Ended
  <2> QED  BY <1>2, <2>1, PlaceKept
<1>6. pc'[Server] \in ServerCalls /\ pc'[Client] \in ClientCalls
  BY <1>2, TwoPeers, OwnCalls DEF PlaceInv
<1> QED  BY <1>4, <1>5, <1>6 DEF PlaceInv

\* p gives up.
LEMMA Downward ==
  ASSUME PlaceInv, CreditInv', NEW p \in Peers, pc[p] # "done", Goto(p, "destroy"),
         UNCHANGED <<remote, nic, buf>>, total'[p] \in {0, total[p]}, total[p] # 0 => total'[p] = 0,
         \A q \in Peers : q # p => total'[q] = total[q] /\ peerEnd'[q] = peerEnd[q],
         pc[p] \notin {"close"}, peerEnd'[p] = "up" \/ peerEnd[p] # "up"
  PROVE  PlaceInv'
<1>1. StateOK /\ Place(p) /\ Other(p) \in Peers /\ Other(p) # p
  BY OtherPeer DEF PlaceInv, CreditInv
<1>2. pc'[p] = "destroy" /\ pc'[Other(p)] = pc[Other(p)]
  BY <1>1, GoneTo
<1>3. Place(p)'
  BY <1>1, <1>2 DEF Place, nic, Early, MainSteps
<1> QED  BY <1>3, PlaceMoved, StepNames DEF nic, ServerCalls, ClientCalls

LEMMA SyncPlace == ASSUME PlaceInv, CreditInv', NEW p \in Peers, Sync(p) PROVE PlaceInv'
<1>0. /\ StateOK /\ Place(p) /\ Other(p) \in Peers /\ Other(p) # p
      /\ WriteSteps \cup ReadSteps \subseteq Body /\ "done" \notin Body /\ "close" \notin Body
  BY OtherPeer, StepNames, Named DEF PlaceInv, CreditInv, Ended
<1>1. CASE SyncWrite(p)
  <2>1. /\ pc[p] \in WriteSteps /\ UNCHANGED <<total, remote, nic, buf>>
        /\ peerEnd'[p] = "up" \/ peerEnd[p] # "up"
        /\ \A q \in Peers : q # p => peerEnd'[q] = peerEnd[q]
        /\ Continue(p) \/ Goto(p, "destroy")
    BY <1>0, <1>1 DEF SyncWrite, StateOK
  <2>2. pc[p] # "rts" /\ pc[p] \in Body /\ pc[p] # "con_read"
    BY <1>0, <2>1 DEF WriteSteps
  <2>3. total[p] = 0 /\ buf[p] # "freed"
    BY <1>0, <2>2 DEF Place
  <2>4. CASE Continue(p)
    BY <2>1, <2>2, <2>3, <2>4, Onward DEF nic, PlaceInv
  <2>5. CASE Goto(p, "destroy")
    BY <1>0, <2>1, <2>2, <2>3, <2>5, Downward
  <2> QED  BY <2>1, <2>4, <2>5
<1>2. CASE ShortWrite(p)
  <2>1. /\ pc[p] = "con_write" /\ UNCHANGED <<total, remote, peerEnd, nic, buf>>
        /\ Goto(p, "init")
    BY <1>2 DEF ShortWrite
  <2>2. pc'[p] = "init" /\ pc'[Other(p)] = pc[Other(p)]
    BY <1>0, <2>1, GoneTo
  <2>3. Place(p)'
    BY <1>0, <2>1, <2>2 DEF Place, nic, Early, MainSteps
  <2> QED  BY <2>1, <2>3, PlaceMoved, StepNames DEF nic, ServerCalls, ClientCalls
<1>3. CASE SyncRead(p)
  <2>1. /\ pc[p] \in ReadSteps /\ UNCHANGED <<peerEnd, nic, buf>>
        /\ \A q \in Peers : q # p => total'[q] = total[q] /\ remote'[q] = remote[q]
    BY <1>0, <1>3 DEF SyncRead, StateOK
  <2>2. PICK n \in 1..XferSize(pc[p]) :
          /\ total' = [total EXCEPT ![p] = Count(p, n)]
          /\ remote' = IF pc[p] = "con_read"
                   THEN [remote EXCEPT ![p] = [i \in 1..ConLen |->
                           IF i <= n THEN chan[p][i] ELSE @[i]]]
                   ELSE remote
          /\ IF total[p] + n >= XferSize(pc[p]) THEN Continue(p) ELSE UNCHANGED pc
    BY <1>3 DEF SyncRead
  <2>3. pc[p] \in Body /\ pc[p] # "rts" /\ pc[p] # "con_write" /\ buf[p] # "freed"
    BY <1>0, <2>1 DEF ReadSteps, Place
  <2>4. CASE total[p] + n >= XferSize(pc[p])
    <3>1. Continue(p) /\ total'[p] = 0
      BY <1>0, <2>2, <2>4 DEF Count, StateOK
    <3> QED  BY <2>1, <2>3, <3>1, Onward DEF nic, PlaceInv
  <2>5. CASE ~ (total[p] + n >= XferSize(pc[p]))
    <3>1. pc' = pc /\ total[p] \in 0..1 /\ XferSize(pc[p]) \in 1..2 /\ n \in 1..2
      BY <1>0, <2>2, <2>5, RcAssumption DEF StateOK, XferSize
    <3>2. n < ConLen /\ pc[p] = "con_read"
      BY <2>5, <3>1 DEF XferSize
    <3>3. remote'[p][ConLen] = remote[p][ConLen]
      BY <1>0, <2>2, <3>2, ConLength DEF StateOK
    <3>4. Place(p)'
      BY <1>0, <2>1, <3>1, <3>2, <3>3 DEF Place, Knows, nic, Early, MainSteps
    <3>5. \A q \in Peers : q # p => Place(q)'
      BY <2>1, <3>1, PlaceKept DEF PlaceInv, nic
    <3> QED  BY <2>1, <3>1, <3>4, <3>5 DEF PlaceInv, nic
  <2> QED  BY <2>4, <2>5
<1>4. CASE SyncReadFails(p)
  <2>1. /\ pc[p] \in ReadSteps /\ UNCHANGED <<remote, peerEnd, nic, buf>> /\ Goto(p, "destroy")
        /\ total'[p] = 0 /\ \A q \in Peers : q # p => total'[q] = total[q]
    BY <1>0, <1>4 DEF SyncReadFails, tcp, StateOK
  <2>2. peerEnd[p] # "up"
    BY <1>4 DEF SyncReadFails
  <2> QED  BY <1>0, <2>1, <2>2, Downward
<1>5. CASE SyncSpin(p)
  <2>1. UNCHANGED vars
    BY <1>5 DEF SyncSpin
  <2>2. \A q \in Peers : Place(q)'
    BY <2>1, PlaceKept DEF PlaceInv, vars, prog, tcp, nic
  <2> QED  BY <2>1, <2>2 DEF PlaceInv, vars, prog, nic
<1> QED  BY <1>1, <1>2, <1>3, <1>4, <1>5 DEF Sync

LEMMA BufferPlace == ASSUME PlaceInv, CreditInv', NEW p \in Peers, Buffer(p) PROVE PlaceInv'
<1>0. StateOK /\ Place(p)
  BY DEF PlaceInv, CreditInv
<1>1. /\ pc[p] \in {"got_msg", "fill", "put", "report"} /\ Continue(p)
      /\ UNCHANGED <<total, remote, tcp, nic>>
      /\ buf'[p] \in {buf[p], "RDMAMSGR", "RDMAMSGW"}
      /\ \A q \in Peers : q # p => buf'[q] = buf[q]
  BY <1>0 DEF Buffer, PrintMessage, SetupReadMessage, ReplaceContents, Report, StateOK
<1>2. pc[p] \in Body /\ pc[p] # "rts" /\ total[p] = 0 /\ buf[p] # "freed"
  BY <1>0, <1>1, StepNames DEF Place
<1> QED  BY <1>1, <1>2, Onward DEF nic, tcp, Place, PlaceInv

LEMMA LifetimePlace ==
  ASSUME PlaceInv, CreditInv', NEW p \in Peers, Lifetime(p) \/ Failure(p) PROVE PlaceInv'
<1>0. StateOK /\ Place(p) /\ Other(p) \in Peers /\ Other(p) # p
  BY OtherPeer DEF PlaceInv, CreditInv
<1>1. CASE ResourcesCreate(p)
  <2>1. /\ pc[p] = "create" /\ Goto(p, "con_write") /\ UNCHANGED <<total, remote, tcp, sq>>
        /\ qp'[p] = "RESET" /\ buf'[p] \in {"MSG", "zero"}
        /\ \A q \in Peers : q # p => qp'[q] = qp[q] /\ buf'[q] = buf[q]
    BY <1>0, <1>1 DEF ResourcesCreate, StateOK
  <2>2. pc'[p] = "con_write" /\ pc'[Other(p)] = pc[Other(p)]
    BY <1>0, <2>1, GoneTo
  <2>3. Place(p)'
    BY <1>0, <2>1, <2>2 DEF Place, Knows, tcp, Early, MainSteps
  <2> QED  BY <2>1, <2>3, PlaceMoved, StepNames DEF tcp, ServerCalls, ClientCalls
<1>2. CASE DestroyVerbs(p)
  <2>1. /\ pc[p] = "destroy" /\ Goto(p, "close") /\ UNCHANGED <<total, remote, tcp>>
        /\ qp'[p] = "destroyed" /\ sq'[p] = <<>>
        /\ \A q \in Peers : q # p => qp'[q] = qp[q] /\ buf'[q] = buf[q] /\ sq'[q] = sq[q]
    BY <1>0, <1>2 DEF DestroyVerbs, StateOK
  <2>2. pc'[p] = "close" /\ pc'[Other(p)] = pc[Other(p)]
    BY <1>0, <2>1, GoneTo
  <2>3. Place(p)'
    BY <1>0, <2>1, <2>2 DEF Place, Knows, tcp, Early, MainSteps
  <2>4. \A q \in Peers : q # p => Place(q)'
    BY <2>1, <2>2, TwoPeers, PlaceKept DEF PlaceInv, tcp
  <2>5. "close" \in ServerCalls /\ "close" \in ClientCalls
    BY StepNames DEF ServerCalls, ClientCalls
  <2>6. pc'[Server] \in ServerCalls /\ pc'[Client] \in ClientCalls
    BY <2>1, <2>2, <2>5, TwoPeers, GoneTo, <1>0 DEF PlaceInv
  <2>7. \A k \in 1..Len(sq'[Client]) : sq'[Client][k] # "SEND"
    BY <2>1, TwoPeers DEF PlaceInv
  <2> QED  BY <2>3, <2>4, <2>6, <2>7 DEF PlaceInv
<1>3. CASE CloseAndReturn(p) \/ ResourcesCreateFails(p)
  <2>1. /\ pc[p] \in {"close", "create"} /\ Goto(p, "done") /\ UNCHANGED <<total, remote, nic, buf>>
        /\ CloseSocket(p)
    BY <1>3 DEF CloseAndReturn, ResourcesCreateFails
  <2>2. pc'[p] = "done" /\ pc'[Other(p)] = pc[Other(p)]
    BY <1>0, <2>1, GoneTo
  <2>3. peerEnd'[p] = peerEnd[p]
    BY <1>0, <2>1 DEF CloseSocket, StateOK
  <2>4. Place(p)'
    BY <1>0, <2>1, <2>2, <2>3 DEF Place, Knows, nic, Early, MainSteps
  <2> QED  BY <2>1, <2>4, PlaceMoved, StepNames DEF nic, ServerCalls, ClientCalls
<1>4. CASE VerbsError(p)
  <2>1. /\ pc[p] \in VerbsSteps /\ Goto(p, "destroy")
        /\ UNCHANGED <<total, remote, tcp, nic, buf>>
    BY <1>4 DEF VerbsError
  <2>2. pc[p] \notin {"con_read", "done", "close"}
    BY <2>1 DEF VerbsSteps, PollSteps
  <2>3. total[p] = 0
    BY <1>0, <2>2 DEF Place
  <2> QED  BY <1>0, <2>1, <2>2, <2>3, Downward DEF tcp, Place
<1> QED  BY <1>1, <1>2, <1>3, <1>4 DEF Lifetime, Failure

LEMMA VerbsPlace == ASSUME PlaceInv, CreditInv', NEW p \in Peers, Verbs(p) PROVE PlaceInv'
<1>0. StateOK /\ Place(p) /\ pc[p] \in Steps
  BY DEF PlaceInv, CreditInv, StateOK
<1>1. ASSUME NEW at \in {"init", "rtr", "rts"}, NEW to, ModifyQp(p, at, to),
             at = "rts" => to = "RTS"
      PROVE  PlaceInv'
  <2>1. /\ pc[p] = at /\ Continue(p) /\ UNCHANGED <<total, remote, peerEnd, buf, sq>>
        /\ qp'[p] = to /\ \A q \in Peers : q # p => qp'[q] = qp[q]
    BY <1>0, <1>1 DEF ModifyQp, tcp, StateOK
  <2>2. pc'[p] = Follow(p, pc[p]) /\ \A q \in Peers : q # p => pc'[q] = pc[q]
    BY <1>0, <2>1, GoneTo DEF Continue
  <2>3. Follow(p, "init") \in {"post_rr", "rtr"} /\ Follow(p, "rtr") = "rts"
        /\ Follow(p, "rts") = "q_write"
    BY DEF Follow, ConnectSteps, ConnectQp
  <2>4. Place(p)'
    <3>1. /\ pc'[p] \in {"post_rr", "rtr", "rts", "q_write"} /\ total'[p] = 0 /\ buf'[p] # "freed"
          /\ pc'[p] = "q_write" => qp'[p] = "RTS"
      BY <1>0, <1>1, <2>1, <2>2, <2>3 DEF Place
    <3>2. peerEnd'[p] # "up" => pc'[Other(p)] = "done"
      BY <1>0, <2>1, <2>2, OtherPeer DEF Place
    <3> QED  BY <3>1, <3>2 DEF Place, Early, MainSteps
  <2>5. Goto(p, Follow(p, pc[p])) /\ Follow(p, pc[p]) \in Steps /\ pc[p] \in Body
    BY <2>1, FollowSteps DEF Continue, Body, ConnectSteps
  <2>6. /\ p = Server => Follow(p, pc[p]) \in ServerCalls
        /\ p = Client => Follow(p, pc[p]) \in ClientCalls
    BY <2>5, OwnCalls DEF PlaceInv
  <2> QED  BY <2>1, <2>4, <2>5, <2>6, PlaceMoved DEF Body, ConnectSteps
<1>2. ModifyQpToInit(p) \/ ModifyQpToRtr(p) \/ ModifyQpToRts(p) => PlaceInv'
  BY <1>1 DEF ModifyQpToInit, ModifyQpToRtr, ModifyQpToRts
<1>3. CASE PostReceive(p)
  <2>1. pc[p] = "post_rr" /\ Continue(p) /\ UNCHANGED <<total, remote, peerEnd, buf, qp, sq>>
    BY <1>3 DEF PostReceive, tcp
  <2>2. total[p] = 0 /\ buf[p] # "freed" /\ pc[p] \in Body
    BY <1>0, <2>1 DEF Place, Body, ConnectSteps
  <2> QED  BY <2>1, <2>2, Onward DEF Place, PlaceInv
<1>4. CASE PostAnySend(p)
  <2>1. PICK op \in Ops :
          /\ pc[p] \in {"post_send", "post_read", "post_write"} /\ Continue(p)
          /\ pc[p] = "post_send" <=> op = "SEND"
          /\ sq' = [sq EXCEPT ![p] = Append(@, op)]
          /\ UNCHANGED <<total, remote, peerEnd, buf, qp>>
    BY <1>4 DEF PostAnySend, PostSend, tcp, Ops
  <2>2. total[p] = 0 /\ buf[p] # "freed" /\ pc[p] \in Body
    BY <1>0, <2>1 DEF Place, Body, MainSteps
  <2>3. \A k \in 1..Len(sq'[Client]) : sq'[Client][k] # "SEND"
    <3>1. CASE p = Client
      <4>1. op # "SEND" /\ sq[Client] \in Seq(Ops) /\ sq'[Client] = Append(sq[Client], op)
        BY <1>0, <2>1, <3>1 DEF PlaceInv, ClientCalls, StateOK
      <4> QED  BY <4>1 DEF PlaceInv
    <3>2. CASE p # Client
      BY <1>0, <2>1, <3>2, TwoPeers DEF PlaceInv, StateOK
    <3> QED  BY <3>1, <3>2
  <2> QED  BY <2>1, <2>2, <2>3, Onward DEF Place, PlaceInv
<1>5. CASE PollCompletion(p) \/ PollTimeout(p)
  <2>1. /\ pc[p] \in PollSteps
        /\ Continue(p) \/ Goto(p, "destroy")
        /\ UNCHANGED <<total, remote, peerEnd, buf, qp, sq>>
    BY <1>5 DEF PollCompletion, PollTimeout, nic, tcp
  <2>2. total[p] = 0 /\ buf[p] # "freed" /\ pc[p] \in Body \ {"rts", "con_write"} /\ pc[p] \in PollSteps
    BY <1>0, <1>5, StepNames DEF Place, PollSteps, PollCompletion, PollTimeout
  <2>3. CASE Continue(p)
    BY <2>1, <2>2, <2>3, Onward DEF Place, PlaceInv
  <2>4. CASE Goto(p, "destroy")
    <3>1. pc'[p] = "destroy" /\ \A q \in Peers : q # p => pc'[q] = pc[q]
      BY <1>0, <2>4, GoneTo
    <3>2. Other(p) \in Peers /\ Other(p) # p
      BY OtherPeer
    <3>3. Place(p)'
      BY <1>0, <2>1, <2>2, <3>1, <3>2 DEF Place, Early, MainSteps, Knows
    <3> QED  BY <2>1, <2>2, <2>4, <3>3, PlaceMoved, StepNames DEF ServerCalls, ClientCalls, PollSteps
  <2> QED  BY <2>1, <2>3, <2>4
<1> QED  BY <1>2, <1>3, <1>4, <1>5 DEF Verbs

\* What the adapters do to a queue pair and a buffer.
LEMMA AdapterEffect ==
  ASSUME CreditInv, NEW p \in Peers, Adapter(p)
  PROVE  /\ UNCHANGED <<pc, rc, total, remote, out, sock, chan, peerEnd>>
         /\ \A r \in Peers : /\ qp'[r] = qp[r] \/ (qp[r] = "RTS" /\ qp'[r] = "ERR")
                             /\ sq'[r] = sq[r] \/ (sq[r] # <<>> /\ sq'[r] = Tail(sq[r]))
<1>1. sq \in [Peers -> Seq(Ops)] /\ qp \in [Peers -> QpStates] /\ Other(p) \in Peers
  BY OtherPeer DEF CreditInv, StateOK
<1>2. CASE Execute(p)
  BY <1>1, <1>2 DEF Execute, prog, tcp
<1>3. CASE RetryExceeded(p)
  BY <1>1, <1>3 DEF RetryExceeded, prog, tcp
<1>4. CASE DeliverCompletion(p)
  BY <1>1, <1>4 DEF DeliverCompletion, prog, tcp
<1> QED  BY <1>2, <1>3, <1>4 DEF Adapter

LEMMA AdapterPlace == ASSUME PlaceInv, CreditInv', NEW p \in Peers, Adapter(p) PROVE PlaceInv'
<1>0. /\ StateOK /\ \A r \in Peers : Place(r) /\ Credit(r)
      /\ Other(p) \in Peers /\ Other(p) # p
  BY OtherPeer DEF PlaceInv, CreditInv
<1>1. CreditInv
  BY DEF PlaceInv
<1>2. \A r \in Peers : buf'[r] = buf[r] \/ buf'[r] # "freed"
  <2>1. CASE Execute(p)
    <3>1. sq[p] # <<>> /\ qp[Other(p)] \in {"RTR", "RTS"} /\ qp[p] = "RTS"
      BY <2>1 DEF Execute, CanLand
    <3>2. buf[Other(p)] # "freed" /\ buf[p] # "freed"
      BY <1>0, <3>1 DEF Place
    <3>3. \E op : buf' = buf \/ buf' = Transfer(p, op)
      BY <2>1 DEF Execute
    <3> QED  BY <1>0, <3>2, <3>3 DEF Transfer, StateOK
  <2>2. CASE ~ Execute(p)
    BY <2>2 DEF Adapter, RetryExceeded, DeliverCompletion
  <2> QED  BY <2>1, <2>2
<1>3. \A r \in Peers : Place(r)'
  BY <1>0, <1>1, <1>2, AdapterEffect, PlaceKept
<1>4. \A k \in 1..Len(sq'[Client]) : sq'[Client][k] # "SEND"
  <2>1. sq[Client] \in Seq(Ops)
    BY <1>0, TwoPeers DEF StateOK
  <2>2. sq'[Client] = sq[Client] \/ (sq[Client] # <<>> /\ sq'[Client] = Tail(sq[Client]))
    BY <1>1, TwoPeers, AdapterEffect
  <2>3. CASE sq[Client] # <<>> /\ sq'[Client] = Tail(sq[Client])
    <3>1. \A k \in 1..Len(Tail(sq[Client])) : Tail(sq[Client])[k] = sq[Client][k + 1] /\ k + 1 \in 1..Len(sq[Client])
      BY <2>1, <2>3
    <3> QED  BY <2>3, <3>1 DEF PlaceInv
  <2> QED  BY <2>2, <2>3 DEF PlaceInv
<1> QED  BY <1>1, <1>3, <1>4, AdapterEffect DEF PlaceInv

LEMMA NextPlace == PlaceInv /\ [Next]_vars => PlaceInv'
<1> SUFFICES ASSUME PlaceInv, [Next]_vars PROVE PlaceInv'
  OBVIOUS
<1>1. CreditInv'
  BY NextCredit DEF PlaceInv
<1>2. CASE UNCHANGED vars
  BY <1>1, <1>2, PlaceKept DEF PlaceInv, vars, prog, tcp, nic
<1>3. CASE Establish \/ ConnectRefused
  BY <1>1, <1>3, EstablishPlace
<1>4. ASSUME NEW p \in Peers, Program(p) \/ Failure(p) \/ Adapter(p)
      PROVE  PlaceInv'
  BY <1>1, <1>4, SyncPlace, VerbsPlace, BufferPlace, LifetimePlace, AdapterPlace DEF Program
<1> QED  BY <1>2, <1>3, <1>4 DEF Next, Finished
-----------------------------------------------------------------------------
\* The bytes p has taken from its socket at least, unless it has left out its
\* con_read; and those it has sent at most.
Taken(p) ==
  CASE pc[p] \in Early -> 0
    [] pc[p] = "con_read" -> total[p]
    [] pc[p] \in {"init", "post_rr", "rtr", "rts", "q_write", "q_read"} -> ConLen
    [] pc[p] \in {"post_read", "poll_read", "put", "post_write", "poll_write",
                  "w_write", "w_read"} -> ConLen + 2
    [] pc[p] = "report" -> ConLen + 3
    [] OTHER -> ConLen + 1

Sent(p) ==
  CASE pc[p] \in Early -> 0
    [] pc[p] \in Setup \ Early -> ConLen
    [] pc[p] \in {"r_read", "post_read", "poll_read", "put", "post_write",
                  "poll_write", "w_write"} -> ConLen + 2
    [] pc[p] \in {"w_read", "report"} -> ConLen + 3
    [] OTHER -> ConLen + 1

\* The bytes p has taken or can still take.
Has(p) == Taken(p) + Len(chan[p])

\* The other side has read p's connection data in one piece, or still can.
Whole(p) == LET q == Other(p) IN
  Knows(q) \/ (Len(chan[q]) >= ConLen /\ chan[q][ConLen] = Last(p))

\* p has lost count of no byte: it has read no connection data yet, or has
\* read it whole, or the other side will have read p's own whole.
Straight(p) == pc[p] \in Early \cup {"con_read"} \/ Knows(p) \/ Whole(p)

\* Where q's last piece lies, that nothing comes before q has written, and that
\* what p has taken or finds is what q has sent: no more where p has not lost
\* count, no less where q has not.
Stream(p) == LET q == Other(p) IN
  /\ \A k \in 1..Len(chan[p]) : chan[p][k] = Last(q) => k + total[p] <= ConLen
  /\ pc[q] \in Early => chan[p] = <<>> /\ ~ Knows(p) /\ total[p] = 0
  /\ Going(p) /\ Going(q) /\ Straight(p) => Has(p) <= Sent(q)
  /\ Going(p) /\ Going(q) /\ Whole(q) => Has(p) >= Sent(q)

StreamInv == PlaceInv /\ \A p \in Peers : Stream(p)

\* The steps that neither read nor write.
Idle(p) ==
  /\ UNCHANGED <<chan, remote, total>>
  /\ \A r \in Peers : r # p => pc'[r] = pc[r]
  /\ Taken(p)' = Taken(p) /\ Sent(p)' = Sent(p)
  /\ pc'[p] \in Early <=> pc[p] \in Early
  /\ pc'[p] = "con_read" <=> pc[p] = "con_read"
  /\ pc'[p] \in Ended <=> pc[p] \in Ended

\* A step that ends p, or changes what is in a socket of a side that has ended.
Stop(p) ==
  /\ pc'[p] \in Ended /\ remote' = remote
  /\ chan'[p] \in {chan[p], <<>>} /\ total'[p] \in {total[p], 0}
  /\ \A r \in Peers : r # p => pc'[r] = pc[r] /\ chan'[r] = chan[r] /\ total'[r] = total[r]

\* A call of connect_qp or main that is not one of sock_sync_data.
LEMMA IdleCall ==
  ASSUME StateOK, NEW p \in Peers, pc[p] \in Body \ (WriteSteps \cup ReadSteps), Continue(p),
         UNCHANGED <<chan, remote, total>>
  PROVE  Idle(p) \/ Stop(p)
<1> DEFINE to == Follow(p, pc[p])
<1>1. pc'[p] = to /\ \A r \in Peers : r # p => pc'[r] = pc[r]
  BY GoneTo DEF Continue
<1>2. CASE pc[p] = "report"
  <2>1. pc'[p] = "destroy"
    BY <1>1, <1>2 DEF Follow, Main, ConnectSteps
  <2> QED  BY <1>1, <2>1 DEF Stop, Ended
<1>3. CASE pc[p] \in {"init", "post_rr", "rtr", "rts"}
  <2>1. pc'[p] \in {"post_rr", "rtr", "rts", "q_write"}
    BY <1>1, <1>3 DEF Follow, ConnectQp, ConnectSteps
  <2> QED  BY <1>1, <1>3, <2>1 DEF Idle, Taken, Sent, Setup, Early, Ended
<1>4. CASE pc[p] \in {"post_send", "poll_send", "fill", "poll_recv", "got_msg"}
  <2>1. pc'[p] \in {"poll_send", "fill", "r_write", "got_msg"}
    BY <1>1, <1>4 DEF Follow, Main, ConnectSteps
  <2> QED  BY <1>1, <1>4, <2>1 DEF Idle, Taken, Sent, Setup, Early, Ended
<1>5. CASE pc[p] \in {"post_read", "poll_read", "put", "post_write", "poll_write"}
  <2>1. pc'[p] \in {"poll_read", "put", "post_write", "poll_write", "w_write"}
    BY <1>1, <1>5 DEF Follow, Main, ConnectSteps
  <2> QED  BY <1>1, <1>5, <2>1 DEF Idle, Taken, Sent, Setup, Early, Ended
<1> QED  BY <1>2, <1>3, <1>4, <1>5 DEF Body, ConnectSteps, MainSteps, WriteSteps, ReadSteps

LEMMA Still == ASSUME UNCHANGED <<pc, chan, remote, total>>, NEW p \in Peers PROVE Idle(p)
BY DEF Idle, Taken, Sent

LEMMA StopHere ==
  ASSUME StateOK, NEW p \in Peers, NEW to \in Ended, Goto(p, to), remote' = remote,
         chan'[p] \in {chan[p], <<>>}, total'[p] \in {total[p], 0},
         \A r \in Peers : r # p => chan'[r] = chan[r] /\ total'[r] = total[r]
  PROVE  Stop(p)
BY GoneTo DEF Stop

\* Every step, as far as the exchanges are concerned.
LEMMA Moves ==
  ASSUME PlaceInv, [Next]_vars
  PROVE  \E p \in Peers : \/ Idle(p) \/ Stop(p) \/ (SyncWrite(p) /\ Continue(p))
                          \/ ShortWrite(p) \/ SyncRead(p)
<1>0. StateOK /\ {"destroy", "close", "done"} \subseteq Ended
  BY DEF PlaceInv, CreditInv, Ended
<1>1. CASE UNCHANGED vars
  BY <1>1, Still, TwoPeers DEF vars, prog, tcp
<1>2. CASE Establish
  <2>1. ASSUME NEW p \in Peers, NEW to \in {"accept", "create"}, Goto(p, to),
               pc[p] \in {"start", "accept"}, UNCHANGED <<chan, remote, total>>
        PROVE  Idle(p)
    <3>1. pc'[p] = to /\ \A r \in Peers : r # p => pc'[r] = pc[r]
      BY <1>0, <2>1, GoneTo
    <3> QED  BY <2>1, <3>1 DEF Idle, Taken, Sent, Early, Ended
  <2> QED  BY <1>2, <2>1, TwoPeers DEF Establish, Listen, Connect, Accept
<1>3. CASE ConnectRefused
  <2>1. Goto(Client, "done") /\ UNCHANGED <<chan, remote, total>>
    BY <1>3 DEF ConnectRefused, tcp
  <2> QED  BY <1>0, <2>1, StopHere, TwoPeers
<1>4. ASSUME NEW p \in Peers, Program(p) \/ Failure(p) \/ Adapter(p)
      PROVE  Idle(p) \/ Stop(p) \/ (SyncWrite(p) /\ Continue(p)) \/ ShortWrite(p) \/ SyncRead(p)
  <2>1. CASE Sync(p)
    <3>1. CASE SyncWrite(p) /\ ~ Continue(p)
      <4>1. Goto(p, "destroy") /\ UNCHANGED <<total, remote>> /\ chan' = chan
        BY <3>1 DEF SyncWrite
      <4> QED  BY <1>0, <4>1, StopHere
    <3>2. CASE SyncReadFails(p)
      <4>1. Goto(p, "destroy") /\ UNCHANGED <<chan, remote>> /\ total'[p] = 0
            /\ \A r \in Peers : r # p => total'[r] = total[r]
        BY <1>0, <3>2 DEF SyncReadFails, tcp, StateOK
      <4> QED  BY <1>0, <4>1, StopHere
    <3>3. CASE SyncSpin(p)
      BY <3>3, Still DEF SyncSpin, vars, prog, tcp
    <3> QED  BY <2>1, <3>1, <3>2, <3>3 DEF Sync
  <2>2. CASE Verbs(p)
    <3>1. UNCHANGED <<chan, remote, total>> /\ pc[p] \in VerbsSteps \ WriteSteps
          /\ (Continue(p) \/ Goto(p, "destroy"))
      BY <2>2 DEF Verbs, ModifyQpToInit, ModifyQpToRtr, ModifyQpToRts, ModifyQp, PostReceive,
                  PostAnySend, PostSend, PollCompletion, PollTimeout, tcp, VerbsSteps, PollSteps,
                  WriteSteps
    <3>2. pc[p] \in Body \ (WriteSteps \cup ReadSteps)
      BY <3>1, StepNames DEF VerbsSteps, PollSteps, ReadSteps
    <3> QED  BY <1>0, <3>1, <3>2, IdleCall, StopHere
  <2>3. CASE Buffer(p)
    <3>1. UNCHANGED <<chan, remote, total>> /\ pc[p] \in {"got_msg", "fill", "put", "report"}
          /\ Continue(p)
      BY <2>3 DEF Buffer, PrintMessage, SetupReadMessage, ReplaceContents, Report, tcp
    <3>2. pc[p] \in Body \ (WriteSteps \cup ReadSteps)
      BY <3>1, StepNames DEF WriteSteps, ReadSteps
    <3> QED  BY <1>0, <3>1, <3>2, IdleCall
  <2>4. CASE Lifetime(p) \/ Failure(p)
    <3>1. CASE ResourcesCreate(p)
      <4>1. Goto(p, "con_write") /\ UNCHANGED <<chan, remote, total>> /\ pc[p] = "create"
        BY <3>1 DEF ResourcesCreate, tcp
      <4>2. pc'[p] = "con_write" /\ \A r \in Peers : r # p => pc'[r] = pc[r]
        BY <1>0, <4>1, GoneTo
      <4> QED  BY <4>1, <4>2 DEF Idle, Taken, Sent, Early, Ended
    <3>2. CASE CloseAndReturn(p) \/ ResourcesCreateFails(p)
      <4>1. Goto(p, "done") /\ UNCHANGED <<remote, total>> /\ CloseSocket(p)
        BY <3>2 DEF CloseAndReturn, ResourcesCreateFails
      <4>2. chan'[p] = <<>> /\ \A r \in Peers : r # p => chan'[r] = chan[r]
        BY <1>0, <4>1 DEF CloseSocket, StateOK
      <4> QED  BY <1>0, <4>1, <4>2, StopHere
    <3>3. CASE DestroyVerbs(p) \/ VerbsError(p)
      <4>1. (Goto(p, "close") \/ Goto(p, "destroy")) /\ UNCHANGED <<chan, remote, total>>
        BY <3>3 DEF DestroyVerbs, VerbsError, tcp
      <4> QED  BY <1>0, <4>1, StopHere
    <3> QED  BY <2>4, <3>1, <3>2, <3>3 DEF Lifetime, Failure
  <2>5. CASE Adapter(p)
    BY <2>5, AdapterEffect, Still DEF PlaceInv
  <2> QED  BY <1>4, <2>1, <2>2, <2>3, <2>4, <2>5 DEF Program
<1> QED  BY <1>1, <1>2, <1>3, <1>4 DEF Next, Finished

\* The types of the counts.
LEMMA Counts ==
  ASSUME StateOK, NEW p \in Peers
  PROVE  /\ Taken(p) \in Nat /\ Sent(p) \in Nat /\ total[p] \in 0..1
         /\ chan[p] \in Seq(Bytes) /\ Len(chan[p]) \in Nat
         /\ Has(p) \in Nat /\ Has(p) >= Taken(p) /\ Has(p) >= Len(chan[p])
<1>1. total[p] \in 0..1 /\ chan[p] \in Seq(Bytes) /\ Len(chan[p]) \in Nat
  BY DEF StateOK
<1>2. Taken(p) \in Nat
  BY <1>1, ConLength DEF Taken
<1>3. Sent(p) \in Nat
  BY ConLength DEF Sent
<1> QED  BY <1>1, <1>2, <1>3 DEF Has

\* The count holds at the start.
LEMMA InitStream == Init => StreamInv
<1> SUFFICES ASSUME Init PROVE StreamInv
  OBVIOUS
<1>1. PlaceInv
  BY InitPlace
<1>2. ASSUME NEW p \in Peers PROVE Stream(p)
  <2>1. chan[p] = <<>> /\ total[p] = 0 /\ pc[p] = "start" /\ pc[Other(p)] = "start"
    BY OtherPeer DEF Init
  <2>2. ~ Knows(p)
    BY <1>1, <2>1 DEF PlaceInv, Place, Early
  <2>3. Has(p) = 0 /\ Sent(Other(p)) = 0
    BY <2>1 DEF Has, Taken, Sent, Early
  <2> QED  BY <2>1, <2>2, <2>3 DEF Stream
<1> QED  BY <1>1, <1>2 DEF StreamInv

\* What Has, Sent and Straight depend on.
LEMMA CountsSame ==
  ASSUME NEW r \in Peers, pc'[r] = pc[r], total'[r] = total[r]
  PROVE  Taken(r)' = Taken(r) /\ Sent(r)' = Sent(r) /\ (Going(r)' <=> Going(r))
BY DEF Taken, Sent, Going

\* The count is kept by each kind of step: of no exchange, of an end, of a write
\* below, of a read after it.
LEMMA IdleStream ==
  ASSUME StreamInv, NEW p \in Peers, Idle(p), NEW r \in Peers PROVE Stream(r)'
<1>1. \A x \in Peers : /\ Taken(x)' = Taken(x) /\ Sent(x)' = Sent(x) /\ (Going(x)' <=> Going(x))
                       /\ (pc'[x] \in Early <=> pc[x] \in Early)
                       /\ (pc'[x] = "con_read" <=> pc[x] = "con_read")
  BY CountsSame DEF Idle, Going
<1>2. /\ UNCHANGED <<chan, remote, total>> /\ Other(r) \in Peers
  BY OtherPeer DEF Idle
<1>3. \A x \in Peers : (Knows(x)' <=> Knows(x)) /\ (Whole(x)' <=> Whole(x)) /\ Has(x)' = Has(x)
  BY <1>1, <1>2 DEF Knows, Whole, Has
<1>4. Straight(r)' <=> Straight(r)
  BY <1>1, <1>3 DEF Straight
<1>5. Stream(r)
  BY DEF StreamInv
<1> QED  BY <1>1, <1>2, <1>3, <1>4, <1>5 DEF Stream

LEMMA StopStream ==
  ASSUME StreamInv, NEW p \in Peers, Stop(p), NEW r \in Peers PROVE Stream(r)'
<1>1. Stream(r) /\ StateOK /\ pc'[p] \in Ended /\ remote' = remote /\ Ended \cap Early = {}
  BY Named DEF StreamInv, PlaceInv, CreditInv, Stop
<1>2. total[r] \in 0..1 /\ Other(r) \in Peers /\ Other(r) # r
  BY <1>1, OtherPeer DEF StateOK
<1>3. Knows(r)' <=> Knows(r)
  BY <1>1 DEF Knows
<1>4. CASE r = p
  <2>1. pc'[Other(r)] = pc[Other(r)] /\ ~ Going(r)'
    BY <1>1, <1>2, <1>4 DEF Stop, Going
  <2>2. chan'[r] = chan[r] \/ chan'[r] = <<>>
    BY <1>4 DEF Stop
  <2>3. total'[r] = total[r] \/ total'[r] = 0
    BY <1>4 DEF Stop
  <2>4. \A k \in 1..Len(chan'[r]) : chan'[r][k] = Last(Other(r)) => k + total'[r] <= ConLen
    <3>1. CASE chan'[r] = <<>>
      <4>1. 1..Len(chan'[r]) = {}
        BY <3>1
      <4> QED  BY <4>1
    <3>2. CASE chan'[r] = chan[r]
      <4> SUFFICES ASSUME NEW k \in 1..Len(chan[r]), chan[r][k] = Last(Other(r))
                   PROVE  k + total'[r] <= ConLen
        BY <3>2
      <4>1. k + total[r] <= ConLen /\ k \in Nat
        BY <1>1 DEF Stream
      <4> QED  BY <1>2, <2>3, <4>1, ConLength
    <3> QED  BY <2>2, <3>1, <3>2
  <2> QED  BY <1>1, <1>3, <2>1, <2>2, <2>3, <2>4 DEF Stream
<1>5. CASE r # p
  <2>1. Other(r) = p
    BY <1>5, TwoPeers
  <2> QED  BY <1>1, <1>2, <1>3, <1>5, <2>1 DEF Stop, Stream, Going
<1> QED  BY <1>4, <1>5

\* What a call of sock_sync_data does to the counters of its caller.
LEMMA WriteCounts ==
  ASSUME StateOK, NEW p \in Peers, pc[p] \in WriteSteps, pc'[p] = Follow(p, pc[p]), total' = total,
         total[p] = 0
  PROVE  /\ Taken(p)' = Taken(p) /\ pc'[p] \in ReadSteps
         /\ Sent(p)' = Sent(p) + IF pc[p] = "con_write" THEN ConLen ELSE 1
<1>1. CASE pc[p] = "con_write"
  <2>1. pc'[p] = "con_read"
    BY <1>1 DEF Follow, ConnectSteps, ConnectQp
  <2> QED  BY <1>1, <2>1, ConLength DEF Taken, Sent, Early, Setup, ReadSteps
<1>2. CASE pc[p] = "q_write"
  <2>1. pc'[p] = "q_read"
    BY <1>2 DEF Follow, ConnectSteps, ConnectQp
  <2> QED  BY <1>2, <2>1, ConLength DEF Taken, Sent, Early, Setup, Ended, ReadSteps
<1>3. CASE pc[p] = "r_write"
  <2>1. pc'[p] = "r_read"
    BY <1>3 DEF Follow, ConnectSteps, Main
  <2> QED  BY <1>3, <2>1, ConLength DEF Taken, Sent, Early, Setup, Ended, ReadSteps
<1>4. CASE pc[p] = "w_write"
  <2>1. pc'[p] = "w_read"
    BY <1>4 DEF Follow, ConnectSteps, Main
  <2> QED  BY <1>4, <2>1, ConLength DEF Taken, Sent, Early, Setup, Ended, ReadSteps
<1> QED  BY <1>1, <1>2, <1>3, <1>4 DEF WriteSteps

\* A read takes from the socket what it adds to Taken.
LEMMA ReadCounts ==
  ASSUME StateOK, NEW p \in Peers, pc[p] \in ReadSteps, pc'[p] = Follow(p, pc[p])
  PROVE  /\ Taken(p)' = IF pc[p] = "con_read" THEN ConLen ELSE Taken(p) + 1
         /\ Sent(p)' = Sent(p) /\ pc'[p] \notin Early \cup {"con_read"} \cup Ended
<1>1. CASE pc[p] = "con_read"
  <2>1. pc'[p] = "init"
    BY <1>1 DEF Follow, ConnectSteps, ConnectQp
  <2> QED  BY <1>1, <2>1, ConLength DEF Taken, Sent, Early, Setup, Ended
<1>2. CASE pc[p] = "q_read"
  <2>1. pc'[p] \in {"poll_recv", "post_send"}
    BY <1>2 DEF Follow, ConnectSteps, ConnectQp
  <2> QED  BY <1>2, <2>1, ConLength DEF Taken, Sent, Early, Setup, Ended
<1>3. CASE pc[p] = "r_read"
  <2>1. pc'[p] \in {"post_read", "w_write"}
    BY <1>3 DEF Follow, ConnectSteps, Main
  <2> QED  BY <1>3, <2>1, ConLength DEF Taken, Sent, Early, Setup, Ended
<1>4. CASE pc[p] = "w_read"
  <2>1. pc'[p] = "report"
    BY <1>4 DEF Follow, ConnectSteps, Main
  <2> QED  BY <1>4, <2>1, ConLength DEF Taken, Sent, Early, Setup, Ended
<1> QED  BY <1>1, <1>2, <1>3, <1>4 DEF ReadSteps

\* No token is the last piece of connection data.
LEMMA Tokens == \A p \in Peers : \A c : Token(c) # Last(p)
BY ConLength DEF Token, Last

\* What a write adds to the channel.
LEMMA Written ==
  ASSUME StateOK, NEW p \in Peers, SyncWrite(p), Continue(p)
  PROVE  LET q == Other(p) IN
         /\ pc[p] \in WriteSteps /\ pc'[p] = Follow(p, pc[p]) /\ pc'[q] = pc[q]
         /\ UNCHANGED <<total, remote>> /\ chan'[p] = chan[p]
         /\ IF peerEnd[p] = "up" THEN chan'[q] = chan[q] \o Payload(p, pc[p])
                                 ELSE chan'[q] = chan[q]
         /\ pc[p] = "con_write" => Payload(p, pc[p]) = ConData(p)
         /\ pc[p] # "con_write" => \E c : Payload(p, pc[p]) = <<Token(c)>>
<1>1. Other(p) \in Peers /\ Other(p) # p
  BY OtherPeer
<1>2. pc[p] \in WriteSteps /\ UNCHANGED <<total, remote>>
      /\ chan' = IF peerEnd[p] = "up"
               THEN [chan EXCEPT ![Other(p)] = @ \o Payload(p, pc[p])]
               ELSE chan
  BY DEF SyncWrite
<1>3. pc'[p] = Follow(p, pc[p]) /\ pc'[Other(p)] = pc[Other(p)]
  BY <1>1, GoneTo DEF Continue
<1>4. pc[p] # "con_write" => \E c : Payload(p, pc[p]) = <<Token(c)>>
  BY <1>2 DEF Payload, WriteSteps
<1> QED  BY <1>1, <1>2, <1>3, <1>4 DEF StateOK, Payload

\* For the side that writes, nothing changes.
LEMMA WriteSide ==
  ASSUME StreamInv, NEW p \in Peers, SyncWrite(p), Continue(p)
  PROVE  /\ Has(p)' = Has(p) /\ Going(p) /\ (Straight(p)' => Straight(p))
         /\ pc[p] # "con_write" => (Whole(p)' => Whole(p))
         /\ pc'[p] \in ReadSteps /\ total[p] = 0
         /\ Sent(p)' = Sent(p) + IF pc[p] = "con_write" THEN ConLen ELSE 1
<1> DEFINE q == Other(p)
<1>1. /\ StateOK /\ Place(p) /\ Place(q) /\ Stream(p) /\ Stream(q)
      /\ q \in Peers /\ q # p /\ Other(q) = p
  BY TwoPeers DEF StreamInv, PlaceInv, CreditInv
<1>2. /\ pc[p] \in WriteSteps /\ pc'[p] = Follow(p, pc[p]) /\ pc'[q] = pc[q]
      /\ UNCHANGED <<total, remote>> /\ chan'[p] = chan[p]
      /\ IF peerEnd[p] = "up" THEN chan'[q] = chan[q] \o Payload(p, pc[p])
                              ELSE chan'[q] = chan[q]
      /\ pc[p] = "con_write" => Payload(p, pc[p]) = ConData(p)
      /\ pc[p] # "con_write" => \E c : Payload(p, pc[p]) = <<Token(c)>>
  BY <1>1, Written
<1>3. total[p] = 0 /\ pc[p] \in Body /\ pc[p] \notin Ended
  BY <1>1, <1>2, StepNames DEF Place, WriteSteps, Ended
<1>4. /\ Taken(p)' = Taken(p) /\ pc'[p] \in ReadSteps
      /\ Sent(p)' = Sent(p) + IF pc[p] = "con_write" THEN ConLen ELSE 1
  BY <1>1, <1>2, <1>3, WriteCounts
<1>5. \A x \in Peers : Knows(x)' <=> Knows(x)
  BY <1>2 DEF Knows
<1>6. /\ total[q] \in 0..1 /\ chan[q] \in Seq(Bytes) /\ Has(q) \in Nat /\ Sent(p) \in Nat
      /\ Taken(q) \in Nat /\ Sent(q) \in Nat /\ Has(p) \in Nat
  BY <1>1, Counts
<1>7. pc[p] # "con_write" => (Whole(p)' => Whole(p))
  <2> SUFFICES ASSUME pc[p] # "con_write", Len(chan'[q]) >= ConLen, chan'[q][ConLen] = Last(p)
               PROVE  Len(chan[q]) >= ConLen /\ chan[q][ConLen] = Last(p)
    <3>1. Whole(p)' <=> Knows(q)' \/ (Len(chan'[q]) >= ConLen /\ chan'[q][ConLen] = Last(p))
      BY DEF Whole, Last
    <3> QED  BY <1>1, <1>5, <3>1 DEF Whole
  <2>1. CASE chan'[q] = chan[q]
    BY <2>1
  <2>2. CASE chan'[q] # chan[q]
    <3>1. PICK c : chan'[q] = chan[q] \o <<Token(c)>>
      BY <1>2, <2>2
    <3>2. ConLen # Len(chan[q]) + 1
      BY <1>6, <3>1, Tokens
    <3> QED  BY <1>6, <3>1, <3>2, ConLength
  <2> QED  BY <2>1, <2>2
<1>8. Has(p)' = Has(p)
  BY <1>2, <1>4 DEF Has
<1>9. Straight(p)' => Straight(p)
  <2>1. pc'[p] \in Early \cup {"con_read"} => pc[p] = "con_write"
    BY <1>2, <1>3, FollowFacts
  <2> QED  BY <1>1, <1>5, <1>7, <2>1 DEF Straight, Early
<1> QED  BY <1>3, <1>4, <1>7, <1>8, <1>9 DEF Going

\* A whole write keeps the count.
LEMMA WriteStream ==
  ASSUME StreamInv, NEW p \in Peers, SyncWrite(p), Continue(p), NEW r \in Peers PROVE Stream(r)'
<1> DEFINE q == Other(p)
<1>1. /\ StateOK /\ Place(p) /\ Place(q) /\ Stream(p) /\ Stream(q)
      /\ q \in Peers /\ q # p /\ Other(q) = p /\ (r = p \/ r = q)
  BY TwoPeers DEF StreamInv, PlaceInv, CreditInv
<1>2. /\ pc[p] \in WriteSteps /\ pc'[p] = Follow(p, pc[p]) /\ pc'[q] = pc[q]
      /\ UNCHANGED <<total, remote>> /\ chan'[p] = chan[p]
      /\ IF peerEnd[p] = "up" THEN chan'[q] = chan[q] \o Payload(p, pc[p])
                              ELSE chan'[q] = chan[q]
      /\ pc[p] = "con_write" => Payload(p, pc[p]) = ConData(p)
      /\ pc[p] # "con_write" => \E c : Payload(p, pc[p]) = <<Token(c)>>
  BY <1>1, Written
<1>3. /\ Has(p)' = Has(p) /\ Going(p) /\ (Straight(p)' => Straight(p))
      /\ pc[p] # "con_write" => (Whole(p)' => Whole(p))
      /\ pc'[p] \in ReadSteps /\ total[p] = 0
      /\ Sent(p)' = Sent(p) + IF pc[p] = "con_write" THEN ConLen ELSE 1
  BY WriteSide
<1>4. pc'[p] \notin Early \cup Ended
  BY <1>3 DEF ReadSteps, Early, Ended
<1>5. Taken(q)' = Taken(q) /\ Sent(q)' = Sent(q) /\ (Going(q)' <=> Going(q))
  BY <1>1, <1>2, CountsSame
<1>6. \A x \in Peers : Knows(x)' <=> Knows(x)
  BY <1>2 DEF Knows
<1>7. /\ total[q] \in 0..1 /\ chan[q] \in Seq(Bytes) /\ Has(q) \in Nat /\ Sent(p) \in Nat
      /\ Taken(q) \in Nat /\ Sent(q) \in Nat /\ Has(p) \in Nat
  BY <1>1, Counts
<1>8. Stream(p)'
  <2>1. Whole(q)' <=> Whole(q)
    BY <1>1, <1>2, <1>6 DEF Whole
  <2> QED  BY <1>1, <1>2, <1>3, <1>5, <1>6, <2>1 DEF Stream
<1>9. Stream(q)'
  <2>1. Straight(q)' <=> Straight(q)
    BY <1>1, <1>2, <1>6 DEF Straight, Whole
  <2>2. CASE peerEnd[p] # "up"
    <3>1. ~ Going(q) /\ chan'[q] = chan[q]
      BY <1>1, <1>2, <2>2 DEF Place, Going, Ended
    <3> QED  BY <1>1, <1>2, <1>5, <1>4, <3>1 DEF Stream
  <2>3. CASE peerEnd[p] = "up" /\ pc[p] = "con_write"
    <3>1. chan[q] = <<>> /\ total[q] = 0 /\ ~ Knows(q)
      BY <1>1, <2>3 DEF Stream, Early
    <3>2. chan'[q] = <<>> \o ConData(p) /\ ConData(p) \in Seq(Peers \X (1..ConLen)) /\ Len(ConData(p)) = ConLen
      <4>1. ConLen \in Nat /\ ConData(p) \in [1..ConLen -> Peers \X (1..ConLen)]
        BY ConLength DEF ConData
      <4>2. ConData(p) \in Seq(Peers \X (1..ConLen)) /\ Len(ConData(p)) = ConLen
        BY <4>1
      <4> QED  BY <1>2, <2>3, <3>1, <4>2
    <3>3. chan'[q] = ConData(p) /\ Len(chan'[q]) = ConLen
      BY <3>2
    <3>4. Has(q)' = Has(q) + ConLen
      BY <1>5, <1>7, <3>1, <3>3, ConLength DEF Has
    <3>5. Going(q) /\ Straight(q) => Has(q) <= Sent(p)
      BY <1>1, <1>3 DEF Stream, Going
    <3>6. Sent(p) = 0
      BY <2>3 DEF Sent, Early
    <3>7. \A k \in 1..Len(chan'[q]) : chan'[q][k] = Last(p) => k + total'[q] <= ConLen
      BY <1>2, <3>1, <3>3, ConLength
    <3> QED  BY <1>1, <1>2, <1>3, <1>5, <1>4, <1>7, <2>1, <2>3, <3>4, <3>5, <3>6, <3>7, ConLength DEF Stream
  <2>4. CASE peerEnd[p] = "up" /\ pc[p] # "con_write"
    <3>1. PICK c : chan'[q] = chan[q] \o <<Token(c)>>
      BY <1>2, <2>4
    <3>2. Has(q)' = Has(q) + 1 /\ Sent(p)' = Sent(p) + 1
      BY <1>3, <1>5, <1>7, <2>4, <3>1 DEF Has
    <3>3. \A k \in 1..Len(chan'[q]) : chan'[q][k] = Last(p) => k + total'[q] <= ConLen
      <4> SUFFICES ASSUME NEW k \in 1..Len(chan'[q]), chan'[q][k] = Last(p) PROVE k + total[q] <= ConLen
        BY <1>2
      <4>1. k # Len(chan[q]) + 1
        BY <1>7, <3>1, Tokens
      <4>2. k \in 1..Len(chan[q]) /\ chan[q][k] = Last(p)
        BY <1>7, <3>1, <4>1
      <4> QED  BY <1>1, <4>2 DEF Stream
    <3>4. Going(p) /\ (Whole(p)' => Whole(p))
      BY <1>3, <2>4 DEF Going
    <3> QED  BY <1>1, <1>2, <1>5, <1>4, <1>7, <2>1, <3>2, <3>3, <3>4 DEF Stream
  <2> QED  BY <2>2, <2>3, <2>4
<1> QED  BY <1>1, <1>8, <1>9

\* A write that TCP takes only a part of.
LEMMA ShortStream ==
  ASSUME StreamInv, NEW p \in Peers, ShortWrite(p), NEW r \in Peers
  PROVE  Stream(r)' /\ ~ Straight(p)' /\ Len(chan'[Other(p)]) < ConLen
<1> DEFINE q == Other(p)
<1>1. /\ StateOK /\ Place(p) /\ Stream(p) /\ Stream(q)
      /\ q \in Peers /\ q # p /\ Other(q) = p /\ (r = p \/ r = q)
  BY TwoPeers DEF StreamInv, PlaceInv, CreditInv
<1>2. PICK k \in 1..(ConLen - 1) :
        /\ pc[p] = "con_write" /\ Goto(p, "init") /\ UNCHANGED <<remote, total>>
        /\ chan' = [chan EXCEPT ![q] = @ \o SubSeq(ConData(p), 1, k)]
  BY DEF ShortWrite
<1>3. pc'[p] = "init" /\ pc'[q] = pc[q] /\ chan'[p] = chan[p]
  BY <1>1, <1>2, GoneTo DEF StateOK
<1>4. chan[q] = <<>> /\ ~ Knows(q) /\ total[q] = 0 /\ ~ Knows(p)
  BY <1>1, <1>2 DEF Stream, Place, Early
<1>5. Len(chan'[q]) = k /\ k < ConLen /\ k \in Nat
  <2>1. ConLen \in Nat /\ k \in 0..ConLen
        /\ ConData(p) \in [1..ConLen -> Peers \X (1..ConLen)]
    BY <1>2, ConLength DEF ConData
  <2>2. ConData(p) \in Seq(Peers \X (1..ConLen)) /\ Len(ConData(p)) = ConLen
    BY <2>1
  <2>3. SubSeq(ConData(p), 1, k) \in Seq(Peers \X (1..ConLen)) /\ Len(SubSeq(ConData(p), 1, k)) = k
    BY <2>1, <2>2
  <2>4. chan'[q] = <<>> \o SubSeq(ConData(p), 1, k)
    BY <1>1, <1>2, <1>4 DEF StateOK
  <2> QED  BY <1>2, <2>3, <2>4, ConLength
<1>6. \A x \in Peers : Knows(x)' <=> Knows(x)
  BY <1>2 DEF Knows
<1>7. ~ Whole(p)' /\ (Whole(q)' <=> Whole(q))
  BY <1>1, <1>3, <1>4, <1>5, <1>6, ConLength DEF Whole
<1>8. Taken(q)' = Taken(q) /\ Sent(q)' = Sent(q) /\ (Going(q)' <=> Going(q))
  BY <1>1, <1>2, <1>3, CountsSame
<1>9. Taken(p) = 0 /\ Sent(p) = 0 /\ Taken(p)' = ConLen /\ Sent(p)' = ConLen /\ Going(p)
  BY <1>2, <1>3 DEF Taken, Sent, Early, Setup, Going, Ended
<1>10. Len(chan[p]) \in Nat /\ Taken(q) \in Nat /\ Has(q) = Taken(q) /\ Sent(q) \in Nat
  BY <1>1, <1>4, Counts DEF Has
<1>0. ~ Straight(p)'
  BY <1>3, <1>4, <1>6, <1>7 DEF Straight, Early, Knows
<1>11. Stream(p)'
  <2>2. Has(p)' >= Has(p) /\ Has(p) \in Nat /\ Has(p)' \in Nat
    BY <1>3, <1>9, <1>10, ConLength DEF Has
  <2> QED  BY <1>1, <1>2, <1>3, <1>6, <1>7, <1>8, <1>9, <1>10, <1>0, <2>2 DEF Stream
<1>12. Stream(q)'
  <2>1. Straight(q)' => Straight(q)
    BY <1>1, <1>3, <1>6, <1>7 DEF Straight
  <2>2. Has(q)' = Has(q) + k
    BY <1>5, <1>8, <1>10 DEF Has
  <2>3. \A j \in 1..Len(chan'[q]) : j + total'[q] <= ConLen
    BY <1>2, <1>4, <1>5, ConLength
  <2>4. pc'[p] \notin Early
    BY <1>3 DEF Early
  <2> QED  BY <1>1, <1>3, <1>5, <1>7, <1>8, <1>9, <1>10, <2>1, <2>2, <2>3, <2>4, ConLength DEF Stream
<1> QED  BY <1>0, <1>1, <1>5, <1>11, <1>12

\* What a read takes from the channel.
LEMMA Read ==
  ASSUME StateOK, NEW p \in Peers, SyncRead(p)
  PROVE  LET q == Other(p) IN
         \E n \in 1..XferSize(pc[p]) :
           /\ pc[p] \in ReadSteps /\ n <= Len(chan[p])
           /\ \A x \in Peers : x # p => /\ pc'[x] = pc[x] /\ chan'[x] = chan[x]
                                        /\ total'[x] = total[x] /\ remote'[x] = remote[x]
           /\ Len(chan'[p]) = Len(chan[p]) - n
           /\ \A k \in 1..Len(chan'[p]) : chan'[p][k] = chan[p][k + n]
           /\ total'[p] = IF total[p] + n >= XferSize(pc[p]) THEN 0 ELSE total[p] + n
           /\ pc'[p] = IF total[p] + n >= XferSize(pc[p]) THEN Follow(p, pc[p]) ELSE pc[p]
           /\ remote'[p][ConLen] = IF pc[p] = "con_read" /\ n = ConLen
                                     THEN chan[p][ConLen] ELSE remote[p][ConLen]
<1>1. PICK n \in 1..XferSize(pc[p]) :
        /\ pc[p] \in ReadSteps /\ n <= Len(chan[p])
        /\ chan' = [chan EXCEPT ![p] = SubSeq(@, n + 1, Len(@))]
        /\ total' = [total EXCEPT ![p] = Count(p, n)]
        /\ remote' = IF pc[p] = "con_read"
                     THEN [remote EXCEPT ![p] = [i \in 1..ConLen |->
                             IF i <= n THEN chan[p][i] ELSE @[i]]]
                     ELSE remote
        /\ IF total[p] + n >= XferSize(pc[p]) THEN Continue(p) ELSE UNCHANGED pc
  BY DEF SyncRead
<1>2. /\ chan[p] \in Seq(Bytes) /\ n \in Nat /\ n >= 1 /\ XferSize(pc[p]) \in 1..2
      /\ n + 1 \in 1..(Len(chan[p]) + 1)
  BY <1>1, ConLength DEF StateOK, XferSize
<1>3. chan'[p] = SubSeq(chan[p], n + 1, Len(chan[p])) /\ \A x \in Peers : x # p => chan'[x] = chan[x]
  BY <1>1 DEF StateOK
<1>4. Len(chan'[p]) = Len(chan[p]) - n
  BY <1>1, <1>2, <1>3
<1>5. \A k \in 1..Len(chan'[p]) : chan'[p][k] = chan[p][k + n]
  BY <1>1, <1>2, <1>3, <1>4
<1>6. total'[p] = (IF total[p] + n >= XferSize(pc[p]) THEN 0 ELSE total[p] + n)
      /\ \A x \in Peers : x # p => total'[x] = total[x]
  BY <1>1 DEF StateOK, Count
<1>7. pc'[p] = (IF total[p] + n >= XferSize(pc[p]) THEN Follow(p, pc[p]) ELSE pc[p])
      /\ \A x \in Peers : x # p => pc'[x] = pc[x]
  BY <1>1, GoneTo DEF Continue
<1>8. remote'[p][ConLen] = (IF pc[p] = "con_read" /\ n = ConLen THEN chan[p][ConLen]
                                                               ELSE remote[p][ConLen])
      /\ \A x \in Peers : x # p => remote'[x] = remote[x]
  <2>1. CASE pc[p] = "con_read"
    <3>1. n \in 1..ConLen /\ (ConLen <= n <=> n = ConLen)
      BY <1>1, <2>1, ConLength DEF XferSize
    <3> QED  BY <1>1, <2>1, <3>1, ConLength DEF StateOK
  <2>2. CASE pc[p] # "con_read"
    BY <1>1, <2>2
  <2> QED  BY <2>1, <2>2
<1> QED  BY <1>1, <1>3, <1>4, <1>5, <1>6, <1>7, <1>8

\* A read makes nothing of what there is, if the reader knows what it reads.
LEMMA ReadSide ==
  ASSUME StreamInv, NEW p \in Peers, SyncRead(p)
  PROVE  /\ pc'[p] \notin Early \cup Ended /\ Going(p) /\ Going(p)' /\ Sent(p)' = Sent(p)
         /\ pc[Other(p)] \notin Early /\ Sent(Other(p))' = Sent(Other(p))
         /\ Has(p)' \in Nat /\ Has(p)' <= Has(p) /\ (Knows(p)' => Has(p)' = Has(p))
         /\ (Straight(p)' => Straight(p)) /\ (Whole(p)' <=> Whole(p))
         /\ Has(Other(p))' = Has(Other(p)) /\ (Going(Other(p))' <=> Going(Other(p)))
         /\ (Straight(Other(p))' => Straight(Other(p)))
         /\ (Whole(Other(p))' => Whole(Other(p)) /\ Knows(p)')
<1> DEFINE q == Other(p)
           size == XferSize(pc[p])
<1>1. /\ StateOK /\ Place(p) /\ Stream(p) /\ Stream(q)
      /\ q \in Peers /\ q # p /\ Other(q) = p
  BY TwoPeers DEF StreamInv, PlaceInv, CreditInv
<1>2. PICK n \in 1..size :
        /\ pc[p] \in ReadSteps /\ n <= Len(chan[p])
        /\ \A x \in Peers : x # p => /\ pc'[x] = pc[x] /\ chan'[x] = chan[x]
                                     /\ total'[x] = total[x] /\ remote'[x] = remote[x]
        /\ Len(chan'[p]) = Len(chan[p]) - n
        /\ \A k \in 1..Len(chan'[p]) : chan'[p][k] = chan[p][k + n]
        /\ total'[p] = IF total[p] + n >= size THEN 0 ELSE total[p] + n
        /\ pc'[p] = IF total[p] + n >= size THEN Follow(p, pc[p]) ELSE pc[p]
        /\ remote'[p][ConLen] = IF pc[p] = "con_read" /\ n = ConLen
                                  THEN chan[p][ConLen] ELSE remote[p][ConLen]
  BY <1>1, Read
<1>3. /\ total[p] \in 0..1 /\ Len(chan[p]) \in Nat /\ Taken(p) \in Nat /\ Sent(p) \in Nat
      /\ Sent(q) \in Nat /\ Has(p) \in Nat /\ Has(q) \in Nat
  BY <1>1, Counts
<1>4. size = (IF pc[p] = "con_read" THEN ConLen ELSE 1) /\ n \in Nat /\ n >= 1 /\ n <= size
  BY <1>2, ConLength DEF XferSize
<1>5. /\ pc'[q] = pc[q] /\ chan'[q] = chan[q] /\ total'[q] = total[q] /\ remote'[q] = remote[q]
      /\ Taken(q)' = Taken(q) /\ Sent(q)' = Sent(q) /\ (Going(q)' <=> Going(q))
  BY <1>1, <1>2, CountsSame
<1>6. pc[q] \notin Early
  <2>1. chan[p] # <<>>
    BY <1>2, <1>3, <1>4
  <2> QED  BY <1>1, <2>1 DEF Stream
<1>7. /\ pc'[p] \notin Early \cup Ended /\ Going(p) /\ Going(p)' /\ Sent(p)' = Sent(p)
      /\ pc'[p] = "con_read" => pc[p] = "con_read"
      /\ pc[p] # "con_read" => total[p] = 0 /\ Taken(p)' = Taken(p) + 1
      /\ pc[p] = "con_read" => /\ Taken(p) = total[p]
                               /\ Taken(p)' = IF total[p] + n >= size THEN ConLen ELSE total[p] + n
  <2>1. pc[p] # "con_read" => total[p] = 0
    BY <1>1 DEF Place
  <2>2. pc[p] \notin Early \cup Ended
    BY <1>2 DEF ReadSteps, Early, Ended
  <2>3. pc[p] = "con_read" => Taken(p) = total[p]
    BY DEF Taken, Early
  <2>4. CASE total[p] + n >= size
    <3>1. pc'[p] = Follow(p, pc[p])
      BY <1>2, <2>4
    <3>2. /\ Taken(p)' = IF pc[p] = "con_read" THEN ConLen ELSE Taken(p) + 1
          /\ Sent(p)' = Sent(p) /\ pc'[p] \notin Early \cup {"con_read"} \cup Ended
      BY <1>1, <1>2, <3>1, ReadCounts
    <3> QED  BY <2>1, <2>2, <2>3, <2>4, <3>2 DEF Going
  <2>5. CASE ~ (total[p] + n >= size)
    <3>1. pc'[p] = pc[p] /\ pc[p] = "con_read" /\ total'[p] = total[p] + n
      BY <1>2, <1>3, <1>4, <2>5
    <3>2. Taken(p)' = total'[p] /\ Sent(p)' = Sent(p)
      BY <3>1 DEF Taken, Sent, Early
    <3> QED  BY <2>2, <2>3, <2>5, <3>1, <3>2 DEF Going
  <2> QED  BY <2>4, <2>5
<1>8. Knows(q)' <=> Knows(q)
  BY <1>5 DEF Knows
<1>9. Whole(p)' <=> Whole(p)
  BY <1>1, <1>5, <1>8 DEF Whole
\* Nothing behind the connection data looks like it.
<1>10. ~ (Len(chan'[p]) >= ConLen /\ chan'[p][ConLen] = Last(q))
  <2> SUFFICES ASSUME Len(chan'[p]) >= ConLen, chan'[p][ConLen] = Last(q) PROVE FALSE
    OBVIOUS
  <2>1. ConLen + n \in 1..Len(chan[p]) /\ ConLen \in 1..Len(chan'[p])
    BY <1>2, <1>3, <1>4, ConLength
  <2>2. chan[p][ConLen + n] = Last(q)
    BY <1>2, <2>1
  <2>3. ConLen + n + total[p] <= ConLen
    BY <1>1, <2>1, <2>2 DEF Stream
  <2> QED  BY <1>3, <1>4, <2>3, ConLength
<1>11. Whole(q)' <=> Knows(p)'
  BY <1>1, <1>10 DEF Whole, Last
<1>12. Knows(p)' => /\ Whole(q)
                    /\ pc[p] = "con_read" => n = ConLen /\ total[p] = 0
  <2> SUFFICES ASSUME Knows(p)' PROVE Whole(q) /\ (pc[p] = "con_read" => n = ConLen /\ total[p] = 0)
    OBVIOUS
  <2>1. CASE pc[p] # "con_read"
    BY <1>1, <1>2, <2>1 DEF Knows, Whole
  <2>2. CASE pc[p] = "con_read"
    <3>1. ~ Knows(p)
      BY <1>1, <2>2 DEF Place
    <3>2. n = ConLen /\ chan[p][ConLen] = Last(q)
      BY <1>2, <2>2, <3>1 DEF Knows, Last
    <3>3. ConLen \in 1..Len(chan[p])
      BY <1>2, <1>3, <3>2, ConLength
    <3>4. ConLen + total[p] <= ConLen
      BY <1>1, <3>2, <3>3 DEF Stream
    <3> QED  BY <1>1, <1>3, <3>2, <3>3, <3>4, ConLength DEF Whole
  <2> QED  BY <2>1, <2>2
<1>13. Has(p)' <= Has(p) /\ Has(p)' \in Nat /\ (Knows(p)' => Has(p)' = Has(p))
  <2>1. Has(p)' = Taken(p)' + (Len(chan[p]) - n) /\ Has(p) = Taken(p) + Len(chan[p])
    BY <1>2 DEF Has
  <2>2. CASE pc[p] # "con_read"
    BY <1>2, <1>3, <1>4, <1>7, <2>1, <2>2
  <2>3. CASE pc[p] = "con_read" /\ total[p] + n >= size
    <3>1. Taken(p)' = ConLen /\ Taken(p) = total[p] /\ total[p] + n >= ConLen /\ n <= ConLen
      BY <1>4, <1>7, <2>3
    <3>2. /\ Has(p)' = ConLen + (Len(chan[p]) - n) /\ Has(p) = total[p] + Len(chan[p])
      BY <2>1, <3>1
    <3>3. Has(p)' <= Has(p) /\ Has(p)' \in Nat
      BY <1>2, <1>3, <1>4, <3>1, <3>2, ConLength
    <3>4. Knows(p)' => n = ConLen /\ total[p] = 0
      BY <1>12, <2>3
    <3>5. Knows(p)' => Has(p)' = Has(p)
      BY <1>3, <3>2, <3>4, ConLength
    <3> QED  BY <3>3, <3>5
  <2>4. CASE pc[p] = "con_read" /\ ~ (total[p] + n >= size)
    BY <1>2, <1>3, <1>4, <1>7, <1>12, <2>1, <2>4, ConLength
  <2> QED  BY <2>2, <2>3, <2>4
<1>14. Straight(p)' => Straight(p)
  <2>1. pc[p] # "con_read" => (Knows(p)' <=> Knows(p))
    BY <1>2 DEF Knows
  <2> QED  BY <1>7, <1>9, <2>1 DEF Straight
<1>15. Straight(q)' => Straight(q)
  BY <1>5, <1>8, <1>11, <1>12 DEF Straight
<1>16. Has(q)' = Has(q)
  BY <1>5 DEF Has
<1> HIDE DEF q, size
<1> QED  BY <1>5, <1>6, <1>7, <1>9, <1>11, <1>12, <1>13, <1>14, <1>15, <1>16 DEF q

\* A read keeps the count.
LEMMA ReadStream ==
  ASSUME StreamInv, NEW p \in Peers, SyncRead(p), NEW r \in Peers PROVE Stream(r)'
<1> DEFINE q == Other(p)
<1>1. /\ StateOK /\ Place(p) /\ Stream(p) /\ Stream(q)
      /\ q \in Peers /\ q # p /\ Other(q) = p /\ (r = p \/ r = q)
  BY TwoPeers DEF StreamInv, PlaceInv, CreditInv
<1>2. PICK n \in 1..XferSize(pc[p]) :
        /\ pc[p] \in ReadSteps /\ n <= Len(chan[p])
        /\ \A x \in Peers : x # p => /\ pc'[x] = pc[x] /\ chan'[x] = chan[x]
                                     /\ total'[x] = total[x] /\ remote'[x] = remote[x]
        /\ Len(chan'[p]) = Len(chan[p]) - n
        /\ \A k \in 1..Len(chan'[p]) : chan'[p][k] = chan[p][k + n]
        /\ total'[p] = IF total[p] + n >= XferSize(pc[p]) THEN 0 ELSE total[p] + n
        /\ pc'[p] = IF total[p] + n >= XferSize(pc[p]) THEN Follow(p, pc[p]) ELSE pc[p]
        /\ remote'[p][ConLen] = IF pc[p] = "con_read" /\ n = ConLen
                                  THEN chan[p][ConLen] ELSE remote[p][ConLen]
  BY <1>1, Read
<1>3. /\ pc'[p] \notin Early \cup Ended /\ Going(p) /\ Going(p)' /\ Sent(p)' = Sent(p)
      /\ pc[q] \notin Early /\ Sent(q)' = Sent(q)
      /\ Has(p)' \in Nat /\ Has(p)' <= Has(p) /\ (Knows(p)' => Has(p)' = Has(p))
      /\ (Straight(p)' => Straight(p)) /\ (Whole(p)' <=> Whole(p))
      /\ Has(q)' = Has(q) /\ (Going(q)' <=> Going(q))
      /\ (Straight(q)' => Straight(q))
      /\ (Whole(q)' => Whole(q) /\ Knows(p)')
  BY ReadSide
<1>4. pc'[q] = pc[q] /\ chan'[q] = chan[q] /\ total'[q] = total[q] /\ remote'[q] = remote[q]
  BY <1>1, <1>2
<1>5. \A k \in 1..Len(chan'[p]) : chan'[p][k] = Last(q) => k + total'[p] <= ConLen
  <2> SUFFICES ASSUME NEW k \in 1..Len(chan'[p]), chan'[p][k] = Last(q) PROVE k + total'[p] <= ConLen
    OBVIOUS
  <2>1. /\ k + n \in 1..Len(chan[p]) /\ k \in Nat /\ n \in Nat /\ total[p] \in 0..1
    <3>1. Len(chan[p]) \in Nat /\ total[p] \in 0..1 /\ n \in Nat
      BY <1>1, Counts, ConLength DEF XferSize
    <3> QED  BY <1>2, <3>1
  <2>2. k + n + total[p] <= ConLen
    BY <1>1, <1>2, <2>1 DEF Stream
  <2> QED  BY <1>2, <2>1, <2>2, ConLength
<1>6. Sent(q) \in Nat /\ Has(p) \in Nat
  BY <1>1, Counts
<1>7. Stream(p)'
  BY <1>1, <1>3, <1>4, <1>5, <1>6 DEF Stream, Last
<1>8. Stream(q)'
  BY <1>1, <1>3, <1>4 DEF Stream, Last, Knows
<1> QED  BY <1>1, <1>7, <1>8

\* The count is inductive.
LEMMA NextStream == StreamInv /\ [Next]_vars => StreamInv'
<1> SUFFICES ASSUME StreamInv, [Next]_vars PROVE StreamInv'
  OBVIOUS
<1>1. PlaceInv'
  BY NextPlace DEF StreamInv
<1>2. PICK p \in Peers : \/ Idle(p) \/ Stop(p) \/ (SyncWrite(p) /\ Continue(p))
                         \/ ShortWrite(p) \/ SyncRead(p)
  BY Moves DEF StreamInv
<1>3. \A r \in Peers : Stream(r)'
  BY <1>2, IdleStream, StopStream, WriteStream, ShortStream, ReadStream
<1> QED  BY <1>1, <1>3 DEF StreamInv

-----------------------------------------------------------------------------
(* The order of the two programs.                                          *)

\* Nothing but its connection data reaches a side that has sent nothing; not
\* even all of it, if the other side has ended.
Silent(p) == LET q == Other(p) IN
  pc[p] \in Early =>
    /\ pc[q] \in Setup \cup {"q_read"} \cup Ended
    /\ pc[q] \in (Setup \ {"con_read"}) \cup Ended => Len(chan[p]) < ConLen

\* A Q comes from a side whose queue pair is ready.
First(p) == LET q == Other(p) IN
  Going(p) /\ Straight(p) /\ Has(p) > ConLen =>
    /\ qp[q] \in {"RTS", "ERR", "destroyed"}
    /\ p = Server /\ pc[p] \in ToPost => rq[q] > 0 \/ qp[q] = "destroyed"

\* The receive of the client waits for the SEND.
Ready ==
  /\ pc[Client] \in {"rtr", "rts", "q_write", "q_read"} /\ pc[Server] \in ToPost =>
       rq[Client] > 0
  /\ sq[Server] # <<>> /\ Knows(Server) =>
       /\ qp[Client] \in {"RTS", "ERR", "destroyed"}
       /\ rq[Client] > 0 \/ qp[Client] = "destroyed"
       /\ pc[Client] \notin Setup

\* The W of the client comes after its last request.
Third == Going(Server) /\ Straight(Server) /\ Has(Server) >= ConLen + 3 =>
  sq[Client] = <<>> /\ pc[Client] \in {"w_read", "report"} \cup Ended

\* Who ends before its own R or W has been answered has sent no more than Q.
ServerGone ==
  /\ pc[Server] \in Ended /\ pc[Client] \notin {"w_read", "report"} \cup Ended
  /\ Straight(Client)
  => Has(Client) <= ConLen + 1
ClientGone ==
  /\ pc[Client] \in Ended
  /\ pc[Server] \notin {"r_read", "w_write", "w_read", "report"} \cup Ended
  /\ Straight(Server)
  => Has(Server) <= ConLen + 1

\* The completions p may still poll.
Completed(p) == {cq[p][k] : k \in 1..Len(cq[p])} \cup {pend[p][k] : k \in 1..Len(pend[p])}

\* The client's calls after its own R has been answered.
Late == {"post_read", "poll_read", "put", "post_write", "poll_write", "w_write",
         "w_read", "report"}

\* The client receives what the server has sent over the right queue pair.
Received ==
  \/ pc[Client] \in {"got_msg", "r_write", "r_read"} \cup Late
  \/ \E c \in Completed(Client) : c.op = "RECV"
  => /\ Knows(Server) /\ sq[Server] = <<>>
     /\ pc[Server] \notin ToPost /\ pc[Client] \notin Setup

\* Nobody gets past a poll for a request of its own unless both know the other.
Both == Knows(Server) /\ Knows(Client)
Agreed ==
  /\ pc[Server] \in {"fill", "r_write", "r_read", "w_write", "w_read", "report"} => Both
  /\ pc[Client] \in Late \ {"post_read", "poll_read"} => Both
  /\ \A p \in Peers : \A c \in Completed(p) : c.ok /\ c.op # "RECV" => Both

\* From R to W the server has lent its buffer to the client.
Active == \/ pc[Client] \in {"post_read", "poll_read", "put", "post_write", "poll_write",
                             "w_write"}
          \/ sq[Client] # <<>>
Lent == Active => pc[Server] \in {"r_read", "w_write", "w_read"}

\* A side that has written to a closed socket writes no more.
Cut(p) == peerEnd[p] = "finrst" =>
  /\ pc[p] \in {"con_read", "q_read", "post_send", "poll_send", "poll_recv", "r_read",
                "w_read", "report"} \cup Ended
  /\ pc[p] = "con_read" => total[p] + Len(chan[p]) < ConLen
  /\ pc[p] = "r_read" => chan[p] = <<>>
  /\ pc[p] \in {"post_send", "poll_send"} => \A c \in Completed(p) : ~ c.ok
  /\ pc[p] = "poll_recv" \/ (p = Client /\ pc[p] = "q_read") => Completed(p) = {}

\* Who reports success has sent all three.
Passed(p) == LET q == Other(p) IN
  rc[p] = 0 => /\ pc[p] \in Ended /\ Knows(q)
               /\ Going(q) => Has(q) >= ConLen + 3

\* The inductive invariant behind the three theorems.
SyncInv == /\ StreamInv
           /\ \A p \in Peers : Silent(p) /\ First(p) /\ Cut(p) /\ Passed(p)
           /\ Ready /\ Third /\ ServerGone /\ ClientGone /\ Received /\ Agreed /\ Lent

-----------------------------------------------------------------------------
(* What a step does to each part of the state.                             *)

\* Where a request of p may be out.
Awaiting == PollSteps \cup {"rtr", "rts", "q_write", "q_read", "destroy"}

LEMMA EmptyQueue == ASSUME NEW S, NEW s \in Seq(S), Len(s) = 0 PROVE s = <<>>
OBVIOUS

LEMMA OneLoad ==
  ASSUME NEW a \in Nat, NEW b \in Nat, NEW c \in Nat, NEW d \in Nat, a + b + c + d <= 1, b > 0
  PROVE  b = 1 /\ c = 0 /\ d = 0
OBVIOUS

\* The requests and completions of r are the one it waits for.
LEMMA CreditFacts ==
  ASSUME CreditInv, NEW r \in Peers
  PROVE  /\ rq[r] \in Nat /\ sq[r] \in Seq(Ops)
         /\ sq[r] # <<>> => /\ Tail(sq[r]) = <<>> /\ Head(sq[r]) \in Awaited(r) \cap Ops
                            /\ Completed(r) = {}
         /\ \A c \in Completed(r) : c \in CQE /\ c.op \in Awaited(r)
         /\ cq[r] # <<>> => Head(cq[r]) \in Completed(r)
         /\ Awaited(r) # {} => pc[r] \in Awaiting
<1>1. /\ rq[r] \in Nat /\ sq[r] \in Seq(Ops) /\ pend[r] \in Seq(CQE) /\ cq[r] \in Seq(CQE)
      /\ Len(sq[r]) \in Nat /\ Len(pend[r]) \in Nat /\ Len(cq[r]) \in Nat
  BY QueueTypes
<1>2. Load(r) <= 1 /\ Credit(r)
  <2>1. Load(r) \in Nat
    <3>1. /\ rq[r] \in Nat
          /\ Len(sq[r]) \in Nat /\ Len(pend[r]) \in Nat /\ Len(cq[r]) \in Nat
      BY <1>1
    <3>2. \A a, b, c, d \in Nat : a + b + c + d \in Nat
      OBVIOUS
    <3>3. rq[r] + Len(sq[r]) + Len(pend[r]) + Len(cq[r]) \in Nat
      BY <3>1, <3>2
    <3> QED  BY <3>3, Zenon DEF Load
  <2>2. Window(r) \in {0, 1}
    BY DEF Window
  <2>3. Credit(r) /\ Load(r) <= Window(r)
    BY DEF CreditInv, Credit
  <2> QED  BY <2>1, <2>2, <2>3
<1>3. sq[r] # <<>> => /\ Tail(sq[r]) = <<>> /\ Head(sq[r]) \in Awaited(r) \cap Ops
                      /\ Len(pend[r]) = 0 /\ Len(cq[r]) = 0
  <2> SUFFICES ASSUME sq[r] # <<>>
               PROVE  /\ Tail(sq[r]) = <<>> /\ Head(sq[r]) \in Awaited(r) \cap Ops
                      /\ Len(pend[r]) = 0 /\ Len(cq[r]) = 0
    OBVIOUS
  <2>1. Len(sq[r]) > 0
    BY <1>1
  <2>2. Len(sq[r]) = 1 /\ Len(pend[r]) = 0 /\ Len(cq[r]) = 0
    BY <1>1, <1>2, <2>1, OneLoad DEF Load
  <2>3. Tail(sq[r]) = <<>>
    <3>1. Tail(sq[r]) \in Seq(Ops) /\ Len(Tail(sq[r])) = 0
      BY <1>1, <2>2
    <3> QED  BY <3>1, EmptyQueue
  <2>4. Head(sq[r]) = sq[r][1] /\ sq[r][1] \in Ops /\ 1 \in 1..Len(sq[r])
    BY <1>1, <2>2
  <2> QED  BY <1>2, <2>2, <2>3, <2>4 DEF Credit
<1>4. Len(pend[r]) = 0 /\ Len(cq[r]) = 0 => Completed(r) = {}
  BY DEF Completed
<1>5. \A c \in Completed(r) : c \in CQE /\ c.op \in Awaited(r)
  BY <1>1, <1>2 DEF Completed, Credit
<1>6. cq[r] # <<>> => Head(cq[r]) \in Completed(r)
  <2> SUFFICES ASSUME cq[r] # <<>> PROVE Head(cq[r]) \in Completed(r)
    OBVIOUS
  <2>1. Head(cq[r]) = cq[r][1] /\ 1 \in 1..Len(cq[r])
    BY <1>1
  <2> QED  BY <2>1 DEF Completed
<1>7. Awaited(r) # {} => pc[r] \in Awaiting
  BY DEF Awaited, Awaiting, PollSteps
<1> QED  BY <1>1, <1>3, <1>4, <1>5, <1>6, <1>7

\* The steps that touch the queue pairs, and those that leave them alone.
NicMove(p) ==
  \/ /\ pc[p] \in {"create", "init", "rtr", "rts"} /\ UNCHANGED <<rq, sq, pend, cq>>
     /\ \E to \in QpStates : qp' = [qp EXCEPT ![p] = to]
  \/ PostReceive(p) \/ PostAnySend(p) \/ PollCompletion(p) \/ DestroyVerbs(p) \/ Adapter(p)

\* The queues move by the verbs and by the adapter only.
LEMMA NicSteps == ASSUME [Next]_vars PROVE UNCHANGED nic \/ \E p \in Peers : NicMove(p)
<1>1. CASE Establish \/ ConnectRefused \/ UNCHANGED vars
  BY <1>1 DEF Establish, Listen, Connect, Accept, ConnectRefused, vars
<1>2. ASSUME NEW p \in Peers, Program(p) \/ Failure(p) \/ Adapter(p)
      PROVE  UNCHANGED nic \/ NicMove(p)
  <2>1. CASE Sync(p) \/ Buffer(p) \/ Failure(p)
    BY <2>1 DEF Sync, SyncWrite, ShortWrite, SyncRead, SyncReadFails, SyncSpin, Buffer, PrintMessage,
                SetupReadMessage, ReplaceContents, Report, Failure, ResourcesCreateFails, VerbsError, vars
  <2>2. CASE Verbs(p)
    BY <2>2 DEF Verbs, ModifyQpToInit, ModifyQpToRtr, ModifyQpToRts, ModifyQp, PollTimeout, NicMove, QpStates
  <2>3. CASE Lifetime(p)
    BY <2>3 DEF Lifetime, ResourcesCreate, CloseAndReturn, NicMove, QpStates
  <2> QED  BY <1>2, <2>1, <2>2, <2>3 DEF Program, NicMove
<1> QED  BY <1>1, <1>2 DEF Next, Finished

LEMMA QpMoves ==
  ASSUME CreditInv, [Next]_vars, NEW r \in Peers
  PROVE  \/ qp'[r] = qp[r] \/ (qp[r] = "RTS" /\ qp'[r] = "ERR") \/ qp'[r] = "destroyed"
         \/ pc[r] \in {"create", "init", "rtr", "rts"}
<1>1. qp \in [Peers -> QpStates]
  BY DEF CreditInv, StateOK
<1>2. ASSUME NEW p \in Peers, NicMove(p)
      PROVE  \/ qp'[r] = qp[r] \/ (qp[r] = "RTS" /\ qp'[r] = "ERR") \/ qp'[r] = "destroyed"
             \/ pc[r] \in {"create", "init", "rtr", "rts"}
  <2>1. CASE Adapter(p)
    BY <2>1, AdapterEffect
  <2>2. CASE ~ Adapter(p)
    BY <1>1, <1>2, <2>2 DEF NicMove, PostReceive, PostAnySend, PostSend, PollCompletion, DestroyVerbs
  <2> QED  BY <2>1, <2>2
<1> QED  BY <1>2, NicSteps DEF nic

LEMMA SqMoves ==
  ASSUME CreditInv, [Next]_vars, NEW r \in Peers
  PROVE  \/ sq'[r] = sq[r] \/ sq'[r] = <<>>
         \/ /\ PostAnySend(r)
            /\ pc[r] \in {"post_send", "post_read", "post_write"} /\ pc'[r] = Follow(r, pc[r])
            /\ \A x \in Peers : x # r => pc'[x] = pc[x]
            /\ UNCHANGED <<qp, rq, chan, remote, total>>
<1>1. sq \in [Peers -> Seq(Ops)] /\ StateOK
  BY DEF CreditInv, StateOK
<1>2. ASSUME NEW p \in Peers, NicMove(p), sq'[r] # sq[r], sq'[r] # <<>>
      PROVE  p = r /\ PostAnySend(r)
  <2>1. CASE Adapter(p)
    BY <1>2, <2>1, AdapterEffect, CreditFacts
  <2>2. CASE ~ Adapter(p)
    BY <1>1, <1>2, <2>2 DEF NicMove, PostReceive, PostAnySend, PostSend, PollCompletion, DestroyVerbs
  <2> QED  BY <2>1, <2>2
<1>3. ASSUME PostAnySend(r)
      PROVE  /\ pc[r] \in {"post_send", "post_read", "post_write"} /\ pc'[r] = Follow(r, pc[r])
             /\ \A x \in Peers : x # r => pc'[x] = pc[x]
             /\ UNCHANGED <<qp, rq, chan, remote, total>>
  <2>1. pc[r] \in {"post_send", "post_read", "post_write"} /\ Continue(r)
        /\ UNCHANGED <<qp, rq, chan, remote, total>>
    BY <1>3 DEF PostAnySend, PostSend, tcp
  <2> QED  BY <1>1, <2>1, GoneTo DEF Continue
<1> QED  BY <1>2, <1>3, NicSteps DEF nic

LEMMA RqMoves ==
  ASSUME CreditInv, [Next]_vars, NEW r \in Peers
  PROVE  \/ rq'[r] >= rq[r] \/ (pc[r] = "destroy" /\ qp'[r] = "destroyed" /\ pc'[r] = "close")
         \/ sq[Other(r)] # <<>> /\ sq'[Other(r)] = <<>> /\ UNCHANGED pc
<1>1. rq \in [Peers -> Nat] /\ StateOK /\ rq[r] \in Nat /\ qp \in [Peers -> QpStates]
  BY DEF CreditInv, StateOK
<1>2. ASSUME NEW p \in Peers, NicMove(p)
      PROVE  \/ rq'[r] >= rq[r] \/ (pc[r] = "destroy" /\ qp'[r] = "destroyed" /\ pc'[r] = "close")
             \/ sq[Other(r)] # <<>> /\ sq'[Other(r)] = <<>> /\ UNCHANGED pc
  <2>1. CASE Adapter(p)
    <3>1. CASE Execute(p)
      <4>1. /\ sq[p] # <<>> /\ sq' = [sq EXCEPT ![p] = Tail(@)] /\ pc' = pc
            /\ \A x \in Peers : x # Other(p) => rq'[x] = rq[x]
        BY <1>1, <3>1, OtherPeer DEF Execute, prog
      <4>2. (Other(r) = p /\ sq[Other(r)] # <<>>) \/ rq'[r] = rq[r]
        BY <4>1, TwoPeers
      <4>3. sq'[p] = Tail(sq[p]) /\ Tail(sq[p]) = <<>>
        BY <4>1, CreditFacts, QueueTypes
      <4>4. CASE rq'[r] = rq[r]
        BY <1>1, <4>4
      <4>5. CASE Other(r) = p
        BY <4>1, <4>3, <4>5
      <4> QED  BY <4>2, <4>4, <4>5
    <3>2. CASE ~ Execute(p)
      BY <1>1, <2>1, <3>2 DEF Adapter, RetryExceeded, DeliverCompletion
    <3> QED  BY <3>1, <3>2
  <2>2. CASE DestroyVerbs(p)
    BY <1>1, <2>2, GoneTo DEF DestroyVerbs
  <2>3. CASE ~ Adapter(p) /\ ~ DestroyVerbs(p)
    BY <1>1, <1>2, <2>3 DEF NicMove, PostReceive, PostAnySend, PostSend, PollCompletion
  <2> QED  BY <2>1, <2>2, <2>3
<1> QED  BY <1>1, <1>2, NicSteps DEF nic

\* Where a program goes, and what must be so.
Go(p) ==
  \/ pc[p] \in {"start", "accept"} /\ pc'[p] \in {"accept", "create"}
  \/ pc[p] = "create" /\ pc'[p] = "con_write"
  \/ pc[p] = "con_write" /\ pc'[p] = "init"
  \/ /\ pc[p] \in Body /\ pc'[p] = Follow(p, pc[p])
     /\ pc[p] \in ReadSteps => chan[p] # <<>>
     /\ pc[p] \in PollSteps => cq[p] # <<>> /\ Head(cq[p]).ok
     /\ pc[p] = "post_rr" => rq'[p] > 0
  \/ /\ pc'[p] \in Ended
     /\ pc[p] \in ReadSteps \cup (WriteSteps \ {"con_write"}) => pc[Other(p)] = "done"
     /\ pc[p] \notin {"accept", "got_msg", "fill", "put"}

\* It goes alone.
Alone(p) == \A r \in Peers : r # p => /\ pc'[r] = pc[r] /\ qp'[r] = qp[r] /\ rq'[r] = rq[r]
                                      /\ sq'[r] = sq[r] /\ cq'[r] = cq[r] /\ pend'[r] = pend[r]
                                      /\ remote'[r] = remote[r] /\ rc'[r] = rc[r]

LEMMA Going1 ==
  ASSUME StateOK, NEW p \in Peers, NEW to, Goto(p, to), UNCHANGED <<nic, rc, remote>>
  PROVE  pc'[p] = to /\ Alone(p)
BY GoneTo DEF Alone, nic

\* How each program counter may move, and what must have happened for it.
LEMMA PcMoves ==
  ASSUME PlaceInv, [Next]_vars
  PROVE  UNCHANGED pc \/ \E p \in Peers : Go(p) /\ Alone(p)
<1>0. /\ StateOK /\ {"destroy", "close", "done"} \subseteq Ended
      /\ pc[Server] \in ServerCalls /\ pc[Client] \in ClientCalls
  BY DEF PlaceInv, CreditInv, Ended
<1>1. CASE UNCHANGED vars
  BY <1>1 DEF vars, prog
<1>2. CASE Establish
  <2>1. ASSUME NEW p \in Peers, NEW to \in {"accept", "create"}, Goto(p, to),
               pc[p] \in {"start", "accept"}, UNCHANGED <<nic, rc, remote>>
        PROVE  Go(p) /\ Alone(p)
    BY <1>0, <2>1, Going1 DEF Go
  <2> QED  BY <1>2, <2>1, TwoPeers DEF Establish, Listen, Connect, Accept
<1>3. CASE ConnectRefused
  <2>1. Goto(Client, "done") /\ UNCHANGED <<nic, rc, remote>> /\ pc[Client] = "start"
    BY <1>3 DEF ConnectRefused
  <2>2. Go(Client) /\ Alone(Client)
    BY <1>0, <2>1, Going1, TwoPeers DEF Go, ReadSteps, WriteSteps
  <2> QED  BY <2>2, TwoPeers
<1>4. ASSUME NEW p \in Peers, Program(p) \/ Failure(p) \/ Adapter(p)
      PROVE  UNCHANGED pc \/ (Go(p) /\ Alone(p))
  <2>0. Place(p) /\ (peerEnd[p] # "up" => pc[Other(p)] = "done")
    BY DEF PlaceInv, Place
  <2>1. CASE Sync(p)
    <3>1. CASE SyncWrite(p)
      <4>1. /\ pc[p] \in WriteSteps /\ UNCHANGED <<nic, rc, remote>>
            /\ IF peerEnd[p] \in {"up", "fin"} THEN Continue(p) ELSE Goto(p, "destroy")
        BY <3>1 DEF SyncWrite
      <4>2. pc[p] \in Body /\ pc[p] \notin ReadSteps \cup PollSteps \cup {"post_rr", "accept", "got_msg", "fill", "put"}
        BY <4>1, StepNames DEF WriteSteps, ReadSteps, PollSteps
      <4>3. Alone(p) /\ (pc'[p] = Follow(p, pc[p]) \/ (pc'[p] = "destroy" /\ peerEnd[p] # "up"))
        BY <1>0, <4>1, Going1 DEF Continue
      <4> QED  BY <1>0, <2>0, <4>1, <4>2, <4>3 DEF Go
    <3>2. CASE ShortWrite(p)
      <4>1. Goto(p, "init") /\ UNCHANGED <<nic, rc, remote>> /\ pc[p] = "con_write"
        BY <3>2 DEF ShortWrite
      <4> QED  BY <1>0, <4>1, Going1 DEF Go
    <3>3. CASE SyncRead(p)
      <4>1. /\ pc[p] \in ReadSteps /\ UNCHANGED <<nic, rc>> /\ chan[p] # <<>>
            /\ \A r \in Peers : r # p => remote'[r] = remote[r]
            /\ Continue(p) \/ UNCHANGED pc
        <5>1. PICK n \in 1..XferSize(pc[p]) :
                /\ pc[p] \in ReadSteps /\ UNCHANGED <<nic, rc>> /\ n <= Len(chan[p])
                /\ \A r \in Peers : r # p => remote'[r] = remote[r]
                /\ Continue(p) \/ UNCHANGED pc
          BY <1>0, <3>3 DEF SyncRead, StateOK
        <5>2. chan[p] # <<>>
          BY <5>1, ConLength DEF XferSize
        <5> QED  BY <5>1, <5>2
      <4>2. pc[p] \in Body /\ pc[p] \notin PollSteps \cup {"post_rr"}
        BY <4>1, StepNames DEF ReadSteps, PollSteps
      <4>3. CASE Continue(p)
        <5>1. pc'[p] = Follow(p, pc[p]) /\ \A r \in Peers : r # p => pc'[r] = pc[r]
          BY <1>0, <4>3, GoneTo DEF Continue
        <5> QED  BY <4>1, <4>2, <5>1 DEF Go, Alone, nic
      <4> QED  BY <4>1, <4>3
    <3>4. CASE SyncReadFails(p)
      <4>1. Goto(p, "destroy") /\ UNCHANGED <<nic, rc, remote>> /\ pc[p] \in ReadSteps /\ peerEnd[p] # "up"
        BY <3>4 DEF SyncReadFails
      <4>2. pc'[p] = "destroy" /\ Alone(p)
        BY <1>0, <4>1, Going1
      <4> QED  BY <1>0, <2>0, <4>1, <4>2 DEF Go, ReadSteps
    <3>5. CASE SyncSpin(p)
      BY <3>5 DEF SyncSpin, vars, prog
    <3> QED  BY <2>1, <3>1, <3>2, <3>3, <3>4, <3>5 DEF Sync
  <2>2. CASE Verbs(p)
    <3>1. CASE PollTimeout(p)
      <4>1. Goto(p, "destroy") /\ UNCHANGED <<nic, rc, remote>> /\ pc[p] \in PollSteps
        BY <3>1 DEF PollTimeout
      <4>2. pc'[p] = "destroy" /\ Alone(p)
        BY <1>0, <4>1, Going1
      <4> QED  BY <1>0, <4>1, <4>2 DEF Go, ReadSteps, WriteSteps, PollSteps
    <3>2. CASE ~ PollTimeout(p)
      <4>1. /\ pc[p] \in VerbsSteps \ WriteSteps /\ UNCHANGED <<rc, remote>>
            /\ Continue(p) \/ (pc[p] \in PollSteps /\ Goto(p, "destroy"))
            /\ \A r \in Peers : r # p => /\ qp'[r] = qp[r] /\ rq'[r] = rq[r] /\ sq'[r] = sq[r]
                                         /\ cq'[r] = cq[r] /\ pend'[r] = pend[r]
        BY <1>0, <2>2, <3>2 DEF Verbs, ModifyQpToInit, ModifyQpToRtr, ModifyQpToRts, ModifyQp, PostReceive,
             PostAnySend, PostSend, PollCompletion, VerbsSteps, PollSteps, WriteSteps, StateOK
      <4>2. /\ pc[p] = "post_rr" => rq'[p] > 0
            /\ pc[p] \in PollSteps /\ ~ Goto(p, "destroy") => cq[p] # <<>> /\ Head(cq[p]).ok
        <5>1. pc[p] = "post_rr" => PostReceive(p)
          BY <2>2, <3>2 DEF Verbs, ModifyQpToInit, ModifyQpToRtr, ModifyQpToRts, ModifyQp,
               PostAnySend, PostSend, PollCompletion, PollSteps
        <5>2. pc[p] \in PollSteps => PollCompletion(p)
          BY <2>2, <3>2 DEF Verbs, ModifyQpToInit, ModifyQpToRtr, ModifyQpToRts, ModifyQp, PostReceive,
               PostAnySend, PostSend, PollSteps
        <5>3. rq[p] \in Nat /\ (PostReceive(p) => rq'[p] = rq[p] + 1)
          BY <1>0 DEF PostReceive, StateOK
        <5> QED  BY <5>1, <5>2, <5>3 DEF PollCompletion
      <4>3. pc[p] \in Body /\ pc[p] \notin ReadSteps \cup WriteSteps \cup {"accept", "got_msg", "fill", "put"}
        BY <4>1, StepNames DEF VerbsSteps, PollSteps, ReadSteps, WriteSteps
      <4>4. Alone(p) /\ (Continue(p) => pc'[p] = Follow(p, pc[p])) /\ (Goto(p, "destroy") => pc'[p] = "destroy")
        BY <1>0, <4>1, GoneTo DEF Continue, Alone
      <4> QED  BY <1>0, <4>1, <4>2, <4>3, <4>4 DEF Go
    <3> QED  BY <3>1, <3>2
  <2>3. CASE Buffer(p)
    <3>1. /\ pc[p] \in {"got_msg", "fill", "put", "report"} /\ Continue(p)
          /\ UNCHANGED <<remote, nic>> /\ \A r \in Peers : r # p => rc'[r] = rc[r]
      BY <1>0, <2>3 DEF Buffer, PrintMessage, SetupReadMessage, ReplaceContents, Report, StateOK
    <3>2. pc[p] \in Body /\ pc[p] \notin ReadSteps \cup PollSteps \cup {"post_rr"}
      BY <3>1, StepNames DEF PollSteps, ReadSteps
    <3>3. pc'[p] = Follow(p, pc[p]) /\ Alone(p)
      BY <1>0, <3>1, GoneTo DEF Continue, Alone, nic
    <3> QED  BY <3>2, <3>3 DEF Go
  <2>4. CASE ResourcesCreate(p)
    <3>1. /\ pc[p] = "create" /\ Goto(p, "con_write") /\ UNCHANGED <<rc, remote, rq, sq, pend, cq>>
          /\ \A r \in Peers : r # p => qp'[r] = qp[r]
      BY <1>0, <2>4 DEF ResourcesCreate, StateOK
    <3> QED  BY <1>0, <3>1, GoneTo DEF Go, Alone
  <2>5. CASE CloseAndReturn(p) \/ ResourcesCreateFails(p) \/ VerbsError(p)
    <3>1. /\ pc[p] \in {"close", "create"} \cup VerbsSteps
          /\ Goto(p, "done") \/ Goto(p, "destroy")
          /\ UNCHANGED <<nic, rc, remote>>
      BY <2>5 DEF CloseAndReturn, ResourcesCreateFails, VerbsError
    <3>2. pc'[p] \in Ended /\ Alone(p)
      BY <1>0, <3>1, Going1
    <3> QED  BY <1>0, <3>1, <3>2 DEF Go, ReadSteps, WriteSteps, VerbsSteps, PollSteps
  <2>6. CASE DestroyVerbs(p)
    <3>1. /\ pc[p] = "destroy" /\ Goto(p, "close") /\ UNCHANGED remote
          /\ \A r \in Peers : r # p => /\ qp'[r] = qp[r] /\ rq'[r] = rq[r] /\ sq'[r] = sq[r]
                                       /\ cq'[r] = cq[r] /\ pend'[r] = pend[r] /\ rc'[r] = rc[r]
      BY <1>0, <2>6 DEF DestroyVerbs, StateOK
    <3> QED  BY <1>0, <3>1, GoneTo DEF Go, Alone, ReadSteps, WriteSteps
  <2>7. CASE Adapter(p)
    BY <2>7, AdapterEffect DEF PlaceInv
  <2> QED  BY <1>4, <2>1, <2>2, <2>3, <2>4, <2>5, <2>6, <2>7 DEF Program, Failure, Lifetime
<1> QED  BY <1>1, <1>2, <1>3, <1>4 DEF Next, Finished

\* Where new completions come from.
Lands(p) == sq[p] # <<>> /\ Knows(p) /\ qp[Other(p)] \in {"RTR", "RTS"}

\* Where a completion comes from: a request flushed or failed, or one that
\* reached the queue pair its poster knows.
LEMMA CompletedMoves ==
  ASSUME CreditInv, [Next]_vars, NEW r \in Peers, NEW c \in Completed(r)'
  PROVE  \/ c \in Completed(r)
         \/ /\ sq[r] # <<>> /\ c.op = Head(sq[r])
            /\ c.ok => Lands(r) /\ Knows(Other(r)) /\ Execute(r) /\ buf' = Transfer(r, c.op)
            /\ UNCHANGED <<pc, remote, chan, peerEnd, total>>
         \/ /\ Lands(Other(r)) /\ sq'[Other(r)] = <<>>
            /\ c.op = "RECV" /\ Head(sq[Other(r)]) = "SEND"
            /\ Execute(Other(r)) /\ buf' = Transfer(Other(r), "SEND")
            /\ UNCHANGED <<pc, remote, chan, peerEnd, total>>
<1> DEFINE Claim ==
         \/ c \in Completed(r)
         \/ /\ sq[r] # <<>> /\ c.op = Head(sq[r])
            /\ c.ok => Lands(r) /\ Knows(Other(r)) /\ Execute(r) /\ buf' = Transfer(r, c.op)
            /\ UNCHANGED <<pc, remote, chan, peerEnd, total>>
         \/ /\ Lands(Other(r)) /\ sq'[Other(r)] = <<>>
            /\ c.op = "RECV" /\ Head(sq[Other(r)]) = "SEND"
            /\ Execute(Other(r)) /\ buf' = Transfer(Other(r), "SEND")
            /\ UNCHANGED <<pc, remote, chan, peerEnd, total>>
<1>0. /\ StateOK /\ pend[r] \in Seq(CQE) /\ cq[r] \in Seq(CQE)
      /\ cq \in [Peers -> Seq(CQE)] /\ pend \in [Peers -> Seq(CQE)] /\ sq \in [Peers -> Seq(Ops)]
  BY QueueTypes DEF CreditInv
<1>1. UNCHANGED <<cq, pend>> => Claim
  BY DEF Completed
<1>2. ASSUME NEW p \in Peers, NicMove(p) PROVE Claim
  <2>1. CASE PollCompletion(p)
    <3>1. pend'[r] = pend[r] /\ (cq'[r] = cq[r] \/ (cq[r] # <<>> /\ cq'[r] = Tail(cq[r])))
      BY <1>0, <2>1 DEF PollCompletion
    <3>2. \A k \in 1..Len(cq'[r]) : \E j \in 1..Len(cq[r]) : cq'[r][k] = cq[r][j]
      <4>1. CASE cq'[r] = cq[r]
        BY <4>1
      <4>2. CASE cq[r] # <<>> /\ cq'[r] = Tail(cq[r])
        <5>1. \A k \in 1..Len(Tail(cq[r])) : k + 1 \in 1..Len(cq[r]) /\ Tail(cq[r])[k] = cq[r][k + 1]
          BY <1>0, <4>2
        <5> QED  BY <4>2, <5>1
      <4> QED  BY <3>1, <4>1, <4>2
    <3>3. c \in Completed(r)
      BY <3>1, <3>2 DEF Completed
    <3> QED  BY <3>3
  <2>2. CASE DestroyVerbs(p)
    <3>1. (pend'[r] = pend[r] /\ cq'[r] = cq[r]) \/ (pend'[r] = <<>> /\ cq'[r] = <<>>)
      BY <1>0, <2>2 DEF DestroyVerbs
    <3>2. c \in Completed(r)
      <4>1. CASE pend'[r] = pend[r] /\ cq'[r] = cq[r]
        BY <4>1 DEF Completed
      <4>2. CASE pend'[r] = <<>> /\ cq'[r] = <<>>
        <5>1. Completed(r)' = {}
          BY <4>2 DEF Completed
        <5> QED  BY <5>1
      <4> QED  BY <3>1, <4>1, <4>2
    <3> QED  BY <3>2
  <2>3. CASE DeliverCompletion(p)
    <3>1. \/ pend'[r] = pend[r] /\ cq'[r] = cq[r]
          \/ pend[r] # <<>> /\ pend'[r] = Tail(pend[r]) /\ cq'[r] = Append(cq[r], Head(pend[r]))
      BY <1>0, <2>3 DEF DeliverCompletion
    <3>2. CASE pend'[r] = pend[r] /\ cq'[r] = cq[r]
      BY <3>2 DEF Completed
    <3>3. CASE pend[r] # <<>> /\ pend'[r] = Tail(pend[r]) /\ cq'[r] = Append(cq[r], Head(pend[r]))
      <4>1. \A k \in 1..Len(Tail(pend[r])) : k + 1 \in 1..Len(pend[r]) /\ Tail(pend[r])[k] = pend[r][k + 1]
        BY <1>0, <3>3
      <4>2. \A k \in 1..Len(pend'[r]) : \E j \in 1..Len(pend[r]) : pend'[r][k] = pend[r][j]
        BY <3>3, <4>1
      <4>3. Head(pend[r]) = pend[r][1] /\ 1 \in 1..Len(pend[r])
        BY <1>0, <3>3
      <4>4. \A k \in 1..Len(cq'[r]) : \/ \E j \in 1..Len(cq[r]) : cq'[r][k] = cq[r][j]
                                      \/ cq'[r][k] = pend[r][1]
        BY <1>0, <3>3, <4>3
      <4>5. c \in Completed(r)
        <5>1. CASE \E k \in 1..Len(pend'[r]) : c = pend'[r][k]
          BY <4>2, <5>1 DEF Completed
        <5>2. CASE \E k \in 1..Len(cq'[r]) : c = cq'[r][k]
          BY <4>3, <4>4, <5>2 DEF Completed
        <5> QED  BY <5>1, <5>2 DEF Completed
      <4> QED  BY <4>5
    <3> QED  BY <3>1, <3>2, <3>3
  <2>4. ASSUME NEW new, cq' = cq, pend'[r] = Append(pend[r], new)
        PROVE  c \in Completed(r) \/ c = new
    <3>1. \A k \in 1..Len(pend'[r]) : pend'[r][k] = new \/ \E j \in 1..Len(pend[r]) : pend'[r][k] = pend[r][j]
      BY <1>0, <2>4
    <3> QED  BY <2>4, <3>1 DEF Completed
  <2>5. CASE RetryExceeded(p)
    <3>1. /\ UNCHANGED <<pc, remote, chan, peerEnd, total, cq>> /\ sq[p] # <<>>
          /\ pend' = [pend EXCEPT ![p] = Append(@, [op |-> Head(sq[p]), ok |-> FALSE])]
      BY <2>5 DEF RetryExceeded, prog, tcp
    <3>2. CASE r = p
      <4>1. c \in Completed(r) \/ c = [op |-> Head(sq[p]), ok |-> FALSE]
        BY <1>0, <2>4, <3>1, <3>2
      <4> QED  BY <3>1, <3>2, <4>1
    <3>3. CASE r # p
      <4>1. pend'[r] = pend[r]
        BY <1>0, <3>1, <3>3
      <4> QED  BY <3>1, <4>1 DEF Completed
    <3> QED  BY <3>2, <3>3
  <2>6. CASE Execute(p)
    <3> DEFINE q == Other(p)
               op == Head(sq[p])
               ok == Granted(p, op)
               received == IF ok /\ op = "SEND"
                             THEN <<[op |-> "RECV", ok |-> TRUE]>> ELSE <<>>
    <3>1. PICK heard \in BOOLEAN :
            /\ UNCHANGED <<pc, remote, chan, peerEnd, total, cq>> /\ sq[p] # <<>> /\ CanLand(p)
            /\ sq' = [sq EXCEPT ![p] = Tail(@)]
            /\ buf' = IF ok /\ ((ok /\ heard /\ Reaches(q, p)) \/ op # "READ") THEN Transfer(p, op) ELSE buf
            /\ pend' = [pend EXCEPT ![p] = Append(pend[p], [op |-> op, ok |-> ok /\ heard /\ Reaches(q, p)]),
                                    ![q] = @ \o received]
      BY <2>6 DEF Execute, prog, tcp
    <3>2. q \in Peers /\ q # p /\ Other(q) = p /\ (r = p \/ r = q)
      BY TwoPeers
    <3>3. \A x \in Peers : Reaches(x, Other(x)) <=> Knows(x)
      BY ConLength DEF Reaches, Knows, Last, ConData
    <3>4. Lands(p) /\ sq'[p] = <<>>
      <4>1. sq'[p] = Tail(sq[p]) /\ Tail(sq[p]) = <<>>
        BY <1>0, <3>1, CreditFacts
      <4> QED  BY <3>1, <3>3, <4>1 DEF CanLand, Lands
    <3>5. CASE r = p
      <4>1. pend'[r] = Append(pend[r], [op |-> op, ok |-> ok /\ heard /\ Reaches(q, p)])
        BY <1>0, <3>1, <3>2, <3>5
      <4>2. c \in Completed(r) \/ c = [op |-> op, ok |-> ok /\ heard /\ Reaches(q, p)]
        BY <2>4, <3>1, <4>1
      <4>3. ASSUME c = [op |-> op, ok |-> ok /\ heard /\ Reaches(q, p)]
            PROVE  c.op = op /\ (c.ok => Reaches(q, p) /\ buf' = Transfer(p, op))
        BY <3>1, <4>3
      <4>4. Reaches(q, p) => Knows(q)
        BY <3>2, <3>3
      <4> HIDE DEF ok
      <4> QED  BY <2>6, <3>1, <3>4, <3>5, <4>2, <4>3, <4>4
    <3>6. CASE r = q
      <4>1. pend'[r] = pend[r] \o received
        BY <1>0, <3>1, <3>2, <3>6
      <4>2. CASE ok /\ op = "SEND"
        <5>1. pend'[r] = Append(pend[r], [op |-> "RECV", ok |-> TRUE])
          BY <1>0, <4>1, <4>2
        <5>2. c \in Completed(r) \/ c = [op |-> "RECV", ok |-> TRUE]
          BY <2>4, <3>1, <5>1
        <5>3. buf' = Transfer(p, "SEND")
          BY <3>1, <4>2
        <5> QED  BY <2>6, <3>1, <3>2, <3>4, <3>6, <4>2, <5>2, <5>3
      <4>3. CASE ~ (ok /\ op = "SEND")
        <5>1. pend'[r] = pend[r]
          BY <1>0, <4>1, <4>3
        <5> QED  BY <3>1, <5>1 DEF Completed
      <4> QED  BY <4>2, <4>3
    <3> QED  BY <3>2, <3>5, <3>6
  <2>7. CASE ~ PollCompletion(p) /\ ~ DestroyVerbs(p) /\ ~ Adapter(p)
    BY <1>1, <1>2, <2>7 DEF NicMove, PostReceive, PostAnySend, PostSend
  <2> QED  BY <2>1, <2>2, <2>3, <2>5, <2>6, <2>7 DEF Adapter
<1> QED  BY <1>1, <1>2, NicSteps DEF nic

\* The addresses a program knows stay.
LEMMA RemoteMoves ==
  ASSUME PlaceInv, [Next]_vars, NEW r \in Peers
  PROVE  /\ Knows(r) => Knows(r)'
         /\ pc[r] # "con_read" => (Knows(r)' <=> Knows(r))
<1>1. PICK p \in Peers : \/ Idle(p) \/ Stop(p) \/ (SyncWrite(p) /\ Continue(p))
                         \/ ShortWrite(p) \/ SyncRead(p)
  BY Moves
<1>2. StateOK /\ \A x \in Peers : pc[x] = "con_read" => ~ Knows(x)
  BY DEF PlaceInv, CreditInv, Place
<1>3. CASE ~ SyncRead(p)
  BY <1>1, <1>3 DEF Idle, Stop, SyncWrite, ShortWrite, Knows
<1>4. CASE SyncRead(p)
  <2>1. \A x \in Peers : pc[x] # "con_read" => remote'[x] = remote[x]
    BY <1>2, <1>4 DEF SyncRead, StateOK
  <2> QED  BY <1>2, <2>1 DEF Knows
<1> QED  BY <1>3, <1>4

\* An end of the connection changes when the other side closes, or when p
\* writes to it afterwards.
LEMMA PeerEndMoves ==
  ASSUME StateOK, [Next]_vars, NEW r \in Peers, peerEnd'[r] = "finrst"
  PROVE  peerEnd[r] = "finrst" \/ (SyncWrite(r) /\ Continue(r) /\ peerEnd[r] = "fin")
<1>1. peerEnd \in [Peers -> {"up", "fin", "finrst", "rst"}]
  BY DEF StateOK
<1>2. CASE UNCHANGED peerEnd
  BY <1>2
<1>3. ASSUME NEW p \in Peers, CloseAndReturn(p) \/ ResourcesCreateFails(p)
      PROVE  peerEnd[r] = "finrst"
  BY <1>1, <1>3, OtherPeer DEF CloseAndReturn, ResourcesCreateFails, CloseSocket
<1>4. ASSUME NEW p \in Peers, SyncWrite(p)
      PROVE  peerEnd[r] = "finrst" \/ (SyncWrite(r) /\ Continue(r) /\ peerEnd[r] = "fin")
  BY <1>1, <1>4 DEF SyncWrite
<1>5. ASSUME NEW p \in Peers, Program(p) \/ Failure(p) \/ Adapter(p)
      PROVE  UNCHANGED peerEnd \/ SyncWrite(p) \/ CloseAndReturn(p) \/ ResourcesCreateFails(p)
  <2>1. Sync(p) => UNCHANGED peerEnd \/ SyncWrite(p)
    BY DEF Sync, ShortWrite, SyncRead, SyncReadFails, SyncSpin, vars, tcp
  <2>2. Verbs(p) => UNCHANGED peerEnd
    BY DEF Verbs, ModifyQpToInit, ModifyQpToRtr, ModifyQpToRts, ModifyQp, PostReceive, PostAnySend,
       PostSend, PollCompletion, PollTimeout, tcp
  <2>3. Buffer(p) => UNCHANGED peerEnd
    BY DEF Buffer, PrintMessage, SetupReadMessage, ReplaceContents, Report, tcp
  <2>4. Lifetime(p) \/ Failure(p) \/ Adapter(p) => UNCHANGED peerEnd \/ CloseAndReturn(p) \/ ResourcesCreateFails(p)
    BY DEF Lifetime, ResourcesCreate, DestroyVerbs, Failure, VerbsError, Adapter, Execute, RetryExceeded,
       DeliverCompletion, tcp
  <2> QED  BY <1>5, <2>1, <2>2, <2>3, <2>4 DEF Program
<1>6. Establish \/ ConnectRefused \/ UNCHANGED vars => UNCHANGED peerEnd
  BY DEF Establish, Listen, Connect, Accept, ConnectRefused, vars, tcp
<1> QED  BY <1>2, <1>3, <1>4, <1>5, <1>6 DEF Next, Finished

LEMMA RcMoves ==
  ASSUME StateOK, [Next]_vars, NEW r \in Peers, rc'[r] = 0
  PROVE  rc[r] = 0 \/ (pc[r] = "report" /\ pc'[r] = "destroy" /\ UNCHANGED <<chan, remote>>
                       /\ \A x \in Peers : x # r => pc'[x] = pc[x])
<1>1. rc \in [Peers -> {0, 1}]
  BY DEF StateOK
<1>2. CASE UNCHANGED rc
  BY <1>2
<1>3. ASSUME NEW p \in Peers, DestroyVerbs(p) PROVE rc[r] = 0
  BY <1>1, <1>3 DEF DestroyVerbs
<1>4. ASSUME NEW p \in Peers, Report(p)
      PROVE  rc[r] = 0 \/ (pc[r] = "report" /\ pc'[r] = "destroy" /\ UNCHANGED <<chan, remote>>
                           /\ \A x \in Peers : x # r => pc'[x] = pc[x])
  <2>1. r # p => rc'[r] = rc[r]
    BY <1>1, <1>4 DEF Report
  <2>2. pc[p] = "report" /\ Goto(p, Follow(p, pc[p])) /\ UNCHANGED <<chan, remote>>
    BY <1>4 DEF Report, Continue, tcp
  <2>3. Follow(p, "report") = "destroy"
    BY DEF Follow, Main, ConnectSteps
  <2> QED  BY <2>1, <2>2, <2>3, GoneTo
<1>5. ASSUME NEW p \in Peers, Program(p) \/ Failure(p) \/ Adapter(p)
      PROVE  UNCHANGED rc \/ DestroyVerbs(p) \/ Report(p)
  <2>1. Sync(p) => UNCHANGED rc
    BY DEF Sync, SyncWrite, ShortWrite, SyncRead, SyncReadFails, SyncSpin, vars, prog
  <2>2. Verbs(p) => UNCHANGED rc
    BY DEF Verbs, ModifyQpToInit, ModifyQpToRtr, ModifyQpToRts, ModifyQp, PostReceive, PostAnySend,
       PostSend, PollCompletion, PollTimeout
  <2>3. Buffer(p) => UNCHANGED rc \/ Report(p)
    BY DEF Buffer, PrintMessage, SetupReadMessage, ReplaceContents
  <2>4. Lifetime(p) \/ Failure(p) \/ Adapter(p) => UNCHANGED rc \/ DestroyVerbs(p)
    BY DEF Lifetime, ResourcesCreate, CloseAndReturn, Failure, ResourcesCreateFails, VerbsError, Adapter,
       Execute, RetryExceeded, DeliverCompletion, prog
  <2> QED  BY <1>5, <2>1, <2>2, <2>3, <2>4 DEF Program
<1>6. Establish \/ ConnectRefused \/ UNCHANGED vars => UNCHANGED rc
  BY DEF Establish, Listen, Connect, Accept, ConnectRefused, vars, prog
<1> QED  BY <1>2, <1>3, <1>4, <1>5, <1>6 DEF Next, Finished

-----------------------------------------------------------------------------
(* A side's count grows only when the other one writes, and shrinks only   *)
(* when it does not know what it reads.                                    *)
LEMMA CountsNext ==
  ASSUME StateOK, [Next]_vars, NEW p \in Peers
  PROVE  Has(p)' \in Nat /\ Taken(p)' \in Nat /\ Sent(p)' \in Nat /\ rq'[p] \in Nat
<1>1. chan'[p] \in Seq(Bytes) /\ total'[p] \in 0..1 /\ rq'[p] \in Nat
  BY NextStateOK DEF StateOK
<1>2. Taken(p)' \in Nat /\ Sent(p)' \in Nat
  BY <1>1, ConLength DEF Taken, Sent
<1> QED  BY <1>1, <1>2 DEF Has

\* How Has moves, by the steps of either side.
LEMMA Flow ==
  ASSUME StreamInv, [Next]_vars, NEW r \in Peers
  PROVE  /\ Going(r)' /\ Straight(r)' =>
              \/ Going(r) /\ Straight(r) /\ Has(r)' <= Has(r)
              \/ Has(r)' <= ConLen
              \/ SyncWrite(Other(r)) /\ Continue(Other(r))
         /\ Going(r)' /\ Knows(r) => Going(r) /\ Has(r)' >= Has(r)
<1> DEFINE q == Other(r)
           Shrinks == Going(r)' /\ Straight(r)' => Going(r) /\ Straight(r) /\ Has(r)' <= Has(r)
           Grows == Going(r)' /\ Knows(r) => Going(r) /\ Has(r)' >= Has(r)
<1>1. /\ StateOK /\ Place(r) /\ Place(q) /\ Stream(r) /\ q \in Peers /\ q # r /\ Other(q) = r
      /\ Has(r) \in Nat /\ Len(chan[r]) \in Nat /\ Taken(r) \in Nat
  BY TwoPeers, Counts DEF StreamInv, PlaceInv, CreditInv
<1>2. Has(r)' \in Nat
  BY <1>1, CountsNext
<1>3. PICK p \in Peers : \/ Idle(p) \/ Stop(p) \/ (SyncWrite(p) /\ Continue(p))
                         \/ ShortWrite(p) \/ SyncRead(p)
  BY Moves DEF StreamInv
<1>4. CASE Idle(p)
  <2>1. \A x \in Peers : /\ Taken(x)' = Taken(x) /\ (Going(x)' <=> Going(x))
                         /\ (pc'[x] \in Early <=> pc[x] \in Early)
                         /\ (pc'[x] = "con_read" <=> pc[x] = "con_read")
    BY <1>4, CountsSame DEF Idle, Going
  <2>2. UNCHANGED <<chan, remote, total>>
    BY <1>4 DEF Idle
  <2>3. Has(r)' = Has(r) /\ (Straight(r)' <=> Straight(r))
    BY <1>1, <2>1, <2>2 DEF Has, Straight, Knows, Whole
  <2> QED  BY <1>1, <2>1, <2>3
<1>5. CASE Stop(p)
  <2>1. CASE p = r
    BY <1>5, <2>1 DEF Stop, Going
  <2>2. CASE p = q
    <3>1. /\ pc'[r] = pc[r] /\ chan'[r] = chan[r] /\ total'[r] = total[r] /\ remote' = remote
          /\ chan'[q] = chan[q] \/ chan'[q] = <<>>
      BY <1>1, <1>5, <2>2 DEF Stop
    <3>2. Has(r)' = Has(r) /\ (Going(r)' <=> Going(r))
      BY <3>1, CountsSame DEF Has
    <3>3. Straight(r)' => Straight(r)
      BY <1>1, <3>1, ConLength DEF Straight, Knows, Whole
    <3> QED  BY <1>1, <3>2, <3>3
  <2> QED  BY <1>1, <2>1, <2>2, TwoPeers
<1>6. CASE SyncWrite(p) /\ Continue(p)
  <2>1. CASE p = r
    BY <1>1, <1>2, <1>6, <2>1, WriteSide
  <2>2. CASE p = q
    <3>1. /\ pc[q] \in WriteSteps /\ pc'[r] = pc[r] /\ total' = total
          /\ IF peerEnd[q] = "up" THEN chan'[r] = chan[r] \o Payload(q, pc[q]) ELSE chan'[r] = chan[r]
      BY <1>1, <1>6, <2>2, Written
    <3>2. Payload(q, pc[q]) \in Seq(Bytes) /\ chan[r] \in Seq(Bytes)
      BY <1>1, <3>1, PayloadType DEF StateOK
    <3>3. Len(chan'[r]) >= Len(chan[r])
      <4>1. Len(chan[r] \o Payload(q, pc[q])) = Len(chan[r]) + Len(Payload(q, pc[q]))
            /\ Len(Payload(q, pc[q])) \in Nat
        BY <3>2
      <4>2. CASE peerEnd[q] = "up"
        <5>1. chan'[r] = chan[r] \o Payload(q, pc[q])
          BY <3>1, <4>2
        <5>2. Len(chan'[r]) = Len(chan[r]) + Len(Payload(q, pc[q]))
          BY <4>1, <5>1
        <5>3. Len(chan[r]) \in Nat
          BY <1>1
        <5>4. \A a \in Nat : \A b \in Nat : a + b >= a
          OBVIOUS
        <5> QED  BY <4>1, <5>2, <5>3, <5>4
      <4>3. CASE peerEnd[q] # "up"
        BY <1>1, <3>1, <4>3
      <4> QED  BY <4>2, <4>3
    <3>4. Taken(r)' = Taken(r) /\ (Going(r)' <=> Going(r))
      BY <3>1, CountsSame
    <3>5. Len(chan'[r]) \in Nat
      BY <3>1, <3>2
    <3> QED  BY <1>1, <1>6, <2>2, <3>3, <3>4, <3>5 DEF Has
  <2> QED  BY <1>1, <2>1, <2>2, TwoPeers
<1>7. CASE ShortWrite(p)
  <2>0. pc[p] = "con_write" /\ Goto(p, "init")
    BY <1>7 DEF ShortWrite
  <2>1. CASE p = r
    <3>1. ~ Straight(r)' /\ ~ Knows(r)
      BY <1>1, <1>7, <2>0, <2>1, ShortStream DEF Place, Early
    <3> QED  BY <3>1
  <2>2. CASE p = q
    <3>1. ~ Knows(r)
      BY <1>1, <2>0, <2>2 DEF Stream, Early
    <3>2. Stream(r)'
      BY <1>7, ShortStream
    <3>3. pc'[q] = "init"
      BY <1>1, <2>0, <2>2, GoneTo
    <3>4. Going(q)' /\ Sent(q)' = ConLen
      BY <3>3 DEF Going, Sent, Ended, Early, Setup
    <3> QED  BY <3>1, <3>2, <3>4 DEF Stream
  <2> QED  BY <1>1, <2>1, <2>2, TwoPeers
<1>8. CASE SyncRead(p)
  <2>1. CASE p = r
    <3>1. /\ Going(r) /\ Has(r)' <= Has(r) /\ (Straight(r)' => Straight(r))
          /\ (Knows(r)' => Has(r)' = Has(r))
      BY <1>8, <2>1, ReadSide
    <3>2. Knows(r) => Knows(r)'
      BY RemoteMoves DEF StreamInv
    <3> QED  BY <1>1, <3>1, <3>2
  <2>2. CASE p = q
    <3>1. Has(r)' = Has(r) /\ (Going(r)' <=> Going(r)) /\ (Straight(r)' => Straight(r))
      BY <1>1, <1>8, <2>2, ReadSide
    <3> QED  BY <1>1, <3>1
  <2> QED  BY <1>1, <2>1, <2>2, TwoPeers
<1> QED  BY <1>3, <1>4, <1>5, <1>6, <1>7, <1>8

-----------------------------------------------------------------------------
(* Silent, First, Ready and Third.                                         *)

LEMMA OwnMove ==
  ASSUME PlaceInv, [Next]_vars, NEW r \in Peers PROVE pc'[r] = pc[r] \/ (Go(r) /\ Alone(r))
BY PcMoves DEF Alone

\* There is no way back.
LEMMA Forward ==
  ASSUME PlaceInv, [Next]_vars, NEW r \in Peers
  PROVE  /\ pc'[r] \in Early => pc[r] \in Early
         /\ pc'[r] \in Setup => pc[r] \in Setup
         /\ pc'[r] \in ToPost => pc[r] \in ToPost
         /\ pc[r] \in Ended => pc'[r] \in Ended
<1>1. pc'[r] = pc[r] \/ Go(r)
  BY OwnMove
<1>2. CASE pc'[r] = pc[r]
  BY <1>2
<1>3. CASE pc[r] \in Body /\ pc'[r] = Follow(r, pc[r])
  <2>1. pc'[r] \in ToPost => pc[r] \in ToPost
    BY <1>3 DEF Body, Follow, ConnectQp, Main, ConnectSteps, MainSteps, ToPost, Setup, Early
  <2> QED  BY <1>3, <2>1, FollowFacts, Named
<1>4. CASE pc'[r] \in Ended
  BY <1>4, Named DEF Early, Setup, ToPost, Ended
<1>5. CASE ~ (pc[r] \in Body /\ pc'[r] = Follow(r, pc[r])) /\ pc'[r] \notin Ended /\ Go(r)
  BY <1>5 DEF Go, Early, Setup, ToPost, Ended
<1> QED  BY <1>1, <1>2, <1>3, <1>4, <1>5

\* Every part of SyncInv is kept by every step: one lemma for each.
LEMMA SilentNext ==
  ASSUME StreamInv, [Next]_vars, NEW p \in Peers, Silent(p) PROVE Silent(p)'
<1> DEFINE q == Other(p)
<1> SUFFICES ASSUME pc'[p] \in Early
             PROVE  /\ pc'[q] \in Setup \cup {"q_read"} \cup Ended
                    /\ pc'[q] \in (Setup \ {"con_read"}) \cup Ended => Len(chan'[p]) < ConLen
  BY DEF Silent
<1>1. /\ PlaceInv /\ StateOK /\ Stream(p) /\ Stream(q) /\ Place(q)
      /\ q \in Peers /\ q # p /\ Other(q) = p
  BY TwoPeers DEF StreamInv, PlaceInv, CreditInv
<1>2. pc[p] \in Early /\ pc[p] \notin Ended \cup ReadSteps /\ pc'[p] \notin Ended \cup ReadSteps
  BY <1>1, Forward DEF Early, Ended, ReadSteps
<1>3. /\ pc[q] \in Setup \cup {"q_read"} \cup Ended
      /\ pc[q] \in (Setup \ {"con_read"}) \cup Ended => Len(chan[p]) < ConLen
      /\ chan[q] = <<>> /\ pc[p] # "done"
  BY <1>1, <1>2 DEF Silent, Stream, Early
<1>4. \/ pc'[q] = pc[q]
      \/ pc[q] \in {"start", "accept", "create"} /\ pc'[q] \in {"accept", "create", "con_write"}
      \/ pc[q] = "con_write" /\ pc'[q] = "init"
      \/ pc[q] \in Body \ ReadSteps /\ pc'[q] = Follow(q, pc[q])
      \/ pc[q] \notin ReadSteps /\ pc'[q] \in Ended
  BY <1>1, <1>3, OwnMove DEF Go
<1>5. PICK x \in Peers : \/ Idle(x) \/ Stop(x) \/ (SyncWrite(x) /\ Continue(x))
                         \/ ShortWrite(x) \/ SyncRead(x)
  BY <1>1, Moves
<1>6. x = p \/ x = q
  BY <1>1, TwoPeers
<1>7. CASE Idle(x) \/ Stop(x)
  <2>1. chan'[p] = chan[p]
    BY <1>2, <1>5, <1>6, <1>7, <1>1 DEF Idle, Stop
  <2>2. pc[q] = "con_write" /\ pc'[q] = Follow(q, pc[q]) => FALSE
    <3>1. Follow(q, "con_write") = "con_read"
      BY DEF Follow, ConnectSteps, ConnectQp
    <3> QED  BY <1>1, <1>6, <1>7, <3>1 DEF Idle, Stop, Ended
  <2>3. CASE pc[q] \in Body \ ReadSteps /\ pc'[q] = Follow(q, pc[q])
    <3>1. pc[q] \in {"init", "post_rr", "rtr", "rts", "q_write"}
      BY <1>3, <2>2, <2>3 DEF Setup, Early, Ended, Body, ConnectSteps, MainSteps, ReadSteps
    <3>2. pc'[q] \in {"post_rr", "rtr", "rts", "q_write", "q_read"}
      BY <2>3, <3>1 DEF Follow, ConnectQp, ConnectSteps
    <3> QED  BY <1>3, <2>1, <3>1, <3>2 DEF Setup, Early, Ended
  <2> QED  BY <1>3, <1>4, <2>1, <2>3 DEF Setup, Early, Ended, ReadSteps
<1>8. CASE SyncWrite(x) /\ Continue(x)
  <2>1. x = q
    BY <1>2, <1>6, <1>8, WriteSide
  <2>2. pc[q] \in WriteSteps /\ pc'[q] = Follow(q, pc[q])
    BY <1>1, <1>8, <2>1, Written
  <2>3. pc[q] \in {"con_write", "q_write"}
    BY <1>3, <2>2 DEF WriteSteps, Setup, Early, Ended
  <2>4. pc'[q] \in {"con_read", "q_read"}
    BY <2>2, <2>3 DEF Follow, ConnectQp, ConnectSteps
  <2> QED  BY <2>4 DEF Setup, Ended, Early
<1>9. CASE ShortWrite(x)
  <2>1. pc'[x] = "init"
    BY <1>1, <1>9, GoneTo DEF ShortWrite
  <2>2. x = q
    BY <1>2, <1>6, <2>1 DEF Early
  <2>3. Len(chan'[p]) < ConLen
    BY <1>1, <1>9, <2>2, ShortStream
  <2> QED  BY <2>1, <2>2, <2>3 DEF Setup
<1>10. CASE SyncRead(x)
  <2>1. pc[x] \in ReadSteps /\ chan[x] # <<>>
    <3>1. PICK n \in 1..XferSize(pc[x]) : pc[x] \in ReadSteps /\ n <= Len(chan[x])
      BY <1>10 DEF SyncRead
    <3> QED  BY <3>1, ConLength DEF XferSize
  <2> QED  BY <1>2, <1>3, <1>6, <2>1
<1> QED  BY <1>5, <1>7, <1>8, <1>9, <1>10

\* Who has sent more than its connection data.
LEMMA SentMore ==
  ASSUME NEW r \in Peers
  PROVE  /\ Sent(r) > ConLen => pc[r] \notin Setup
         /\ Sent(r) > ConLen + 1 =>
              pc[r] \in {"r_read", "post_read", "poll_read", "put", "post_write", "poll_write",
                         "w_write", "w_read", "report"}
         /\ Sent(r) > ConLen + 2 => pc[r] \in {"w_read", "report"}
BY ConLength DEF Sent, Setup, Early

LEMMA SyncFacts ==
  ASSUME SyncInv, NEW p \in Peers
  PROVE  /\ StreamInv /\ PlaceInv /\ CreditInv /\ StateOK
         /\ Place(p) /\ Place(Other(p)) /\ Stream(p) /\ Stream(Other(p))
         /\ Other(p) \in Peers /\ Other(p) # p /\ Other(Other(p)) = p
         /\ Has(p) \in Nat /\ Sent(p) \in Nat /\ Taken(p) \in Nat /\ Len(chan[p]) \in Nat
         /\ Has(p) >= Taken(p) /\ Sent(Other(p)) \in Nat
<1>1. StateOK /\ StreamInv /\ PlaceInv /\ CreditInv
  BY DEF SyncInv, StreamInv, PlaceInv, CreditInv
<1> QED  BY <1>1, TwoPeers, Counts DEF StreamInv, PlaceInv

LEMMA FirstNext ==
  ASSUME SyncInv, [Next]_vars, NEW p \in Peers PROVE First(p)'
<1> DEFINE q == Other(p)
<1> SUFFICES ASSUME Going(p)', Straight(p)', Has(p)' > ConLen
             PROVE  /\ qp'[q] \in {"RTS", "ERR", "destroyed"}
                    /\ p = Server /\ pc'[p] \in ToPost => rq'[q] > 0 \/ qp'[q] = "destroyed"
  BY DEF First
<1>1. /\ StreamInv /\ PlaceInv /\ CreditInv /\ StateOK /\ Place(q) /\ Stream(p)
      /\ q \in Peers /\ q # p /\ Other(q) = p /\ Has(p) \in Nat /\ Sent(q) \in Nat
  BY SyncFacts
<1>2. StreamInv' /\ Has(p)' \in Nat
  BY <1>1, NextStream, CountsNext
<1>3. CASE Going(p) /\ Straight(p) /\ Has(p)' <= Has(p)
  <2>1. Has(p) > ConLen
    BY <1>1, <1>2, <1>3, ConLength
  <2>2. qp[q] \in {"RTS", "ERR", "destroyed"} /\ (p = Server /\ pc[p] \in ToPost => rq[q] > 0 \/ qp[q] = "destroyed")
    BY <1>3, <2>1 DEF SyncInv, First
  <2>3. pc[q] \notin {"create", "init", "rtr", "rts"}
    <3>1. pc[q] \in Setup => Going(q) /\ Sent(q) <= ConLen
      BY ConLength DEF Setup, Going, Ended, Sent, Early
    <3>2. Going(q) => Has(p) <= Sent(q)
      BY <1>1, <1>3 DEF Stream
    <3> QED  BY <1>1, <2>1, <3>1, <3>2, ConLength DEF Setup, Early
  <2>4. qp'[q] = qp[q] \/ (qp[q] = "RTS" /\ qp'[q] = "ERR") \/ qp'[q] = "destroyed"
    BY <1>1, <2>3, QpMoves
  <2>5. ASSUME p = Server, pc'[p] \in ToPost PROVE rq'[q] > 0 \/ qp'[q] = "destroyed"
    <3>1. pc[p] \in ToPost
      BY <1>1, <2>5, Forward
    <3>2. CASE qp[q] = "destroyed"
      BY <2>4, <3>2
    <3>3. CASE rq[q] > 0
      <4>1. Awaited(p) = {}
        BY <2>5, <3>1, TwoPeers DEF Awaited, ToPost, Setup, Early
      <4>2. sq[p] = <<>>
        BY <1>1, <4>1, CreditFacts
      <4>3. rq'[q] >= rq[q] \/ qp'[q] = "destroyed"
        BY <1>1, <4>2, RqMoves
      <4>4. rq[q] \in Nat /\ rq'[q] \in Nat
        BY <1>1, CountsNext DEF StateOK
      <4> QED  BY <3>3, <4>3, <4>4
    <3> QED  BY <2>2, <2>5, <3>1, <3>2, <3>3
  <2> QED  BY <2>2, <2>4, <2>5
<1>4. CASE SyncWrite(q) /\ Continue(q)
  <2>1. /\ pc[q] \in WriteSteps /\ pc'[q] = Follow(q, pc[q]) /\ pc'[p] = pc[p] /\ UNCHANGED nic
    BY <1>1, <1>4, Written DEF SyncWrite
  <2>2. pc[q] # "con_write"
    <3> SUFFICES ASSUME pc[q] = "con_write" PROVE FALSE
      OBVIOUS
    <3>1. pc'[q] = "con_read"
      BY <2>1 DEF Follow, ConnectSteps, ConnectQp
    <3>2. Going(q)' /\ Sent(q)' = ConLen
      BY <3>1 DEF Going, Sent, Ended, Early, Setup
    <3>3. Has(p)' <= ConLen
      BY <1>2, <3>2 DEF StreamInv, Stream
    <3> QED  BY <1>2, <3>3, ConLength
  <2>3. pc[q] \in {"q_write", "r_write", "w_write"}
    BY <2>1, <2>2 DEF WriteSteps
  <2>4. qp[q] \in {"RTS", "ERR"}
    BY <1>1, <2>3 DEF Place, MainSteps
  <2>5. ASSUME p = Server, pc'[p] \in ToPost PROVE rq'[q] > 0
    BY <2>1, <2>3, <2>5, TwoPeers DEF SyncInv, Ready, Received, Late, nic
  <2> QED  BY <2>1, <2>4, <2>5 DEF nic
<1> QED  BY <1>1, <1>2, <1>3, <1>4, Flow, ConLength

LEMMA ReadyNext == ASSUME SyncInv, [Next]_vars PROVE Ready'
<1>1. /\ StreamInv /\ PlaceInv /\ CreditInv /\ StateOK /\ Place(Client) /\ Place(Server)
      /\ Stream(Server) /\ Other(Server) = Client /\ Other(Client) = Server
      /\ Server \in Peers /\ Client \in Peers /\ Server # Client
      /\ pc[Server] \in ServerCalls
      /\ Has(Server) \in Nat /\ Sent(Client) \in Nat /\ Has(Server) >= Taken(Server)
      /\ Taken(Server) \in Nat
  BY SyncFacts, TwoPeers DEF PlaceInv
<1>2. rq[Client] \in Nat /\ rq'[Client] \in Nat
  BY <1>1, CountsNext DEF StateOK
<1>3. sq[Server] = <<>> => rq'[Client] >= rq[Client] \/ (qp'[Client] = "destroyed" /\ pc'[Client] = "close")
  BY <1>1, RqMoves
<1>4. ASSUME pc'[Client] \in {"rtr", "rts", "q_write", "q_read"}, pc'[Server] \in ToPost
      PROVE  rq'[Client] > 0
  <2>1. pc[Server] \in ToPost
    BY <1>1, <1>4, Forward
  <2>2. sq[Server] = <<>>
    <3>1. Awaited(Server) = {}
      BY <2>1, TwoPeers DEF Awaited, ToPost, Setup, Early
    <3> QED  BY <1>1, <3>1, CreditFacts
  <2>3. pc[Client] \in {"rtr", "rts", "q_write", "q_read"} \/ (pc[Client] = "post_rr" /\ rq'[Client] > 0)
    <3>1. pc'[Client] = pc[Client] \/ Go(Client)
      BY <1>1, OwnMove
    <3>2. CASE pc'[Client] = pc[Client]
      BY <1>4, <3>2
    <3>3. CASE Go(Client)
      <4>1. pc[Client] \in Body /\ pc'[Client] = Follow(Client, pc[Client])
            /\ (pc[Client] = "post_rr" => rq'[Client] > 0)
        BY <1>4, <3>3 DEF Go, Ended
      <4>2. pc[Client] \in {"post_rr", "rtr", "rts", "q_write"}
        BY <1>4, <4>1, TwoPeers DEF Body, Follow, ConnectQp, Main, ConnectSteps, MainSteps
      <4> QED  BY <4>1, <4>2
    <3> QED  BY <3>1, <3>2, <3>3
  <2>4. pc[Client] \in {"rtr", "rts", "q_write", "q_read"} => rq[Client] > 0
    BY <2>1 DEF SyncInv, Ready
  <2> QED  BY <1>2, <1>3, <1>4, <2>2, <2>3, <2>4
<1>5. ASSUME sq'[Server] # <<>>, Knows(Server)'
      PROVE  /\ qp'[Client] \in {"RTS", "ERR", "destroyed"}
             /\ rq'[Client] > 0 \/ qp'[Client] = "destroyed"
             /\ pc'[Client] \notin Setup
  <2>1. CASE sq'[Server] = sq[Server]
    <3>1. pc[Server] \in Awaiting /\ Awaited(Server) # {}
      BY <1>1, <1>5, <2>1, CreditFacts
    <3>2. pc[Server] # "con_read"
      BY <3>1 DEF Awaiting, PollSteps
    <3>3. Knows(Server)
      BY <1>1, <1>5, <3>2, RemoteMoves
    <3>4. /\ qp[Client] \in {"RTS", "ERR", "destroyed"} /\ (rq[Client] > 0 \/ qp[Client] = "destroyed")
          /\ pc[Client] \notin Setup
      BY <1>5, <2>1, <3>3 DEF SyncInv, Ready
    <3>5. qp'[Client] \in {"RTS", "ERR", "destroyed"} /\ (qp[Client] = "destroyed" => qp'[Client] = "destroyed")
      BY <1>1, <3>4, QpMoves DEF Setup, Early
    <3>6. rq'[Client] >= rq[Client] \/ qp'[Client] = "destroyed"
      BY <1>1, <1>5, RqMoves
    <3>7. pc'[Client] \notin Setup
      BY <1>1, <3>4, Forward
    <3> QED  BY <1>2, <3>4, <3>5, <3>6, <3>7
  <2>2. CASE sq'[Server] # sq[Server]
    <3>1. /\ pc[Server] \in {"post_send", "post_read", "post_write"} /\ pc'[Client] = pc[Client]
          /\ UNCHANGED <<qp, rq, remote>>
      BY <1>1, <1>5, <2>2, SqMoves
    <3>2. pc[Server] = "post_send" /\ Knows(Server)
      BY <1>1, <1>5, <3>1 DEF ServerCalls, Knows
    <3>3. Going(Server) /\ Straight(Server) /\ Has(Server) > ConLen
      <4>1. Taken(Server) = ConLen + 1
        BY <3>2 DEF Taken, Early
      <4> QED  BY <1>1, <3>2, <4>1, ConLength DEF Going, Ended, Straight
    <3>4. qp[Client] \in {"RTS", "ERR", "destroyed"} /\ (rq[Client] > 0 \/ qp[Client] = "destroyed")
      BY <1>1, <3>2, <3>3 DEF SyncInv, First, ToPost
    <3>5. pc[Client] \notin Setup
      <4>1. pc[Client] \in Setup => Going(Client) /\ Sent(Client) <= ConLen
        BY ConLength DEF Setup, Going, Ended, Sent, Early
      <4>2. Going(Client) => Has(Server) <= Sent(Client)
        BY <1>1, <3>3 DEF Stream
      <4> QED  BY <1>1, <3>3, <4>1, <4>2, ConLength
    <3> QED  BY <3>1, <3>4, <3>5
  <2> QED  BY <2>1, <2>2
<1> QED  BY <1>4, <1>5 DEF Ready

\* The write that makes the count complete is the W.
LEMMA LastWrite ==
  ASSUME StreamInv, StreamInv', [Next]_vars, SyncWrite(Client), Continue(Client),
         Going(Server)', Straight(Server)', Has(Server)' >= ConLen + 3
  PROVE  pc[Client] = "w_write" /\ pc'[Client] = "w_read" /\ UNCHANGED nic
<1>1. /\ StateOK /\ PlaceInv
      /\ Other(Server) = Client /\ Server \in Peers /\ Client \in Peers
  BY TwoPeers DEF StreamInv, PlaceInv, CreditInv
<1>2. Has(Server)' \in Nat
  BY <1>1, CountsNext
<1>3. /\ pc[Client] \in WriteSteps /\ pc'[Client] = Follow(Client, pc[Client]) /\ UNCHANGED nic
      /\ pc'[Client] \in ReadSteps
  BY <1>1, Written, WriteSide DEF SyncWrite
<1>4. Going(Client)' /\ Sent(Client)' \in Nat
  BY <1>3, ConLength DEF Going, Ended, ReadSteps, Sent
<1>5. Sent(Client)' > ConLen + 2
  <2>1. Has(Server)' <= Sent(Client)'
    BY <1>1, <1>4 DEF StreamInv, Stream
  <2> QED  BY <1>2, <1>4, <2>1, ConLength
<1>6. pc'[Client] = "w_read"
  BY <1>3, <1>5, ConLength DEF Sent, ReadSteps, Early, Setup
<1>7. pc[Client] = "w_write"
  BY <1>3, <1>6 DEF WriteSteps, Follow, ConnectSteps, ConnectQp, Main
<1> QED  BY <1>3, <1>6, <1>7

LEMMA ThirdNext == ASSUME SyncInv, [Next]_vars PROVE Third'
<1> SUFFICES ASSUME Going(Server)', Straight(Server)', Has(Server)' >= ConLen + 3
             PROVE  sq'[Client] = <<>> /\ pc'[Client] \in {"w_read", "report"} \cup Ended
  BY DEF Third
<1>1. /\ StreamInv /\ PlaceInv /\ CreditInv /\ StateOK
      /\ Other(Server) = Client /\ Server \in Peers /\ Client \in Peers /\ Has(Server) \in Nat
  BY SyncFacts, TwoPeers
<1>2. StreamInv' /\ Has(Server)' \in Nat
  BY <1>1, NextStream, CountsNext
<1>3. CASE Going(Server) /\ Straight(Server) /\ Has(Server)' <= Has(Server)
  <2>1. sq[Client] = <<>> /\ pc[Client] \in {"w_read", "report"} \cup Ended
    <3>1. Has(Server) >= ConLen + 3
      BY <1>1, <1>2, <1>3, ConLength
    <3> QED  BY <1>3, <3>1 DEF SyncInv, Third
  <2>2. sq'[Client] = <<>>
    <3>1. pc[Client] \notin {"post_send", "post_read", "post_write"}
      BY <2>1 DEF Ended
    <3> QED  BY <1>1, <2>1, <3>1, SqMoves
  <2>3. pc'[Client] \in {"w_read", "report"} \cup Ended
    <3>1. pc'[Client] = pc[Client] \/ Go(Client)
      BY <1>1, OwnMove
    <3>2. pc[Client] \in Ended => pc'[Client] \in Ended
      BY <1>1, Forward
    <3>3. Follow(Client, "w_read") = "report" /\ Follow(Client, "report") = "destroy"
      BY DEF Follow, Main, ConnectSteps
    <3> QED  BY <2>1, <3>1, <3>2, <3>3 DEF Go, Ended
  <2> QED  BY <2>2, <2>3
<1>4. CASE SyncWrite(Client) /\ Continue(Client)
  <2>1. pc[Client] = "w_write" /\ pc'[Client] = "w_read" /\ UNCHANGED nic
    BY <1>1, <1>2, <1>4, LastWrite
  <2>2. sq[Client] = <<>>
    BY <1>1, <2>1, CreditFacts DEF Awaiting, PollSteps
  <2> QED  BY <2>1, <2>2 DEF nic
<1> QED  BY <1>1, <1>2, <1>3, <1>4, Flow, ConLength

-----------------------------------------------------------------------------
(* ServerGone, ClientGone, Received, Agreed and Lent.                      *)

\* A side that is about to report success has counted everything.
LEMMA ServerReports ==
  ASSUME SyncInv, pc[Server] = "report"
  PROVE  pc[Client] \in {"w_read", "report"} \cup Ended /\ sq[Client] = <<>>
<1>1. Has(Server) >= Taken(Server) /\ Taken(Server) = ConLen + 3
  <2>1. Taken(Server) = ConLen + 3
    BY DEF Taken, Early
  <2> QED  BY <2>1, SyncFacts, TwoPeers
<1>2. Going(Server) /\ Straight(Server)
  BY DEF Going, Ended, SyncInv, Agreed, Both, Straight
<1> QED  BY <1>1, <1>2 DEF SyncInv, Third

\* Where each side may give up although the other one goes on.
LEMMA GivesUp ==
  ASSUME PlaceInv, [Next]_vars, NEW p \in Peers, pc[Other(p)] # "done",
         pc[p] \notin Ended, pc'[p] \in Ended
  PROVE  pc[p] \in {"start", "create", "con_write", "init", "post_rr", "rtr", "rts", "post_send",
                    "poll_send", "poll_recv", "post_read", "poll_read", "post_write", "poll_write",
                    "report"}
<1>1. Go(p) /\ pc[p] \in Steps
  <2>1. pc'[p] # pc[p] /\ pc[p] \in Steps
    BY DEF PlaceInv, CreditInv, StateOK
  <2> QED  BY <2>1, OwnMove
<1>2. CASE pc[p] \in Body /\ pc'[p] = Follow(p, pc[p])
  BY <1>2 DEF Body, Follow, ConnectQp, Main, ConnectSteps, MainSteps, Ended
<1>3. CASE /\ pc[p] \notin ReadSteps \cup (WriteSteps \ {"con_write"})
           /\ pc[p] \notin {"accept", "got_msg", "fill", "put"}
  BY <1>1, <1>3 DEF ReadSteps, WriteSteps, Steps, ConnectSteps, MainSteps, ExitSteps, Ended
<1> QED  BY <1>1, <1>2, <1>3 DEF Go, Ended

LEMMA ServerGoneNext == ASSUME SyncInv, [Next]_vars PROVE ServerGone'
<1> SUFFICES ASSUME pc'[Server] \in Ended, pc'[Client] \notin {"w_read", "report"} \cup Ended,
                    Straight(Client)'
             PROVE  Has(Client)' <= ConLen + 1
  BY DEF ServerGone
<1>1. /\ StreamInv /\ PlaceInv /\ StateOK /\ Stream(Client)
      /\ Other(Server) = Client /\ Other(Client) = Server
      /\ Server \in Peers /\ Client \in Peers /\ Has(Client) \in Nat /\ pc[Server] \in ServerCalls
  BY SyncFacts, TwoPeers DEF PlaceInv
<1>2. Has(Client)' \in Nat /\ Going(Client)'
  BY <1>1, CountsNext DEF Going
<1>3. CASE Going(Client) /\ Straight(Client) /\ Has(Client)' <= Has(Client)
  <2>1. pc[Client] \notin {"w_read", "report"} \cup Ended
    <3>1. pc'[Client] = pc[Client] \/ Go(Client)
      BY <1>1, OwnMove
    <3>2. Follow(Client, "w_read") = "report" /\ Follow(Client, "report") = "destroy"
      BY DEF Follow, Main, ConnectSteps
    <3> QED  BY <1>3, <3>1, <3>2 DEF Go, Going, Ended
  <2>2. CASE pc[Server] \in Ended
    <3>1. Has(Client) <= ConLen + 1
      BY <1>3, <2>1, <2>2 DEF SyncInv, ServerGone
    <3> QED  BY <1>1, <1>2, <1>3, <3>1, ConLength
  <2>3. CASE pc[Server] \notin Ended
    <3>1. pc[Client] # "done"
      BY <2>1 DEF Ended
    <3>2. pc[Server] \in {"start", "create", "con_write", "init", "rtr", "rts", "post_send", "poll_send"}
      BY <1>1, <2>1, <2>3, <3>1, GivesUp, ServerReports DEF ServerCalls
    <3>3. Sent(Server) <= ConLen + 1 /\ Sent(Server) \in Nat
      BY <3>2, ConLength DEF Sent, Early, Setup
    <3>4. Has(Client) <= Sent(Server)
      BY <1>1, <1>3, <2>3 DEF Stream, Going
    <3> QED  BY <1>1, <1>2, <1>3, <3>3, <3>4, ConLength
  <2> QED  BY <2>2, <2>3
<1>4. ~ (SyncWrite(Server) /\ Continue(Server))
  BY <1>1, WriteSide DEF ReadSteps, Ended
<1> QED  BY <1>1, <1>2, <1>3, <1>4, Flow, ConLength

LEMMA ClientGoneNext == ASSUME SyncInv, [Next]_vars PROVE ClientGone'
<1> DEFINE Behind == {"r_read", "w_write", "w_read", "report"} \cup Ended
<1> SUFFICES ASSUME pc'[Client] \in Ended, pc'[Server] \notin Behind, Straight(Server)'
             PROVE  Has(Server)' <= ConLen + 1
  BY DEF ClientGone
<1>1. /\ StreamInv /\ PlaceInv /\ StateOK /\ Stream(Server) /\ Stream(Client)
      /\ Other(Server) = Client /\ Other(Client) = Server
      /\ Server \in Peers /\ Client \in Peers /\ Has(Server) \in Nat /\ Has(Client) \in Nat
      /\ Has(Client) >= Taken(Client) /\ Taken(Client) \in Nat /\ Sent(Server) \in Nat
      /\ pc[Server] \in ServerCalls /\ pc[Client] \in ClientCalls
  BY SyncFacts, TwoPeers DEF PlaceInv
<1>2. Has(Server)' \in Nat /\ Going(Server)'
  BY <1>1, CountsNext DEF Going
<1>3. CASE Going(Server) /\ Straight(Server) /\ Has(Server)' <= Has(Server)
  <2>1. pc[Server] \notin Behind
    <3>1. pc'[Server] = pc[Server] \/ Go(Server)
      BY <1>1, OwnMove
    <3>2. /\ Follow(Server, "r_read") = "w_write" /\ Follow(Server, "w_write") = "w_read"
          /\ Follow(Server, "w_read") = "report" /\ Follow(Server, "report") = "destroy"
      BY TwoPeers DEF Follow, Main, ConnectSteps
    <3> QED  BY <1>3, <3>1, <3>2 DEF Go, Going, Ended
  <2>2. CASE pc[Client] \in Ended
    <3>1. Has(Server) <= ConLen + 1
      BY <1>3, <2>1, <2>2 DEF SyncInv, ClientGone
    <3> QED  BY <1>1, <1>2, <1>3, <3>1, ConLength
  <2>3. CASE pc[Client] \notin Ended
    <3>1. pc[Client] \notin Late
      <4> SUFFICES ASSUME pc[Client] \in Late PROVE FALSE
        OBVIOUS
      <4>1. Straight(Client)
        BY <1>1 DEF SyncInv, Received, Straight, Whole
      <4>2. Taken(Client) >= ConLen + 2
        BY ConLength DEF Late, Taken, Early
      <4>3. Has(Client) <= Sent(Server)
        BY <1>1, <1>3, <2>3, <4>1 DEF Stream, Going
      <4>4. Sent(Server) > ConLen + 1
        BY <1>1, <4>2, <4>3, ConLength
      <4> QED  BY <1>1, <2>1, <4>4, SentMore DEF ServerCalls
    <3>2. pc[Server] # "done"
      BY <2>1 DEF Ended
    <3>3. pc[Client] \in {"start", "create", "con_write", "init", "post_rr", "rtr", "rts", "poll_recv"}
      BY <1>1, <2>3, <3>1, <3>2, GivesUp DEF ClientCalls, Late
    <3>4. Sent(Client) <= ConLen + 1 /\ Sent(Client) \in Nat
      BY <3>3, ConLength DEF Sent, Early, Setup
    <3>5. Has(Server) <= Sent(Client)
      BY <1>1, <1>3, <2>3 DEF Stream, Going
    <3> QED  BY <1>1, <1>2, <1>3, <3>4, <3>5, ConLength
  <2> QED  BY <2>2, <2>3
<1>4. ~ (SyncWrite(Client) /\ Continue(Client))
  BY <1>1, WriteSide DEF ReadSteps, Ended
<1> QED  BY <1>1, <1>2, <1>3, <1>4, Flow, ConLength

LEMMA ReceivedNext == ASSUME SyncInv, [Next]_vars PROVE Received'
<1> DEFINE Heard == {"got_msg", "r_write", "r_read"} \cup Late
           Got == pc[Client] \in Heard \/ \E c \in Completed(Client) : c.op = "RECV"
           Claim == Knows(Server)' /\ sq'[Server] = <<>> /\ pc'[Server] \notin ToPost
                    /\ pc'[Client] \notin Setup
<1>1. /\ PlaceInv /\ CreditInv /\ Server \in Peers /\ Client \in Peers /\ Other(Client) = Server
      /\ pc[Server] \in ServerCalls /\ pc[Client] \in ClientCalls
  BY SyncFacts, TwoPeers DEF PlaceInv
<1>2. Got => Claim
  <2> SUFFICES ASSUME Got PROVE Claim
    OBVIOUS
  <2>1. /\ Knows(Server) /\ sq[Server] = <<>> /\ pc[Server] \notin ToPost /\ pc[Client] \notin Setup
    BY DEF SyncInv, Received
  <2>2. pc[Server] \notin {"post_send", "post_read", "post_write"}
    BY <1>1, <2>1 DEF ToPost, ServerCalls
  <2> QED  BY <1>1, <2>1, <2>2, RemoteMoves, SqMoves, Forward
<1>3. ASSUME NEW c \in Completed(Client)', c.op = "RECV" PROVE Claim
  <2>1. CASE c \in Completed(Client)
    BY <1>2, <1>3, <2>1
  <2>2. CASE sq[Client] # <<>> /\ c.op = Head(sq[Client])
    <3>1. c.op \in Ops
      BY <1>1, <2>2, CreditFacts
    <3> QED  BY <1>3, <3>1 DEF Ops
  <2>3. CASE Lands(Server) /\ sq'[Server] = <<>> /\ UNCHANGED <<pc, remote>>
    <3>1. sq[Server] # <<>> /\ Knows(Server) /\ Knows(Server)'
      BY <2>3 DEF Lands, Knows
    <3>2. pc[Client] \notin Setup
      BY <3>1 DEF SyncInv, Ready
    <3>3. Awaited(Server) # {}
      BY <1>1, <3>1, CreditFacts
    <3>4. pc[Server] \notin ToPost
      BY <3>3, TwoPeers DEF Awaited, ToPost, Setup, Early
    <3> QED  BY <2>3, <3>1, <3>2, <3>4
  <2> QED  BY <1>1, <2>1, <2>2, <2>3, CompletedMoves
<1>4. ASSUME pc'[Client] \in Heard PROVE Claim
  <2>1. CASE pc[Client] \in Heard
    BY <1>2, <2>1
  <2>2. CASE pc[Client] \notin Heard
    <3>1. Go(Client)
      BY <1>1, <1>4, <2>2, OwnMove
    <3>2. /\ pc[Client] \in Body /\ pc'[Client] = Follow(Client, pc[Client])
          /\ pc[Client] \in PollSteps => cq[Client] # <<>>
      BY <1>4, <3>1 DEF Go, Late, Ended
    <3>3. pc[Client] = "poll_recv"
      BY <1>1, <1>4, <2>2, <3>2, TwoPeers DEF Body, Follow, ConnectQp, Main, ConnectSteps, MainSteps, Late,
         ClientCalls
    <3>4. Head(cq[Client]) \in Completed(Client) /\ Head(cq[Client]).op \in {"RECV"}
      <4>1. Awaited(Client) = {"RECV"}
        BY <3>3 DEF Awaited
      <4> QED  BY <1>1, <3>2, <3>3, <4>1, CreditFacts DEF PollSteps
    <3> QED  BY <1>2, <3>4
  <2> QED  BY <2>1, <2>2
<1> QED  BY <1>3, <1>4 DEF Received

LEMMA AgreedNext == ASSUME SyncInv, [Next]_vars PROVE Agreed'
<1> DEFINE AtS == {"fill", "r_write", "r_read", "w_write", "w_read", "report"}
           AtC == Late \ {"post_read", "poll_read"}
<1>1. /\ PlaceInv /\ CreditInv /\ Server \in Peers /\ Client \in Peers
      /\ Other(Client) = Server /\ Other(Server) = Client
      /\ pc[Server] \in ServerCalls /\ pc[Client] \in ClientCalls
  BY SyncFacts, TwoPeers DEF PlaceInv
<1>2. Both => Both'
  BY <1>1, RemoteMoves DEF Both
<1>3. ASSUME NEW p \in Peers, pc[p] \in {"poll_send", "poll_read"}, cq[p] # <<>>, Head(cq[p]).ok
      PROVE  Both'
  <2>1. Head(cq[p]) \in Completed(p) /\ Head(cq[p]).op \in Awaited(p)
    BY <1>1, <1>3, CreditFacts
  <2>2. "RECV" \notin Awaited(p)
    BY <1>3 DEF Awaited
  <2> QED  BY <1>2, <1>3, <2>1, <2>2 DEF SyncInv, Agreed
<1>4. ASSUME pc'[Server] \in AtS PROVE Both'
  <2>1. CASE pc[Server] \in AtS
    BY <1>2, <2>1 DEF SyncInv, Agreed
  <2>2. CASE pc[Server] \notin AtS
    <3>1. Go(Server)
      BY <1>1, <1>4, <2>2, OwnMove
    <3>2. /\ pc[Server] \in Body /\ pc'[Server] = Follow(Server, pc[Server])
          /\ pc[Server] \in PollSteps => cq[Server] # <<>> /\ Head(cq[Server]).ok
      BY <1>4, <3>1 DEF Go, Ended
    <3>3. pc[Server] = "poll_send"
      BY <1>1, <1>4, <2>2, <3>2, TwoPeers DEF Body, Follow, ConnectQp, Main, ConnectSteps, MainSteps,
         ServerCalls
    <3> QED  BY <1>1, <1>3, <3>2, <3>3 DEF PollSteps
  <2> QED  BY <2>1, <2>2
<1>5. ASSUME pc'[Client] \in AtC PROVE Both'
  <2>1. CASE pc[Client] \in AtC
    BY <1>2, <2>1 DEF SyncInv, Agreed
  <2>2. CASE pc[Client] \notin AtC
    <3>1. Go(Client)
      BY <1>1, <1>5, <2>2, OwnMove
    <3>2. /\ pc[Client] \in Body /\ pc'[Client] = Follow(Client, pc[Client])
          /\ pc[Client] \in PollSteps => cq[Client] # <<>> /\ Head(cq[Client]).ok
      BY <1>5, <3>1 DEF Go, Ended, Late
    <3>3. pc[Client] = "poll_read"
      BY <1>1, <1>5, <2>2, <3>2, TwoPeers DEF Body, Follow, ConnectQp, Main, ConnectSteps, MainSteps,
         ClientCalls, Late
    <3> QED  BY <1>1, <1>3, <3>2, <3>3 DEF PollSteps
  <2> QED  BY <2>1, <2>2
<1>6. ASSUME NEW p \in Peers, NEW c \in Completed(p)', c.ok, c.op # "RECV" PROVE Both'
  <2>1. CASE c \in Completed(p)
    BY <1>2, <1>6, <2>1 DEF SyncInv, Agreed
  <2>2. CASE Lands(p) /\ Knows(Other(p))
    <3>1. Both
      BY <1>1, <2>2, TwoPeers DEF Lands, Both
    <3> QED  BY <1>2, <3>1
  <2> QED  BY <1>1, <1>6, <2>1, <2>2, CompletedMoves
<1> QED  BY <1>4, <1>5, <1>6 DEF Agreed

LEMMA LentNext == ASSUME SyncInv, [Next]_vars PROVE Lent'
<1> DEFINE Using == {"post_read", "poll_read", "put", "post_write", "poll_write", "w_write"}
           Lending == {"r_read", "w_write", "w_read"}
<1> SUFFICES ASSUME Active' PROVE pc'[Server] \in Lending
  BY DEF Lent
<1>1. /\ PlaceInv /\ CreditInv /\ Server \in Peers /\ Client \in Peers /\ Server # Client
      /\ Other(Client) = Server /\ Other(Server) = Client
      /\ pc[Server] \in ServerCalls /\ pc[Client] \in ClientCalls
      /\ \A p \in Peers : /\ Has(p) \in Nat /\ Has(p) = Taken(p) + Len(chan[p]) /\ Taken(p) \in Nat
                          /\ Sent(p) \in Nat /\ Len(chan[p]) \in Nat
                          /\ chan[p] # <<>> => Len(chan[p]) > 0
  <2>1. \A p \in Peers : chan[p] \in Seq(Bytes)
    BY SyncFacts, TwoPeers DEF StateOK
  <2> QED  BY <2>1, SyncFacts, TwoPeers DEF PlaceInv, Has
<1>2. CASE Active
  <2>1. pc[Server] \in Lending
    BY <1>2 DEF SyncInv, Lent
  <2>2. pc[Client] # "done"
    <3>1. sq[Client] # <<>> => pc[Client] # "done"
      BY <1>1, CreditFacts DEF Awaiting, PollSteps
    <3> QED  BY <1>2, <3>1 DEF Active
  <2>3. pc'[Server] \notin Ended
    <3>1. pc[Server] \notin Ended
      BY <2>1 DEF Ended
    <3> QED  BY <1>1, <2>1, <2>2, <3>1, GivesUp
  <2>4. pc[Server] = "w_read" => chan[Server] = <<>>
    <3> SUFFICES ASSUME pc[Server] = "w_read", chan[Server] # <<>> PROVE FALSE
      OBVIOUS
    <3>1. Taken(Server) = ConLen + 2 /\ Going(Server)
      BY DEF Taken, Early, Going, Ended
    <3>2. Has(Server) >= ConLen + 3
      BY <1>1, <3>1, ConLength
    <3>3. Straight(Server)
      BY DEF SyncInv, Agreed, Both, Straight
    <3>4. sq[Client] = <<>> /\ pc[Client] \in {"w_read", "report"} \cup Ended
      BY <3>1, <3>2, <3>3 DEF SyncInv, Third
    <3> QED  BY <1>2, <3>4 DEF Active, Ended
  <2>5. pc'[Server] = pc[Server] \/ Go(Server)
    BY <1>1, OwnMove
  <2>6. Follow(Server, "r_read") = "w_write" /\ Follow(Server, "w_write") = "w_read"
    BY TwoPeers DEF Follow, Main, ConnectSteps
  <2> QED  BY <2>1, <2>3, <2>4, <2>5, <2>6 DEF Go, ReadSteps
<1>3. CASE ~ Active
  <2>1. sq'[Client] = <<>>
    <3>1. pc[Client] \notin {"post_send", "post_read", "post_write"} /\ sq[Client] = <<>>
      BY <1>1, <1>3 DEF Active, ClientCalls
    <3> QED  BY <1>1, <3>1, SqMoves
  <2>2. pc'[Client] \in Using /\ pc[Client] \notin Using
    BY <1>3, <2>1 DEF Active
  <2>3. Go(Client) /\ Alone(Client)
    BY <1>1, <2>2, OwnMove
  <2>4. /\ pc[Client] \in Body /\ pc'[Client] = Follow(Client, pc[Client])
        /\ pc[Client] \in ReadSteps => chan[Client] # <<>>
    BY <2>2, <2>3 DEF Go, Ended
  <2>5. pc[Client] = "r_read" /\ chan[Client] # <<>>
    <3>1. pc[Client] = "r_read"
      BY <1>1, <2>2, <2>4 DEF Body, Follow, ConnectQp, Main, ConnectSteps, MainSteps
    <3> QED  BY <2>4, <3>1 DEF ReadSteps
  <2>6. Has(Client) > ConLen + 1
    <3>1. Taken(Client) = ConLen + 1
      BY <2>5 DEF Taken, Early
    <3> QED  BY <1>1, <2>5, <3>1, ConLength
  <2>7. Straight(Client)
    BY <1>1, <2>5 DEF SyncInv, Received, Straight, Whole
  <2>8. pc[Server] \notin Ended
    <3> SUFFICES ASSUME pc[Server] \in Ended PROVE FALSE
      OBVIOUS
    <3>1. Has(Client) <= ConLen + 1
      BY <2>5, <2>7 DEF SyncInv, ServerGone, Ended
    <3> QED  BY <1>1, <2>6, <3>1, ConLength
  <2>9. pc[Server] # "report"
    BY <2>5, ServerReports DEF Ended
  <2>10. Has(Client) <= Sent(Server)
    <3>1. Stream(Client)
      BY SyncFacts, TwoPeers
    <3> QED  BY <1>1, <2>5, <2>7, <2>8, <3>1 DEF Stream, Going, Ended
  <2>11. Sent(Server) > ConLen + 1
    BY <1>1, <2>6, <2>10, ConLength
  <2>12. pc[Server] \in Lending
    BY <1>1, <2>9, <2>11, SentMore DEF ServerCalls
  <2> QED  BY <1>1, <2>3, <2>12 DEF Alone
<1> QED  BY <1>2, <1>3

-----------------------------------------------------------------------------
(* Cut and Passed.                                                         *)

\* What p finds in its socket once the other side is done.
LEMMA ChanStays ==
  ASSUME StreamInv, [Next]_vars, NEW p \in Peers, pc[Other(p)] = "done", pc'[p] \notin Ended
  PROVE  \/ chan'[p] = chan[p] /\ total'[p] = total[p] /\ (pc[p] \in ReadSteps => pc'[p] = pc[p])
         \/ /\ pc[p] \in ReadSteps /\ chan[p] # <<>>
            /\ \/ total[p] + Len(chan[p]) >= XferSize(pc[p])
               \/ pc'[p] = pc[p] /\ total'[p] + Len(chan'[p]) = total[p] + Len(chan[p])
<1> DEFINE q == Other(p)
<1>1. /\ PlaceInv /\ StateOK /\ q \in Peers /\ q # p /\ Other(q) = p
      /\ total[p] \in 0..1 /\ Len(chan[p]) \in Nat
  BY TwoPeers, Counts DEF StreamInv, PlaceInv, CreditInv
<1>2. PICK x \in Peers : \/ Idle(x) \/ Stop(x) \/ (SyncWrite(x) /\ Continue(x))
                         \/ ShortWrite(x) \/ SyncRead(x)
  BY <1>1, Moves
<1>3. x = p \/ x = q
  BY <1>1, TwoPeers
<1>4. CASE Idle(x)
  <2>1. pc[p] \in ReadSteps => pc'[p] = pc[p]
    <3> SUFFICES ASSUME pc[p] \in ReadSteps, pc'[p] # pc[p] PROVE FALSE
      OBVIOUS
    <3>1. Go(p) /\ x = p
      BY <1>1, <1>3, <1>4, OwnMove DEF Idle
    <3>2. pc'[p] = Follow(p, pc[p])
      BY <3>1 DEF Go, ReadSteps
    <3>3. /\ Taken(p)' = IF pc[p] = "con_read" THEN ConLen ELSE Taken(p) + 1
          /\ pc'[p] # "con_read"
      BY <1>1, <3>2, ReadCounts
    <3>4. Taken(p) \in Nat
      BY <1>1, Counts
    <3> QED  BY <1>4, <3>1, <3>3, <3>4 DEF Idle
  <2> QED  BY <1>4, <2>1 DEF Idle
<1>5. CASE Stop(x)
  <2>1. x = q
    BY <1>3, <1>5 DEF Stop
  <2> QED  BY <1>1, <1>5, <2>1 DEF Stop
<1>6. CASE (SyncWrite(x) /\ Continue(x)) \/ ShortWrite(x)
  <2>1. pc[x] \in WriteSteps
    BY <1>6 DEF SyncWrite, ShortWrite, WriteSteps
  <2>2. x = p /\ pc[p] \notin ReadSteps
    BY <1>3, <2>1 DEF WriteSteps, ReadSteps
  <2>3. chan'[p] = chan[p] /\ total' = total
    BY <1>1, <1>6, <2>2 DEF SyncWrite, ShortWrite, StateOK
  <2> QED  BY <2>2, <2>3
<1>7. CASE SyncRead(x)
  <2>1. CASE x = q
    <3>1. pc[q] \in ReadSteps
      BY <1>7, <2>1 DEF SyncRead
    <3> QED  BY <3>1 DEF ReadSteps
  <2>2. CASE x = p
    <3>1. PICK n \in 1..XferSize(pc[p]) :
           /\ pc[p] \in ReadSteps /\ n <= Len(chan[p])
           /\ Len(chan'[p]) = Len(chan[p]) - n
           /\ total'[p] = IF total[p] + n >= XferSize(pc[p]) THEN 0 ELSE total[p] + n
           /\ pc'[p] = IF total[p] + n >= XferSize(pc[p]) THEN Follow(p, pc[p]) ELSE pc[p]
      BY <1>1, <1>7, <2>2, Read
    <3>2. n \in Nat /\ n >= 1 /\ XferSize(pc[p]) \in Nat
      BY <3>1, ConLength DEF XferSize
    <3>3. chan[p] # <<>>
      BY <3>1, <3>2
    <3>4. CASE total[p] + n >= XferSize(pc[p])
      BY <1>1, <3>1, <3>2, <3>3, <3>4
    <3>5. CASE ~ (total[p] + n >= XferSize(pc[p]))
      BY <1>1, <3>1, <3>2, <3>3, <3>5
    <3> QED  BY <3>4, <3>5
  <2> QED  BY <1>3, <2>1, <2>2
<1> QED  BY <1>2, <1>4, <1>5, <1>6, <1>7

\* A first write to a closed socket.
LEMMA FirstCut ==
  ASSUME SyncInv, [Next]_vars, NEW p \in Peers, SyncWrite(p), Continue(p), peerEnd[p] = "fin"
  PROVE  Cut(p)'
<1> DEFINE q == Other(p)
<1>1. /\ StreamInv /\ PlaceInv /\ CreditInv /\ StateOK /\ Place(p) /\ q \in Peers /\ q # p /\ Other(q) = p
      /\ Has(p) = Taken(p) + Len(chan[p]) /\ Taken(p) \in Nat /\ Len(chan[p]) \in Nat
      /\ chan[p] \in Seq(Bytes)
  BY SyncFacts DEF Has, StateOK
<1>2. /\ pc[p] \in WriteSteps /\ pc'[p] = Follow(p, pc[p]) /\ pc[q] = "done" /\ pc'[q] = pc[q]
      /\ chan' = chan /\ total' = total /\ total[p] = 0 /\ UNCHANGED nic
  BY <1>1, Written, WriteSide DEF SyncWrite, Place
<1>3. Completed(p)' = Completed(p) /\ pc[q] \in Ended
  BY <1>2 DEF nic, Completed, Ended
<1>4. CASE pc[p] = "con_write"
  <2>1. pc'[p] = "con_read"
    BY <1>2, <1>4 DEF Follow, ConnectSteps, ConnectQp
  <2>2. Len(chan[p]) < ConLen
    BY <1>1, <1>3, <1>4 DEF SyncInv, Silent, Early
  <2> QED  BY <1>1, <1>2, <2>1, <2>2 DEF Cut, Ended
<1>5. CASE pc[p] = "q_write"
  <2>1. pc'[p] = "q_read"
    BY <1>2, <1>5 DEF Follow, ConnectSteps, ConnectQp
  <2>2. p = Client => Completed(p) = {}
    <3> SUFFICES ASSUME p = Client, NEW c \in Completed(p) PROVE FALSE
      OBVIOUS
    <3>1. c.op \in Awaited(p) /\ Awaited(p) \subseteq {"RECV"}
      BY <1>1, <1>5, CreditFacts DEF Awaited
    <3>2. pc[Client] \notin Setup
      BY <3>1 DEF SyncInv, Received
    <3> QED  BY <1>5, <3>2 DEF Setup
  <2> QED  BY <1>3, <2>1, <2>2 DEF Cut, Ended
<1>6. CASE pc[p] = "r_write"
  <2>1. pc'[p] = "r_read"
    BY <1>2, <1>6 DEF Follow, ConnectSteps, Main
  <2>2. Straight(p) /\ Has(p) <= ConLen + 1
    <3>1. CASE p = Server
      <4>1. Straight(Server)
        BY <1>6, <3>1 DEF SyncInv, Agreed, Both, Straight
      <4> QED  BY <1>3, <1>6, <3>1, <4>1, TwoPeers DEF SyncInv, ClientGone, Ended
    <3>2. CASE p = Client
      <4>1. Straight(Client)
        BY <1>6, <3>2, TwoPeers DEF SyncInv, Received, Straight, Whole
      <4> QED  BY <1>3, <1>6, <3>2, <4>1, TwoPeers DEF SyncInv, ServerGone, Ended
    <3> QED  BY <3>1, <3>2, TwoPeers
  <2>3. Taken(p) = ConLen + 1
    BY <1>6 DEF Taken, Early
  <2>4. Taken(p) + Len(chan[p]) <= ConLen + 1
    BY <2>2 DEF Has
  <2>5. Len(chan[p]) = 0
    <3>1. \A k, n \in Nat : k + n <= k => n = 0
      OBVIOUS
    <3>2. Taken(p) \in Nat /\ Len(chan[p]) \in Nat /\ Taken(p) + Len(chan[p]) <= Taken(p)
      BY <1>1, <2>3, <2>4
    <3> QED  BY <3>1, <3>2
  <2>6. chan[p] = <<>>
    BY <1>1, <2>5, EmptyQueue
  <2> QED  BY <1>2, <2>1, <2>6 DEF Cut, Ended
<1>7. CASE pc[p] = "w_write"
  <2>1. pc'[p] = "w_read"
    BY <1>2, <1>7 DEF Follow, ConnectSteps, Main
  <2> QED  BY <2>1 DEF Cut, Ended
<1> QED  BY <1>2, <1>4, <1>5, <1>6, <1>7 DEF WriteSteps

\* Once cut off, a side never reaches another write.
LEMMA CutNext ==
  ASSUME SyncInv, [Next]_vars, NEW p \in Peers PROVE Cut(p)'
<1> DEFINE q == Other(p)
           Open == {"con_read", "q_read", "post_send", "poll_send", "poll_recv", "r_read", "w_read", "report"}
<1> SUFFICES ASSUME peerEnd'[p] = "finrst" PROVE Cut(p)'
  BY DEF Cut
<1>1. /\ StreamInv /\ PlaceInv /\ CreditInv /\ StateOK /\ Place(p) /\ Place(q)
      /\ q \in Peers /\ q # p /\ Other(q) = p
      /\ pc[Server] \in ServerCalls /\ pc[Client] \in ClientCalls
  BY SyncFacts DEF PlaceInv
<1>2. CASE SyncWrite(p) /\ Continue(p) /\ peerEnd[p] = "fin"
  BY <1>2, FirstCut
<1>3. CASE pc'[p] \in Ended
  BY <1>3 DEF Cut, Ended
<1>4. CASE peerEnd[p] = "finrst" /\ pc'[p] \notin Ended
  <2>1. /\ pc[q] = "done" /\ pc[p] \in Open
        /\ pc[p] = "con_read" => total[p] + Len(chan[p]) < ConLen
        /\ pc[p] = "r_read" => chan[p] = <<>>
        /\ pc[p] \in {"post_send", "poll_send"} => \A c \in Completed(p) : ~ c.ok
        /\ pc[p] = "poll_recv" \/ (p = Client /\ pc[p] = "q_read") => Completed(p) = {}
    <3>1. pc[p] \notin Ended
      BY <1>1, <1>4, Forward
    <3> QED  BY <1>1, <1>4, <3>1 DEF SyncInv, Cut, Place
  <2>2. total[p] \in 0..1 /\ Len(chan[p]) \in Nat
    BY <1>1, Counts
  <2>3. \/ chan'[p] = chan[p] /\ total'[p] = total[p] /\ (pc[p] \in ReadSteps => pc'[p] = pc[p])
        \/ /\ pc[p] \in ReadSteps /\ chan[p] # <<>>
           /\ \/ total[p] + Len(chan[p]) >= XferSize(pc[p])
              \/ pc'[p] = pc[p] /\ total'[p] + Len(chan'[p]) = total[p] + Len(chan[p])
    BY <1>1, <1>4, <2>1, ChanStays
  <2>4. \A c \in Completed(p)' : c \in Completed(p) \/ (~ c.ok /\ pc' = pc /\ c.op \in Awaited(p) \cap Ops)
    <3> SUFFICES ASSUME NEW c \in Completed(p)', c \notin Completed(p)
                 PROVE  ~ c.ok /\ pc' = pc /\ c.op \in Awaited(p) \cap Ops
      OBVIOUS
    <3>1. ~ Lands(p)
      BY <1>1, <2>1 DEF Place, Lands
    <3>2. ~ Lands(q)
      BY <1>1, <2>1, CreditFacts DEF Lands, Awaiting, PollSteps
    <3>3. sq[p] # <<>> /\ c.op = Head(sq[p]) /\ ~ c.ok /\ pc' = pc
      BY <1>1, <3>1, <3>2, CompletedMoves
    <3> QED  BY <1>1, <3>3, CreditFacts
  <2>5. pc'[p] = pc[p] \/ (Go(p) /\ pc'[p] # pc[p])
    BY <1>1, OwnMove
  <2>6. CASE pc'[p] = pc[p]
    <3>1. pc[p] = "con_read" => total'[p] + Len(chan'[p]) < ConLen
      BY <2>1, <2>2, <2>3, <2>6, ConLength DEF XferSize
    <3>2. pc[p] = "r_read" => chan'[p] = <<>>
      BY <2>1, <2>3
    <3>3. pc[p] \in {"post_send", "poll_send"} => \A c \in Completed(p)' : ~ c.ok
      BY <2>1, <2>4
    <3>4. pc[p] = "poll_recv" \/ (p = Client /\ pc[p] = "q_read") => Completed(p)' = {}
      <4>1. pc[p] = "poll_recv" \/ (p = Client /\ pc[p] = "q_read") => Awaited(p) \cap Ops = {}
        BY DEF Awaited, Ops
      <4> QED  BY <2>1, <2>4, <4>1
    <3> QED  BY <2>1, <2>6, <3>1, <3>2, <3>3, <3>4 DEF Cut
  <2>7. CASE Go(p) /\ pc'[p] # pc[p]
    <3>1. Completed(p)' \subseteq Completed(p)
      BY <2>4, <2>7
    <3>2. /\ pc'[p] = Follow(p, pc[p])
          /\ pc[p] \in ReadSteps => chan[p] # <<>>
          /\ pc[p] \in PollSteps => cq[p] # <<>> /\ Head(cq[p]).ok
      BY <1>4, <2>1, <2>7 DEF Go
    <3>3. pc[p] # "r_read"
      BY <2>1, <3>2 DEF ReadSteps
    <3>4. pc[p] # "con_read"
      BY <2>1, <2>2, <2>3, <2>7, ConLength DEF ReadSteps, XferSize
    <3>5. pc[p] \in PollSteps => Head(cq[p]) \in Completed(p)
      BY <1>1, <3>2, CreditFacts
    <3>6. pc[p] \notin {"poll_send", "poll_recv"}
      BY <2>1, <3>2, <3>5 DEF PollSteps
    <3>7. CASE pc[p] = "q_read" /\ p = Client
      <4>1. pc'[p] = "poll_recv"
        BY <3>2, <3>7 DEF Follow, ConnectQp, ConnectSteps
      <4> QED  BY <2>1, <3>1, <3>7, <4>1 DEF Cut, Ended
    <3>8. CASE pc[p] = "q_read" /\ p = Server
      <4>1. pc'[p] = "post_send"
        BY <3>2, <3>8, TwoPeers DEF Follow, ConnectQp, ConnectSteps
      <4>2. Completed(p) = {}
        <5>1. Awaited(p) = {}
          BY <3>8, TwoPeers DEF Awaited
        <5> QED  BY <1>1, <5>1, CreditFacts
      <4> QED  BY <3>1, <4>1, <4>2, <3>8, TwoPeers DEF Cut, Ended
    <3>9. CASE pc[p] = "post_send"
      <4>1. pc'[p] = "poll_send"
        BY <3>2, <3>9 DEF Follow, Main, ConnectSteps
      <4> QED  BY <2>1, <3>1, <3>9, <4>1 DEF Cut, Ended
    <3>10. CASE pc[p] \in {"w_read", "report"}
      <4>1. pc'[p] \in {"report", "destroy"}
        BY <3>2, <3>10 DEF Follow, Main, ConnectSteps
      <4> QED  BY <4>1 DEF Cut, Ended
    <3> QED  BY <2>1, <3>3, <3>4, <3>6, <3>7, <3>8, <3>9, <3>10, TwoPeers
  <2> QED  BY <2>5, <2>6, <2>7
<1> QED  BY <1>1, <1>2, <1>3, <1>4, PeerEndMoves

\* Who ends with rc = 0 has sent its W.
LEMMA PassedNext ==
  ASSUME SyncInv, [Next]_vars, NEW p \in Peers PROVE Passed(p)'
<1> DEFINE q == Other(p)
<1> SUFFICES ASSUME rc'[p] = 0
             PROVE  pc'[p] \in Ended /\ Knows(q)' /\ (Going(q)' => Has(q)' >= ConLen + 3)
  BY DEF Passed
<1>1. /\ StreamInv /\ PlaceInv /\ StateOK /\ Stream(q) /\ q \in Peers /\ q # p /\ Other(q) = p
      /\ Has(q) \in Nat
  BY SyncFacts
<1>2. Has(q)' \in Nat
  BY <1>1, CountsNext
<1>3. pc'[p] \in Ended /\ Knows(q) /\ (Going(q) => Has(q) >= ConLen + 3)
  <2>1. CASE rc[p] = 0
    BY <1>1, <2>1, Forward DEF SyncInv, Passed
  <2>2. CASE pc[p] = "report" /\ pc'[p] = "destroy"
    <3>1. Both
      BY <2>2, TwoPeers DEF SyncInv, Agreed, Late
    <3>2. Sent(p) = ConLen + 3 /\ Going(p)
      BY <2>2 DEF Sent, Early, Setup, Going, Ended
    <3>3. Knows(q)
      BY <3>1, TwoPeers DEF Both
    <3>4. Going(q) => Has(q) >= Sent(p)
      BY <1>1, <3>2, <3>3 DEF Stream, Whole
    <3> QED  BY <2>2, <3>2, <3>3, <3>4 DEF Ended
  <2> QED  BY <1>1, <2>1, <2>2, RcMoves
<1>4. Knows(q)'
  BY <1>1, <1>3, RemoteMoves
<1>5. Going(q)' => Has(q)' >= ConLen + 3
  <2> SUFFICES ASSUME Going(q)' PROVE Has(q)' >= ConLen + 3
    OBVIOUS
  <2>1. Going(q) /\ Has(q)' >= Has(q)
    BY <1>1, <1>3, Flow
  <2> QED  BY <1>1, <1>2, <1>3, <2>1, ConLength
<1> QED  BY <1>3, <1>4, <1>5

-----------------------------------------------------------------------------
\* The exchanges start in order.
LEMMA InitSync == Init => SyncInv
<1> SUFFICES ASSUME Init PROVE SyncInv
  OBVIOUS
<1>1. StreamInv
  BY InitStream
<1>2. \A p \in Peers : /\ pc[p] = "start" /\ chan[p] = <<>> /\ Other(p) \in Peers /\ peerEnd[p] = "up"
                       /\ sq[p] = <<>> /\ cq[p] = <<>> /\ pend[p] = <<>> /\ rc[p] = 1
  BY OtherPeer DEF Init
<1>3. \A p \in Peers : Completed(p) = {} /\ Has(p) = 0
  <2> SUFFICES ASSUME NEW p \in Peers PROVE Completed(p) = {} /\ Has(p) = 0
    OBVIOUS
  <2>1. Completed(p) = {}
    BY <1>2 DEF Completed
  <2>2. Taken(p) = 0 /\ Len(chan[p]) = 0
    BY <1>2 DEF Taken, Early
  <2> QED  BY <2>1, <2>2 DEF Has
<1>4. \A p \in Peers : Silent(p) /\ First(p) /\ Cut(p) /\ Passed(p)
  <2> SUFFICES ASSUME NEW p \in Peers PROVE Silent(p) /\ First(p) /\ Cut(p) /\ Passed(p)
    OBVIOUS
  <2>1. Silent(p)
    BY <1>2, ConLength DEF Silent, Setup, Early
  <2>2. First(p)
    BY <1>3, ConLength DEF First
  <2> QED  BY <1>2, <2>1, <2>2 DEF Cut, Passed
<1>5. Ready /\ Third /\ ServerGone /\ ClientGone
  BY <1>2, <1>3, TwoPeers, ConLength DEF Ready, Third, ServerGone, ClientGone, Ended
<1>6. Received /\ Agreed /\ Lent
  BY <1>2, <1>3, TwoPeers DEF Received, Agreed, Lent, Active, Late
<1> QED  BY <1>1, <1>4, <1>5, <1>6 DEF SyncInv

\* Every step keeps the exchanges in order.
LEMMA NextSync == SyncInv /\ [Next]_vars => SyncInv'
<1> SUFFICES ASSUME SyncInv, [Next]_vars PROVE SyncInv'
  OBVIOUS
<1>1. StreamInv'
  BY NextStream DEF SyncInv
<1>2. \A p \in Peers : Silent(p)' /\ First(p)' /\ Cut(p)' /\ Passed(p)'
  BY SilentNext, FirstNext, CutNext, PassedNext DEF SyncInv
<1> QED  BY <1>1, <1>2, ReadyNext, ThirdNext, ServerGoneNext, ClientGoneNext, ReceivedNext, AgreedNext,
            LentNext DEF SyncInv

\* Hence they are in order in every reachable state.
LEMMA SyncInvariant == Spec => []SyncInv
BY InitSync, NextSync, PTL DEF Spec

\* However the connection data is cut and whichever side fails, a request posted
\* with the peer's data whole finds the peer's queue pair out of INIT (or in
\* error, or gone), and a SEND finds its receive: the q exchange of connect_qp
\* does for post_send what it is there for (rdma1, connect_qp and main).
THEOREM RequestsLandAlways == Spec => []RequestsLand
<1>1. SyncInv => RequestsLand
  <2> SUFFICES ASSUME SyncInv, NEW p \in Peers, sq[p] # <<>>, remote[p] = ConData(Other(p))
               PROVE  LET q == Other(p) IN
                      /\ qp[q] \in {"RTR", "RTS", "ERR", "destroyed"}
                      /\ Head(sq[p]) = "SEND" => rq[q] > 0 \/ qp[q] = "destroyed"
    BY DEF RequestsLand
  <2>1. Knows(p)
    BY ConLength DEF Knows, ConData, Last
  <2>2. CASE p = Server
    BY <2>1, <2>2, TwoPeers DEF SyncInv, Ready
  <2>3. CASE p = Client
    <3>1. pc[Server] \in MainSteps
      BY <2>3 DEF SyncInv, Lent, Active, MainSteps
    <3>2. qp[Server] \in {"RTS", "ERR"} /\ sq[Client] \in Seq(Ops)
      BY <3>1, SyncFacts, TwoPeers DEF Place, StateOK
    <3>3. Head(sq[Client]) # "SEND"
      <4>1. 1 \in 1..Len(sq[Client]) /\ Head(sq[Client]) = sq[Client][1]
        BY <2>3, <3>2
      <4> QED  BY <4>1, SyncFacts DEF PlaceInv
    <3> QED  BY <2>3, <3>2, <3>3, TwoPeers
  <2> QED  BY <2>2, <2>3, TwoPeers
<1> QED  BY <1>1, SyncInvariant, PTL

\* While main of either side reads, writes or frees its buffer, no request that
\* touches it is outstanding on either side: the R and W exchanges hand the
\* buffer over as the comments in main intend, in the failing runs too.
THEOREM BufferSafeAlways == Spec => []BufferSafe
<1>1. SyncInv => BufferSafe
  <2> SUFFICES ASSUME SyncInv, NEW p \in Peers,
                      \/ pc[p] \in {"fill", "got_msg", "put"}
                      \/ pc[p] = "report" /\ p = Server
                      \/ buf[Server] = "freed"
               PROVE  sq[Server] = <<>> /\ sq[Client] = <<>>
    BY TwoPeers DEF BufferSafe
  <2>1. /\ CreditInv /\ pc[Server] \in ServerCalls /\ pc[Client] \in ClientCalls
        /\ Place(Server) /\ Server \in Peers /\ Client \in Peers
    BY SyncFacts, TwoPeers DEF PlaceInv
  <2>2. \/ pc[Server] \in {"fill", "report", "close", "done"}
        \/ pc[Client] \in {"got_msg", "put"}
    BY <2>1, TwoPeers DEF ServerCalls, ClientCalls, Place
  <2>3. CASE pc[Server] \in {"fill", "report", "close", "done"}
    <3>1. sq[Server] = <<>>
      BY <2>1, <2>3, CreditFacts DEF Awaiting, PollSteps
    <3>2. sq[Client] = <<>>
      BY <2>3 DEF SyncInv, Lent, Active
    <3> QED  BY <3>1, <3>2
  <2>4. CASE pc[Client] \in {"got_msg", "put"}
    <3>1. sq[Client] = <<>>
      BY <2>1, <2>4, CreditFacts DEF Awaiting, PollSteps
    <3>2. sq[Server] = <<>>
      BY <2>4 DEF SyncInv, Received, Late
    <3> QED  BY <3>1, <3>2
  <2> QED  BY <2>2, <2>3, <2>4
<1> QED  BY <1>1, SyncInvariant, PTL

\* A side whose peer has given up reads an end of file and never writes twice
\* into the closed socket, so SIGPIPE ends no program; and only a side that has
\* failed can leave its peer at an end of file (rdma1, sock_sync_data).
THEOREM GivingUpIsNoticed == Spec => []GivingUpNoticed
<1>1. SyncInv => GivingUpNoticed
  <2> SUFFICES ASSUME SyncInv, NEW p \in Peers
               PROVE  /\ pc[p] \in WriteSteps => peerEnd[p] # "finrst"
                      /\ AtEndOfStream(p) => rc[Other(p)] = 1
    BY DEF GivingUpNoticed
  <2>1. pc[p] \in WriteSteps => peerEnd[p] # "finrst"
    BY DEF SyncInv, Cut, WriteSteps, Ended
  <2>2. ASSUME AtEndOfStream(p), rc[Other(p)] # 1 PROVE FALSE
    <3>1. /\ Other(p) \in Peers /\ Other(Other(p)) = p /\ StateOK
          /\ Has(p) = Taken(p) + Len(chan[p]) /\ Taken(p) \in Nat /\ total[p] \in 0..1
      BY SyncFacts, Counts DEF Has
    <3>2. rc[Other(p)] = 0
      BY <2>2, <3>1 DEF StateOK
    <3>3. pc[p] \in ReadSteps /\ Len(chan[p]) = 0 /\ Going(p)
      BY <2>2 DEF AtEndOfStream, Going, Ended, ReadSteps
    <3>4. Has(p) >= ConLen + 3
      BY <3>1, <3>2, <3>3 DEF SyncInv, Passed
    <3>5. Taken(p) <= ConLen + 2
      BY <3>1, <3>3, ConLength DEF Taken, ReadSteps, Early
    <3> QED  BY <3>1, <3>3, <3>4, <3>5, ConLength
  <2> QED  BY <2>1, <2>2
<1> QED  BY <1>1, SyncInvariant, PTL

-----------------------------------------------------------------------------
(* The refinement of RcTransfer.  SyncInv says when a request is under way *)
(* and when it is done; what is left is which text lies in which buffer.   *)

Printed == {<<>>, <<"MSG">>, <<"MSG", "RDMAMSGR">>}

\* What each program has printed, by the place it is at.
AfterMsg  == {"r_write", "r_read", "post_read", "poll_read", "put"}
AfterRead == {"post_write", "poll_write", "w_write", "w_read", "report"}

OutOK ==
  /\ out[Client] \in Printed
  /\ pc[Client] \notin AfterMsg \cup AfterRead \cup Ended => out[Client] = <<>>
  /\ pc[Client] \in AfterMsg => out[Client] = <<"MSG">>
  /\ pc[Client] \in AfterRead => out[Client] = Promise!Goal(Client)
  /\ out[Server] \in {<<>>, Promise!Goal(Server)}
  /\ pc[Server] \notin Ended => out[Server] = <<>>
  /\ out[Server] # <<>> => out[Client] = Promise!Goal(Client)
  /\ \A p \in Peers : rc[p] = 0 => out[p] = Promise!Goal(p)

\* Which text lies where it will be printed or sent.
BeforeFill == {"con_write", "con_read", "init", "rtr", "rts", "q_write", "q_read", "post_send"}
AfterFill  == {"r_write", "r_read", "w_write", "w_read", "report"}
Arrived(p) == \E c \in Completed(p) : c.ok

ServerText ==
  /\ pc[Server] \in BeforeFill \/ sq[Server] # <<>> => buf[Server] = "MSG"
  /\ pc[Server] \in AfterFill =>
       \/ buf[Server] = "RDMAMSGR"
       \/ buf[Server] = "RDMAMSGW" /\ out[Client] = Promise!Goal(Client)
  /\ pc[Client] = "w_write" \/ (pc[Client] = "poll_write" /\ Arrived(Client))
       => buf[Server] = "RDMAMSGW"
  /\ Going(Server) /\ Straight(Server) /\ Has(Server) >= ConLen + 3
       => buf[Server] = "RDMAMSGW"

ClientText ==
  /\ pc[Client] = "got_msg" \/ (\E c \in Completed(Client) : c.op = "RECV")
       => buf[Client] = "MSG"
  /\ pc[Client] = "put" \/ (pc[Client] = "poll_read" /\ Arrived(Client))
       => buf[Client] = "RDMAMSGR"
  /\ pc[Client] = "post_write" \/ (sq[Client] # <<>> /\ Head(sq[Client]) = "WRITE")
       => buf[Client] = "RDMAMSGW" /\ out[Client] = Promise!Goal(Client)

TextInv == SyncInv /\ OutOK /\ ServerText /\ ClientText

-----------------------------------------------------------------------------
(* The steps that print or change a buffer, and all others.                *)

Quiet ==
  /\ UNCHANGED <<buf, out, rc>>
  /\ \A p \in Peers : pc[p] \in {"create", "fill", "got_msg", "put", "report", "done"} =>
                        pc'[p] \in {pc[p], "done"}

Loud(p) == \/ Execute(p) \/ ResourcesCreate(p) \/ DestroyVerbs(p) \/ Report(p)
           \/ p = Client /\ (PrintMessage(p) \/ ReplaceContents(p))
           \/ p = Server /\ SetupReadMessage(p)

LEMMA MovedOnly ==
  ASSUME pc \in [Peers -> Steps], NEW p \in Peers, NEW to, Goto(p, to), UNCHANGED <<buf, out, rc>>,
         pc[p] \in {"create", "fill", "got_msg", "put", "report", "done"} => to = "done"
  PROVE  Quiet
<1>1. \A x \in Peers : pc'[x] = pc[x] \/ (x = p /\ pc'[x] = to)
  BY DEF Goto
<1> QED  BY <1>1 DEF Quiet

LEMMA BufferMoves ==
  ASSUME PlaceInv, [Next]_vars
  PROVE  Quiet \/ \E p \in Peers : Loud(p)
<1>1. /\ pc \in [Peers -> Steps] /\ StateOK /\ Server \in Peers /\ Client \in Peers
      /\ pc[Server] \in ServerCalls /\ pc[Client] \in ClientCalls
  BY TwoPeers DEF PlaceInv, CreditInv, StateOK
<1>2. UNCHANGED <<buf, out, rc, pc>> => Quiet
  BY DEF Quiet
<1>3. CASE Establish \/ ConnectRefused \/ UNCHANGED vars
  <2>1. CASE Listen \/ Accept \/ Connect \/ ConnectRefused
    BY <1>1, <2>1, MovedOnly DEF Listen, Accept, Connect, ConnectRefused
  <2> QED  BY <1>2, <1>3, <2>1 DEF Establish, vars, prog
<1>4. ASSUME NEW p \in Peers, Program(p) \/ Failure(p) \/ Adapter(p)
      PROVE  Quiet \/ Loud(p)
  <2>1. CASE Sync(p)
    <3>1. CASE UNCHANGED <<buf, out, rc, pc>> \/ UNCHANGED vars
      BY <1>2, <3>1 DEF vars, prog
    <3>2. CASE /\ \E to : Goto(p, to)
               /\ pc[p] \in WriteSteps \cup ReadSteps /\ UNCHANGED <<buf, out, rc>>
      BY <1>1, <3>2, MovedOnly DEF WriteSteps, ReadSteps
    <3>3. SyncSpin(p) => UNCHANGED vars
      BY DEF SyncSpin
    <3>4. SyncWrite(p) \/ SyncReadFails(p) =>
            (\E to : Goto(p, to)) /\ pc[p] \in WriteSteps \cup ReadSteps /\ UNCHANGED <<buf, out, rc>>
      BY DEF SyncWrite, SyncReadFails, Continue
    <3>5. ShortWrite(p) =>
            (\E to : Goto(p, to)) /\ pc[p] \in WriteSteps \cup ReadSteps /\ UNCHANGED <<buf, out, rc>>
      BY DEF ShortWrite, WriteSteps
    <3>6. SyncRead(p) =>
            \/ UNCHANGED <<buf, out, rc, pc>>
            \/ (\E to : Goto(p, to)) /\ pc[p] \in WriteSteps \cup ReadSteps /\ UNCHANGED <<buf, out, rc>>
      BY DEF SyncRead, Continue
    <3> QED  BY <2>1, <3>1, <3>2, <3>3, <3>4, <3>5, <3>6 DEF Sync
  <2>2. CASE Verbs(p) \/ VerbsError(p)
    <3>1. /\ \E to : Goto(p, to)
          /\ pc[p] \notin {"create", "fill", "got_msg", "put", "report", "done"} /\ UNCHANGED <<buf, out, rc>>
      BY <2>2 DEF Verbs, VerbsError, ModifyQpToInit, ModifyQpToRtr, ModifyQpToRts, ModifyQp, PostReceive,
                  PostAnySend, PostSend, PollCompletion, PollTimeout, Continue, VerbsSteps, PollSteps
    <3> QED  BY <1>1, <3>1, MovedOnly
  <2>3. CASE Buffer(p)
    <3>1. p = Client \/ p = Server
      BY TwoPeers
    <3> QED  BY <1>1, <2>3, <3>1 DEF Buffer, PrintMessage, SetupReadMessage, ReplaceContents, Loud,
                ServerCalls, ClientCalls
  <2>4. CASE CloseAndReturn(p) \/ ResourcesCreateFails(p)
    BY <1>1, <2>4, MovedOnly DEF CloseAndReturn, ResourcesCreateFails
  <2>5. CASE RetryExceeded(p) \/ DeliverCompletion(p)
    BY <1>2, <2>5 DEF RetryExceeded, DeliverCompletion, prog
  <2>6. CASE Execute(p) \/ ResourcesCreate(p) \/ DestroyVerbs(p)
    BY <2>6 DEF Loud
  <2> QED  BY <1>4, <2>1, <2>2, <2>3, <2>4, <2>5, <2>6 DEF Program, Failure, Adapter, Lifetime
<1> QED  BY <1>2, <1>3, <1>4 DEF Next, Finished

-----------------------------------------------------------------------------
(* What SyncInv says where the texts are moved.                            *)

\* The W of the client reaches the server only in the last part of main.
LEMMA Counted ==
  ASSUME SyncInv, Going(Server), Straight(Server), Has(Server) >= ConLen + 3
  PROVE  /\ pc[Server] \in {"r_read", "w_write", "w_read", "report"} /\ sq[Client] = <<>>
         /\ pc[Client] \in {"w_read", "report"} \cup Ended
<1>1. sq[Client] = <<>> /\ pc[Client] \in {"w_read", "report"} \cup Ended
  BY DEF SyncInv, Third
<1>2. /\ Has(Server) \in Nat /\ Has(Client) \in Nat /\ Sent(Server) \in Nat /\ Taken(Client) \in Nat
      /\ Has(Client) >= Taken(Client) /\ Stream(Client) /\ Other(Client) = Server
      /\ Server \in Peers /\ Client \in Peers /\ pc[Server] \in ServerCalls
  BY SyncFacts, TwoPeers DEF PlaceInv
<1>3. CASE pc[Client] \in Ended
  <2>1. ~ (Has(Server) <= ConLen + 1)
    BY <1>2, ConLength
  <2> QED  BY <1>1, <1>3, <2>1 DEF SyncInv, ClientGone, Going
<1>4. CASE pc[Client] \in {"w_read", "report"}
  <2>1. Taken(Client) >= ConLen + 2 /\ Going(Client) /\ Straight(Client)
    <3>1. Knows(Client)
      BY <1>4 DEF SyncInv, Agreed, Both, Late
    <3>2. Taken(Client) \in {ConLen + 2, ConLen + 3}
      BY <1>4 DEF Taken, Early
    <3> QED  BY <1>4, <3>1, <3>2, ConLength DEF Straight, Going, Ended
  <2>2. Has(Client) <= Sent(Server)
    BY <1>2, <2>1 DEF Stream
  <2>3. Sent(Server) > ConLen + 1
    BY <1>2, <2>1, <2>2, ConLength
  <2> QED  BY <1>1, <1>2, <2>3, SentMore DEF ServerCalls
<1> QED  BY <1>1, <1>3, <1>4

\* While the client works on the buffer nothing of the server's is under way.
LEMMA LentFacts ==
  ASSUME SyncInv, Active
  PROVE  pc[Server] \in {"r_read", "w_write", "w_read"} /\ sq[Server] = <<>>
<1>1. pc[Server] \in {"r_read", "w_write", "w_read"}
  BY DEF SyncInv, Lent
<1> QED  BY <1>1, SyncFacts, TwoPeers, CreditFacts DEF Awaiting, PollSteps

\* Where the requests and completions of a side are.
LEMMA RequestFacts ==
  ASSUME SyncInv
  PROVE  /\ sq[Server] # <<>> => Tail(sq[Server]) = <<>> /\ pc[Server] \in {"poll_send", "destroy"}
         /\ sq[Client] # <<>> => /\ Tail(sq[Client]) = <<>> /\ Completed(Client) = {}
                                 /\ \/ pc[Client] = "poll_read" /\ Head(sq[Client]) = "READ"
                                    \/ pc[Client] = "poll_write" /\ Head(sq[Client]) = "WRITE"
                                    \/ pc[Client] = "destroy" /\ Head(sq[Client]) \in {"READ", "WRITE"}
         /\ \A c \in Completed(Client) :
              \/ c.op = "READ" /\ pc[Client] \in {"poll_read", "destroy"}
              \/ c.op = "WRITE" /\ pc[Client] \in {"poll_write", "destroy"}
              \/ c.op = "SEND" /\ pc[Client] = "destroy"
              \/ c.op = "RECV" /\ pc[Client] \in {"rtr", "rts", "q_write", "q_read", "poll_recv", "destroy"}
         /\ cq[Client] # <<>> => Head(cq[Client]) \in Completed(Client)
<1>1. /\ CreditInv /\ Server \in Peers /\ Client \in Peers /\ Server # Client
      /\ pc[Server] \in ServerCalls /\ pc[Client] \in ClientCalls
      /\ \A k \in 1..Len(sq[Client]) : sq[Client][k] # "SEND"
  BY SyncFacts, TwoPeers DEF PlaceInv
<1>2. ASSUME sq[Server] # <<>>
      PROVE  Tail(sq[Server]) = <<>> /\ pc[Server] \in {"poll_send", "destroy"}
  <2>1. Head(sq[Server]) \in Awaited(Server) \cap Ops /\ Tail(sq[Server]) = <<>>
    BY <1>1, <1>2, CreditFacts
  <2>2. pc[Server] \in {"poll_send", "destroy"}
    BY <1>1, <2>1 DEF Awaited, ServerCalls
  <2> QED  BY <2>1, <2>2
<1>3. ASSUME sq[Client] # <<>>
      PROVE  /\ Tail(sq[Client]) = <<>> /\ Completed(Client) = {}
             /\ \/ pc[Client] = "poll_read" /\ Head(sq[Client]) = "READ"
                \/ pc[Client] = "poll_write" /\ Head(sq[Client]) = "WRITE"
                \/ pc[Client] = "destroy" /\ Head(sq[Client]) \in {"READ", "WRITE"}
  <2>1. /\ Head(sq[Client]) \in Awaited(Client) \cap Ops /\ Tail(sq[Client]) = <<>>
        /\ Completed(Client) = {} /\ sq[Client] \in Seq(Ops)
    BY <1>1, <1>3, CreditFacts
  <2>2. Head(sq[Client]) # "SEND"
    BY <1>1, <1>3, <2>1
  <2>3. \/ pc[Client] = "poll_read" /\ Head(sq[Client]) = "READ"
        \/ pc[Client] = "poll_write" /\ Head(sq[Client]) = "WRITE"
        \/ pc[Client] = "destroy" /\ Head(sq[Client]) \in {"READ", "WRITE"}
    BY <1>1, <2>1, <2>2 DEF Awaited, ClientCalls, Ops
  <2> QED  BY <2>1, <2>3
<1>4. ASSUME NEW c \in Completed(Client)
      PROVE  \/ c.op = "READ" /\ pc[Client] \in {"poll_read", "destroy"}
             \/ c.op = "WRITE" /\ pc[Client] \in {"poll_write", "destroy"}
             \/ c.op = "SEND" /\ pc[Client] = "destroy"
             \/ c.op = "RECV" /\ pc[Client] \in {"rtr", "rts", "q_write", "q_read", "poll_recv", "destroy"}
  <2>1. c.op \in Awaited(Client)
    BY <1>1, CreditFacts
  <2> QED  BY <1>1, <2>1 DEF Awaited, ClientCalls, Ops
<1> QED  BY <1>1, <1>2, <1>3, <1>4, CreditFacts

-----------------------------------------------------------------------------
(* Steps that neither print nor change a buffer.                           *)

LEMMA AppendPair == ASSUME NEW S, NEW a \in S, NEW b \in S PROVE Append(<<a>>, b) = <<a, b>>
<1>1. <<a>> \in Seq(S) /\ Len(<<a>>) = 1
  OBVIOUS
<1>2. Append(<<a>>, b) \in Seq(S) /\ Len(Append(<<a>>, b)) = 2
  BY <1>1
<1>3. <<a, b>> \in Seq(S) /\ Len(<<a, b>>) = 2
  OBVIOUS
<1>4. \A i \in 1..2 : Append(<<a>>, b)[i] = <<a, b>>[i]
  <2>1. Append(<<a>>, b)[1] = a /\ Append(<<a>>, b)[2] = b
    BY <1>1
  <2>2. <<a, b>>[1] = a /\ <<a, b>>[2] = b
    OBVIOUS
  <2>3. \A i \in 1..2 : i = 1 \/ i = 2
    OBVIOUS
  <2> QED  BY <2>1, <2>2, <2>3
<1> QED  BY <1>2, <1>3, <1>4, SeqEqual

LEMMA Goals == /\ Promise!Goal(Client) = <<"MSG", "RDMAMSGR">>
               /\ Promise!Goal(Server) = <<"RDMAMSGW">>
               /\ Promise!Goal(Client) \notin {<<>>, <<"MSG">>}
<1>1. Promise!Goal(Client) = <<"MSG", "RDMAMSGR">> /\ Promise!Goal(Server) = <<"RDMAMSGW">>
  BY TwoPeers DEF Promise!Goal
<1>2. <<"MSG", "RDMAMSGR">> # <<>> /\ <<"MSG", "RDMAMSGR">> # <<"MSG">>
  OBVIOUS
<1> QED  BY <1>1, <1>2

\* Where the programs go without printing.
LEMMA QuietMoves ==
  ASSUME PlaceInv, [Next]_vars, Quiet
  PROVE  /\ pc'[Client] \notin AfterMsg \cup AfterRead \cup Ended =>
              pc[Client] \notin AfterMsg \cup AfterRead \cup Ended
         /\ pc'[Client] \in AfterMsg => pc[Client] \in AfterMsg
         /\ pc'[Client] \in AfterRead => pc[Client] \in AfterRead
         /\ pc'[Server] \in BeforeFill => pc[Server] \in BeforeFill
         /\ pc'[Server] \in AfterFill => pc[Server] \in AfterFill
         /\ pc'[Client] \in {"got_msg", "put", "post_write", "w_write", "poll_read", "poll_write"} =>
              \/ pc[Client] = pc'[Client]
              \/ /\ \/ pc[Client] = "poll_recv"  /\ pc'[Client] = "got_msg"
                    \/ pc[Client] = "poll_read"  /\ pc'[Client] = "put"
                    \/ pc[Client] = "poll_write" /\ pc'[Client] = "w_write"
                 /\ cq[Client] # <<>> /\ Head(cq[Client]).ok
              \/ pc[Client] = "post_read" /\ pc'[Client] = "poll_read"
              \/ pc[Client] = "post_write" /\ pc'[Client] = "poll_write"
<1>1. /\ Server \in Peers /\ Client \in Peers /\ Server # Client
      /\ pc[Server] \in ServerCalls /\ pc[Client] \in ClientCalls
  BY TwoPeers DEF PlaceInv
<1>2. \A r \in Peers : pc'[r] = pc[r] \/ Go(r)
  BY OwnMove
<1>3. ASSUME pc'[Client] # pc[Client], pc'[Client] \notin Ended
      PROVE  \/ /\ pc[Client] \in {"start", "accept", "create", "con_write"}
                /\ pc'[Client] \in {"accept", "create", "con_write", "init"}
             \/ /\ pc[Client] \in Body \ {"got_msg", "put", "report"}
                /\ pc'[Client] = Follow(Client, pc[Client])
                /\ pc[Client] \in PollSteps => cq[Client] # <<>> /\ Head(cq[Client]).ok
  BY <1>1, <1>2, <1>3 DEF Go, Quiet, Ended
<1>4. ASSUME pc'[Server] # pc[Server], pc'[Server] \notin Ended
      PROVE  \/ /\ pc[Server] \in {"start", "accept", "con_write"}
                /\ pc'[Server] \in {"accept", "create", "init"}
             \/ /\ pc[Server] \in Body \ {"fill", "report"}
                /\ pc'[Server] = Follow(Server, pc[Server])
  BY <1>1, <1>2, <1>4 DEF Go, Quiet, Ended
<1>5. ASSUME pc[Client] \in Body \ {"got_msg", "put", "report"}, pc'[Client] = Follow(Client, pc[Client])
      PROVE  \/ pc[Client] \notin AfterMsg \cup AfterRead /\ pc'[Client] \notin AfterMsg \cup AfterRead
             \/ pc[Client] \in AfterMsg /\ pc'[Client] \in AfterMsg
             \/ pc[Client] \in AfterRead /\ pc'[Client] \in AfterRead
  BY <1>1, <1>5 DEF Body, Follow, ConnectQp, Main, ConnectSteps, MainSteps, AfterMsg, AfterRead, ClientCalls
<1>6. ASSUME pc[Server] \in Body \ {"fill", "report"}, pc'[Server] = Follow(Server, pc[Server])
      PROVE  /\ pc'[Server] \in BeforeFill => pc[Server] \in BeforeFill
             /\ pc'[Server] \in AfterFill => pc[Server] \in AfterFill
  BY <1>1, <1>6 DEF Body, Follow, ConnectQp, Main, ConnectSteps, MainSteps, BeforeFill, AfterFill, ServerCalls
<1>7. ASSUME pc[Client] \in Body \ {"got_msg", "put", "report"}, pc'[Client] = Follow(Client, pc[Client])
      PROVE  /\ pc'[Client] = "got_msg" => pc[Client] = "poll_recv"
             /\ pc'[Client] = "put" => pc[Client] = "poll_read"
             /\ pc'[Client] # "post_write"
             /\ pc'[Client] = "w_write" => pc[Client] = "poll_write"
             /\ pc'[Client] = "poll_read" => pc[Client] = "post_read"
             /\ pc'[Client] = "poll_write" => pc[Client] = "post_write"
  BY <1>1, <1>7 DEF Body, Follow, ConnectQp, Main, ConnectSteps, MainSteps, ClientCalls
<1>8. /\ pc'[Client] \notin AfterMsg \cup AfterRead \cup Ended =>
           pc[Client] \notin AfterMsg \cup AfterRead \cup Ended
      /\ pc'[Client] \in AfterMsg => pc[Client] \in AfterMsg
      /\ pc'[Client] \in AfterRead => pc[Client] \in AfterRead
  <2>1. pc[Client] \in Ended => pc'[Client] \in Ended
    BY <1>1, Forward
  <2> QED  BY <1>3, <1>5, <2>1 DEF AfterMsg, AfterRead, Ended, Body, ConnectSteps, MainSteps
<1>9. /\ pc'[Server] \in BeforeFill => pc[Server] \in BeforeFill
      /\ pc'[Server] \in AfterFill => pc[Server] \in AfterFill
  <2>1. CASE pc'[Server] = pc[Server]
    BY <2>1
  <2>2. CASE pc'[Server] \in Ended
    BY <2>2 DEF BeforeFill, AfterFill, Ended
  <2>3. CASE /\ pc[Server] \in {"start", "accept", "con_write"}
             /\ pc'[Server] \in {"accept", "create", "init"}
    <3>1. pc[Server] = "con_write" \/ pc'[Server] # "init"
      BY <1>1, <1>2, <2>3 DEF Go, Body, ConnectSteps, MainSteps, Ended, Follow, ConnectQp
    <3> QED  BY <2>3, <3>1 DEF BeforeFill, AfterFill
  <2> QED  BY <1>4, <1>6, <2>1, <2>2, <2>3
<1>10. pc'[Client] \in {"got_msg", "put", "post_write", "w_write", "poll_read", "poll_write"} =>
              \/ pc[Client] = pc'[Client]
              \/ /\ \/ pc[Client] = "poll_recv"  /\ pc'[Client] = "got_msg"
                    \/ pc[Client] = "poll_read"  /\ pc'[Client] = "put"
                    \/ pc[Client] = "poll_write" /\ pc'[Client] = "w_write"
                 /\ cq[Client] # <<>> /\ Head(cq[Client]).ok
              \/ pc[Client] = "post_read" /\ pc'[Client] = "poll_read"
              \/ pc[Client] = "post_write" /\ pc'[Client] = "poll_write"
  BY <1>3, <1>7 DEF Ended, PollSteps
<1> QED  BY <1>8, <1>9, <1>10

LEMMA QuietOut == ASSUME TextInv, [Next]_vars, Quiet PROVE OutOK'
<1>1. PlaceInv /\ StateOK /\ Server \in Peers /\ Client \in Peers /\ out' = out
  BY SyncFacts, TwoPeers DEF TextInv, Quiet
<1>2. pc'[Server] \notin Ended => pc[Server] \notin Ended
  BY <1>1, Forward
<1>3. rc' = rc
  BY DEF Quiet
<1> QED  BY <1>1, <1>2, <1>3, QuietMoves DEF TextInv, OutOK

LEMMA QuietServer ==
  ASSUME TextInv, SyncInv', [Next]_vars, Quiet, \A p \in Peers : ~ Execute(p)
  PROVE  ServerText'
<1>1. /\ SyncInv /\ SyncInv' /\ PlaceInv /\ CreditInv /\ StreamInv /\ StateOK /\ StreamInv'
      /\ Server \in Peers /\ Client \in Peers /\ Other(Server) = Client /\ Other(Client) = Server
      /\ buf' = buf /\ out' = out /\ pc[Server] \in ServerCalls /\ Has(Server) \in Nat
  BY SyncFacts, TwoPeers DEF TextInv, Quiet, PlaceInv, SyncInv
<1>2. ASSUME pc'[Server] \in BeforeFill \/ sq'[Server] # <<>> PROVE buf[Server] = "MSG"
  <2>1. \/ sq'[Server] = sq[Server] \/ sq'[Server] = <<>> \/ pc[Server] = "post_send"
    BY <1>1, SqMoves DEF ServerCalls
  <2> QED  BY <1>1, <1>2, <2>1, QuietMoves DEF TextInv, ServerText, BeforeFill
<1>3. ASSUME pc'[Server] \in AfterFill
      PROVE  \/ buf[Server] = "RDMAMSGR"
             \/ buf[Server] = "RDMAMSGW" /\ out[Client] = Promise!Goal(Client)
  BY <1>1, <1>3, QuietMoves DEF TextInv, ServerText
<1>4. ASSUME pc'[Client] = "w_write" PROVE buf[Server] = "RDMAMSGW"
  <2>1. pc[Client] = "w_write" \/ (pc[Client] = "poll_write" /\ Arrived(Client))
    BY <1>1, <1>4, QuietMoves, RequestFacts DEF Arrived
  <2> QED  BY <2>1 DEF TextInv, ServerText
<1>5. ASSUME pc'[Client] = "poll_write", Arrived(Client)' PROVE buf[Server] = "RDMAMSGW"
  <2>1. PICK c \in Completed(Client)' : c.ok
    BY <1>5 DEF Arrived
  <2>2. c \in Completed(Client)
    BY <1>1, <2>1, CompletedMoves
  <2>3. pc[Client] # "post_write"
    BY <1>1, <2>2, RequestFacts
  <2>4. pc[Client] = "poll_write" /\ Arrived(Client)
    BY <1>1, <1>5, <2>1, <2>2, <2>3, QuietMoves DEF Arrived
  <2> QED  BY <2>4 DEF TextInv, ServerText
<1>6. ASSUME Going(Server)', Straight(Server)', Has(Server)' >= ConLen + 3 PROVE buf[Server] = "RDMAMSGW"
  <2>1. Has(Server)' \in Nat
    BY <1>1, CountsNext
  <2>2. CASE Going(Server) /\ Straight(Server) /\ Has(Server)' <= Has(Server)
    <3>1. Has(Server) >= ConLen + 3
      BY <1>1, <1>6, <2>1, <2>2, ConLength
    <3> QED  BY <2>2, <3>1 DEF TextInv, ServerText
  <2>3. CASE SyncWrite(Client) /\ Continue(Client)
    <3>1. pc[Client] = "w_write"
      BY <1>1, <1>6, <2>3, LastWrite
    <3> QED  BY <3>1 DEF TextInv, ServerText
  <2>4. ~ (Has(Server)' <= ConLen)
    BY <1>6, <2>1, ConLength
  <2> QED  BY <1>1, <1>6, <2>2, <2>3, <2>4, Flow
<1> QED  BY <1>1, <1>2, <1>3, <1>4, <1>5, <1>6 DEF ServerText

LEMMA QuietClient ==
  ASSUME TextInv, SyncInv', [Next]_vars, Quiet, \A p \in Peers : ~ Execute(p)
  PROVE  ClientText'
<1>1. /\ SyncInv /\ SyncInv' /\ PlaceInv /\ CreditInv /\ StateOK
      /\ Server \in Peers /\ Client \in Peers /\ Other(Client) = Server /\ Server # Client
      /\ buf' = buf /\ out' = out /\ pc[Client] \in ClientCalls
  BY SyncFacts, TwoPeers DEF TextInv, Quiet, PlaceInv, SyncInv
<1>2. ASSUME NEW c \in Completed(Client)', c.ok \/ c.op = "RECV" PROVE c \in Completed(Client)
  <2>1. CASE c.ok
    BY <1>1, <1>2, <2>1, CompletedMoves
  <2>2. CASE c.op = "RECV"
    <3>1. sq[Client] # <<>> => Head(sq[Client]) # "RECV"
      BY <1>1, RequestFacts
    <3> QED  BY <1>1, <2>2, <3>1, CompletedMoves
  <2> QED  BY <1>2, <2>1, <2>2
<1>3. ASSUME pc'[Client] = "got_msg" PROVE buf[Client] = "MSG"
  <2>1. \/ pc[Client] = "got_msg"
        \/ pc[Client] = "poll_recv" /\ cq[Client] # <<>> /\ Head(cq[Client]) \in Completed(Client)
    BY <1>1, <1>3, QuietMoves, RequestFacts
  <2>2. pc[Client] = "got_msg" \/ \E c \in Completed(Client) : c.op = "RECV"
    BY <1>1, <2>1, RequestFacts
  <2> QED  BY <2>2 DEF TextInv, ClientText
<1>4. ASSUME NEW c \in Completed(Client)', c.op = "RECV" PROVE buf[Client] = "MSG"
  <2>1. c \in Completed(Client)
    BY <1>2, <1>4
  <2> QED  BY <1>4, <2>1 DEF TextInv, ClientText
<1>5. ASSUME pc'[Client] = "put" PROVE buf[Client] = "RDMAMSGR"
  <2>1. pc[Client] = "put" \/ (pc[Client] = "poll_read" /\ Arrived(Client))
    BY <1>1, <1>5, QuietMoves, RequestFacts DEF Arrived
  <2> QED  BY <2>1 DEF TextInv, ClientText
<1>6. ASSUME pc'[Client] = "poll_read", Arrived(Client)' PROVE buf[Client] = "RDMAMSGR"
  <2>1. PICK c \in Completed(Client)' : c.ok
    BY <1>6 DEF Arrived
  <2>2. c \in Completed(Client)
    BY <1>2, <2>1
  <2>3. pc[Client] # "post_read"
    BY <1>1, <2>2, RequestFacts
  <2>4. pc[Client] = "poll_read" /\ Arrived(Client)
    BY <1>1, <1>6, <2>1, <2>2, <2>3, QuietMoves DEF Arrived
  <2> QED  BY <2>4 DEF TextInv, ClientText
<1>7. ASSUME pc'[Client] = "post_write" \/ (sq'[Client] # <<>> /\ Head(sq'[Client]) = "WRITE")
      PROVE  buf[Client] = "RDMAMSGW" /\ out[Client] = Promise!Goal(Client)
  <2>1. CASE pc'[Client] = "post_write"
    <3>1. pc[Client] = "post_write"
      BY <1>1, <2>1, QuietMoves
    <3> QED  BY <3>1 DEF TextInv, ClientText
  <2>2. CASE sq'[Client] = sq[Client] /\ sq[Client] # <<>> /\ Head(sq[Client]) = "WRITE"
    BY <2>2 DEF TextInv, ClientText
  <2>3. CASE sq'[Client] # <<>> /\ Head(sq'[Client]) = "WRITE" /\ PostAnySend(Client)
    <3>1. pc[Client] \in {"post_send", "post_read", "post_write"}
      BY <2>3 DEF PostAnySend, PostSend
    <3>2. sq[Client] = <<>>
      BY <1>1, <3>1, RequestFacts
    <3>3. ASSUME NEW op, sq'[Client] = Append(<<>>, op) PROVE Head(sq'[Client]) = op
      BY <3>3
    <3>4. pc[Client] = "post_write"
      BY <1>1, <2>3, <3>2, <3>3 DEF PostAnySend, PostSend, StateOK
    <3> QED  BY <3>4 DEF TextInv, ClientText
  <2> QED  BY <1>1, <1>7, <2>1, <2>2, <2>3, SqMoves
<1> QED  BY <1>1, <1>3, <1>4, <1>5, <1>6, <1>7 DEF ClientText

-----------------------------------------------------------------------------
(* The steps that print or change a buffer, one by one.                    *)

\* The facts every case below starts from.
LEMMA TextFacts ==
  ASSUME TextInv
  PROVE  /\ SyncInv /\ StreamInv /\ PlaceInv /\ CreditInv /\ StateOK
         /\ Server \in Peers /\ Client \in Peers /\ Server # Client
         /\ Other(Server) = Client /\ Other(Client) = Server
         /\ \A p \in Peers : p = Server \/ p = Client
         /\ pc[Server] \in ServerCalls /\ pc[Client] \in ClientCalls
         /\ OutOK /\ ServerText /\ ClientText
BY SyncFacts, TwoPeers DEF TextInv, PlaceInv

LEMMA TextTypes ==
  ASSUME TextInv
  PROVE  /\ pc \in [Peers -> Steps] /\ rc \in [Peers -> {0, 1}] /\ out \in [Peers -> Seq(Contents)]
         /\ buf \in [Peers -> Contents] /\ sq \in [Peers -> Seq(Ops)]
         /\ Server \in Peers /\ Client \in Peers /\ Server # Client
BY TextFacts DEF StateOK

\* Only the client's last write makes the count complete.
LEMMA CountedBefore ==
  ASSUME TextInv, [Next]_vars, Going(Server)', Straight(Server)', Has(Server)' >= ConLen + 3,
         pc[Client] # "w_write" \/ pc'[Client] = pc[Client]
  PROVE  Going(Server) /\ Straight(Server) /\ Has(Server) >= ConLen + 3
<1>1. SyncInv /\ StreamInv /\ StreamInv' /\ StateOK /\ Server \in Peers /\ Other(Server) = Client
  BY TextFacts, NextStream
<1>2. Has(Server)' \in Nat /\ Has(Server) \in Nat
  BY <1>1, CountsNext, SyncFacts
<1>3. ~ (SyncWrite(Client) /\ Continue(Client))
  <2> SUFFICES ASSUME SyncWrite(Client), Continue(Client) PROVE FALSE
    OBVIOUS
  <2>1. pc[Client] = "w_write" /\ pc'[Client] = "w_read"
    BY <1>1, LastWrite
  <2> QED  BY <2>1
<1>4. ~ (Has(Server)' <= ConLen)
  BY <1>2, ConLength
<1>5. Going(Server) /\ Straight(Server) /\ Has(Server)' <= Has(Server)
  BY <1>1, <1>3, <1>4, Flow
<1> QED  BY <1>2, <1>5, ConLength

LEMMA CreateText ==
  ASSUME TextInv, [Next]_vars, NEW p \in Peers, ResourcesCreate(p)
  PROVE  OutOK' /\ ServerText' /\ ClientText'
<1>1. /\ pc[p] = "create" /\ pc'[p] = "con_write" /\ out' = out /\ rc' = rc /\ sq' = sq
      /\ buf'[p] = (IF p = Server THEN "MSG" ELSE "zero")
      /\ \A r \in Peers : r # p => pc'[r] = pc[r] /\ buf'[r] = buf[r]
  BY TextFacts DEF ResourcesCreate, Goto, StateOK
<1>2. \A r \in Peers : Completed(r)' = Completed(r)
  BY DEF ResourcesCreate, Completed
<1>3. OutOK'
  BY <1>1, TextFacts DEF OutOK, AfterMsg, AfterRead, Ended
<1>4. pc[Client] # "w_write" \/ pc'[Client] = pc[Client]
  BY <1>1, TextFacts
<1>5. CASE p = Server
  <2>1. ~ (pc'[Client] = "w_write" \/ pc'[Client] = "poll_write")
    BY <1>1, <1>5, TextFacts, LentFacts DEF Active
  <2>2. ~ (Going(Server)' /\ Straight(Server)' /\ Has(Server)' >= ConLen + 3)
    BY <1>1, <1>4, <1>5, TextFacts, CountedBefore, Counted
  <2>3. ServerText'
    BY <1>1, <1>5, <2>1, <2>2 DEF ServerText, AfterFill
  <2>4. ClientText'
    BY <1>1, <1>2, <1>5, TextFacts DEF ClientText, Arrived
  <2> QED  BY <1>3, <2>3, <2>4
<1>6. CASE p = Client
  <2>1. Going(Server)' /\ Straight(Server)' /\ Has(Server)' >= ConLen + 3 => buf[Server] = "RDMAMSGW"
    BY <1>4, TextFacts, CountedBefore DEF ServerText
  <2>2. ServerText'
    BY <1>1, <1>6, <2>1, TextFacts DEF ServerText
  <2>3. sq[Client] = <<>> /\ \A c \in Completed(Client) : c.op # "RECV"
    BY <1>1, <1>6, TextFacts, RequestFacts
  <2>4. ClientText'
    BY <1>1, <1>2, <1>6, <2>3, TextFacts DEF ClientText
  <2> QED  BY <1>3, <2>2, <2>4
<1> QED  BY <1>5, <1>6, TextFacts

LEMMA DestroyText ==
  ASSUME TextInv, [Next]_vars, NEW p \in Peers, DestroyVerbs(p)
  PROVE  OutOK' /\ ServerText' /\ ClientText'
<1>1. /\ pc[p] = "destroy" /\ pc'[p] = "close" /\ out' = out /\ rc'[p] \in {rc[p], 1}
      /\ sq'[p] = <<>> /\ cq'[p] = <<>> /\ pend'[p] = <<>>
      /\ \A r \in Peers : r # p => /\ pc'[r] = pc[r] /\ buf'[r] = buf[r] /\ sq'[r] = sq[r]
                                   /\ cq'[r] = cq[r] /\ pend'[r] = pend[r] /\ rc'[r] = rc[r]
  BY TextFacts DEF DestroyVerbs, Goto, StateOK
<1>2. /\ Completed(p)' = {}
      /\ \A r \in Peers : r # p => Completed(r)' = Completed(r)
  BY <1>1 DEF Completed
<1>3. OutOK'
  <2>1. \A r \in Peers : rc'[r] = 0 => rc[r] = 0
    BY <1>1
  <2> QED  BY <1>1, <2>1, TextFacts DEF OutOK, AfterMsg, AfterRead, Ended
<1>4. pc[Client] # "w_write" \/ pc'[Client] = pc[Client]
  BY <1>1, TextFacts
<1>5. CASE p = Server
  <2>1. ~ (pc'[Client] = "w_write" \/ pc'[Client] = "poll_write")
    BY <1>1, <1>5, TextFacts, LentFacts DEF Active
  <2>2. ~ Going(Server)'
    BY <1>1, <1>5 DEF Going, Ended
  <2>3. ServerText'
    BY <1>1, <1>5, <2>1, <2>2 DEF ServerText, AfterFill, BeforeFill
  <2>4. ClientText'
    BY <1>1, <1>2, <1>5, TextFacts DEF ClientText, Arrived
  <2> QED  BY <1>3, <2>3, <2>4
<1>6. CASE p = Client
  <2>1. Going(Server)' /\ Straight(Server)' /\ Has(Server)' >= ConLen + 3 => buf[Server] = "RDMAMSGW"
    BY <1>4, TextFacts, CountedBefore DEF ServerText
  <2>2. ServerText'
    BY <1>1, <1>6, <2>1, TextFacts DEF ServerText
  <2>3. ClientText'
    BY <1>1, <1>2, <1>6 DEF ClientText
  <2> QED  BY <1>3, <2>2, <2>3
<1> QED  BY <1>5, <1>6, TextFacts

LEMMA FillText ==
  ASSUME TextInv, [Next]_vars, SetupReadMessage(Server)
  PROVE  OutOK' /\ ServerText' /\ ClientText'
<1>1. /\ pc[Server] = "fill" /\ pc'[Server] = "r_write" /\ pc'[Client] = pc[Client]
      /\ out' = out /\ rc' = rc /\ sq' = sq
      /\ buf'[Server] = "RDMAMSGR" /\ buf'[Client] = buf[Client]
  <2>1. Follow(Server, "fill") = "r_write"
    BY DEF Follow, Main, ConnectSteps
  <2> QED  BY <2>1, TextTypes DEF SetupReadMessage, Continue, Goto, nic
<1>2. \A r \in Peers : Completed(r)' = Completed(r)
  BY DEF SetupReadMessage, nic, Completed
<1>3. OutOK'
  BY <1>1, TextFacts DEF OutOK, Ended
<1>4. ~ (pc'[Client] = "w_write" \/ pc'[Client] = "poll_write")
  BY <1>1, TextFacts, LentFacts DEF Active
<1>5. ~ (Going(Server)' /\ Straight(Server)' /\ Has(Server)' >= ConLen + 3)
  BY <1>1, TextFacts, CountedBefore, Counted
<1>6. sq[Server] = <<>>
  BY <1>1, TextFacts, RequestFacts
<1>7. ServerText'
  BY <1>1, <1>4, <1>5, <1>6 DEF ServerText, BeforeFill
<1>8. ClientText'
  BY <1>1, <1>2, TextFacts DEF ClientText, Arrived
<1> QED  BY <1>3, <1>7, <1>8

LEMMA PrintText ==
  ASSUME TextInv, [Next]_vars, PrintMessage(Client)
  PROVE  /\ OutOK' /\ ServerText' /\ ClientText'
         /\ out[Client] = <<>> /\ out' = [out EXCEPT ![Client] = <<"MSG">>]
<1>1. /\ pc[Client] = "got_msg" /\ pc'[Client] = "r_write" /\ pc'[Server] = pc[Server]
      /\ out' = [out EXCEPT ![Client] = Append(@, buf[Client])] /\ rc' = rc /\ sq' = sq /\ buf' = buf
  <2>1. Follow(Client, "got_msg") = "r_write"
    BY DEF Follow, Main, ConnectSteps
  <2> QED  BY <2>1, TextTypes DEF PrintMessage, Show, Continue, Goto, nic
<1>2. \A r \in Peers : Completed(r)' = Completed(r)
  BY DEF PrintMessage, nic, Completed
<1>3. /\ out[Client] = <<>> /\ buf[Client] = "MSG" /\ out[Client] # Promise!Goal(Client)
      /\ out \in [Peers -> Seq(Contents)]
  BY <1>1, TextFacts, Goals DEF OutOK, ClientText, AfterMsg, AfterRead, Ended, StateOK
<1>4. out'[Client] = <<"MSG">> /\ out'[Server] = out[Server]
  BY <1>1, <1>3, TextFacts
<1>5. out[Server] = <<>> /\ rc[Client] # 0
  BY <1>3, TextFacts DEF OutOK
<1>6. OutOK'
  <2>1. \A r \in Peers : rc'[r] = 0 => r = Server
    BY <1>1, <1>5, TextFacts
  <2> QED  BY <1>1, <1>4, <1>5, <2>1, TextFacts DEF OutOK, AfterMsg, AfterRead, Ended, Printed
<1>7. Going(Server)' /\ Straight(Server)' /\ Has(Server)' >= ConLen + 3 => buf[Server] = "RDMAMSGW"
  BY <1>1, TextFacts, CountedBefore DEF ServerText
<1>8. ServerText'
  BY <1>1, <1>3, <1>7, TextFacts DEF ServerText
<1>9. ClientText'
  BY <1>1, <1>2, <1>3, TextFacts, RequestFacts DEF ClientText
<1> QED  BY <1>1, <1>3, <1>6, <1>8, <1>9

LEMMA ReplaceText ==
  ASSUME TextInv, [Next]_vars, ReplaceContents(Client)
  PROVE  /\ OutOK' /\ ServerText' /\ ClientText'
         /\ out[Client] = <<"MSG">> /\ out' = [out EXCEPT ![Client] = Promise!Goal(Client)]
<1>1. /\ pc[Client] = "put" /\ pc'[Client] = "post_write" /\ pc'[Server] = pc[Server]
      /\ out' = [out EXCEPT ![Client] = Append(@, buf[Client])] /\ rc' = rc /\ sq' = sq
      /\ buf'[Server] = buf[Server] /\ buf'[Client] = "RDMAMSGW"
  <2>1. Follow(Client, "put") = "post_write"
    BY DEF Follow, Main, ConnectSteps
  <2> QED  BY <2>1, TextTypes DEF ReplaceContents, Show, Continue, Goto, nic
<1>2. \A r \in Peers : Completed(r)' = Completed(r)
  BY DEF ReplaceContents, nic, Completed
<1>3. /\ out[Client] = <<"MSG">> /\ buf[Client] = "RDMAMSGR" /\ out[Client] # Promise!Goal(Client)
      /\ out \in [Peers -> Seq(Contents)]
  BY <1>1, TextFacts, Goals DEF OutOK, ClientText, AfterMsg, StateOK
<1>4. /\ out' = [out EXCEPT ![Client] = Promise!Goal(Client)]
      /\ out'[Client] = Promise!Goal(Client) /\ out'[Server] = out[Server]
  <2>1. Append(<<"MSG">>, "RDMAMSGR") = Promise!Goal(Client)
    <3>1. Append(<<"MSG">>, "RDMAMSGR") = <<"MSG", "RDMAMSGR">>
      BY AppendPair, "MSG" \in {"MSG", "RDMAMSGR"}, "RDMAMSGR" \in {"MSG", "RDMAMSGR"}
    <3> QED  BY <3>1, Goals
  <2> QED  BY <1>1, <1>3, <2>1, TextFacts
<1>5. out[Server] = <<>> /\ rc[Client] # 0
  BY <1>3, TextFacts DEF OutOK
<1>6. OutOK'
  BY <1>1, <1>4, <1>5, TextFacts, Goals DEF OutOK, AfterMsg, AfterRead, Ended, Printed
<1>7. Going(Server)' /\ Straight(Server)' /\ Has(Server)' >= ConLen + 3 => buf[Server] = "RDMAMSGW"
  BY <1>1, TextFacts, CountedBefore DEF ServerText
<1>8. ServerText'
  BY <1>1, <1>3, <1>4, <1>7, TextFacts DEF ServerText
<1>9. ClientText'
  BY <1>1, <1>2, <1>4, TextFacts, RequestFacts DEF ClientText
<1> QED  BY <1>3, <1>4, <1>6, <1>8, <1>9

LEMMA ReportText ==
  ASSUME TextInv, [Next]_vars, NEW p \in Peers, Report(p)
  PROVE  /\ OutOK' /\ ServerText' /\ ClientText'
         /\ \/ out' = out
            \/ /\ p = Server /\ out[Server] = <<>> /\ out[Client] = Promise!Goal(Client)
               /\ out' = [out EXCEPT ![Server] = Promise!Goal(Server)]
<1>1. /\ pc[p] = "report" /\ pc'[p] = "destroy" /\ rc'[p] = 0 /\ sq' = sq /\ buf' = buf
      /\ out' = (IF p = Server THEN [out EXCEPT ![p] = Append(@, buf[p])] ELSE out)
      /\ \A r \in Peers : r # p => pc'[r] = pc[r] /\ rc'[r] = rc[r]
  <2>1. Follow(p, "report") = "destroy"
    BY DEF Follow, Main, ConnectSteps
  <2> QED  BY <2>1, TextTypes DEF Report, Show, Continue, Goto, nic
<1>2. \A r \in Peers : Completed(r)' = Completed(r)
  BY DEF Report, nic, Completed
<1>3. out \in [Peers -> Seq(Contents)]
  BY TextFacts DEF StateOK
<1>4. pc[Client] # "w_write" \/ pc'[Client] = pc[Client]
  BY <1>1, TextFacts
<1>5. Going(Server)' /\ Straight(Server)' /\ Has(Server)' >= ConLen + 3 => buf[Server] = "RDMAMSGW"
  BY <1>4, TextFacts, CountedBefore DEF ServerText
<1>6. CASE p = Server
  <2>1. Going(Server) /\ Straight(Server) /\ Has(Server) >= ConLen + 3
    <3>1. Going(Server) /\ Straight(Server)
      BY <1>1, <1>6, TextFacts DEF Going, Ended, SyncInv, Agreed, Both, Straight
    <3>2. Taken(Server) = ConLen + 3
      BY <1>1, <1>6 DEF Taken, Early
    <3>3. Has(Server) >= Taken(Server)
      BY TextFacts, SyncFacts
    <3> QED  BY <3>1, <3>2, <3>3
  <2>2. buf[Server] = "RDMAMSGW"
    BY <2>1, TextFacts DEF ServerText
  <2>3. out[Server] = <<>> /\ out[Client] = Promise!Goal(Client)
    BY <1>1, <1>6, <2>2, TextFacts DEF ServerText, OutOK, AfterFill, Ended
  <2>4. /\ out' = [out EXCEPT ![Server] = Promise!Goal(Server)]
        /\ out'[Client] = out[Client] /\ out'[Server] = Promise!Goal(Server)
    <3>1. Append(<<>>, "RDMAMSGW") = Promise!Goal(Server)
      BY Goals
    <3> QED  BY <1>1, <1>3, <1>6, <2>2, <2>3, <3>1, TextFacts
  <2>5. OutOK'
    BY <1>1, <1>6, <2>3, <2>4, TextFacts DEF OutOK, Ended
  <2>6. ~ Going(Server)' /\ pc'[Server] \notin BeforeFill \cup AfterFill
    BY <1>1, <1>6 DEF Going, Ended, BeforeFill, AfterFill
  <2>7. ServerText'
    BY <1>1, <1>2, <1>6, <2>2, <2>3, <2>4, <2>6, TextFacts DEF ServerText, Arrived
  <2>8. ClientText'
    BY <1>1, <1>2, <1>6, <2>4, TextFacts DEF ClientText, Arrived
  <2> QED  BY <1>6, <2>3, <2>4, <2>5, <2>7, <2>8
<1>7. CASE p = Client
  <2>1. out' = out /\ out[Client] = Promise!Goal(Client)
    BY <1>1, <1>7, TextFacts DEF OutOK, AfterRead
  <2>2. OutOK'
    BY <1>1, <1>7, <2>1, TextFacts DEF OutOK, AfterMsg, AfterRead, Ended
  <2>3. ServerText'
    BY <1>1, <1>5, <1>7, <2>1, TextFacts DEF ServerText
  <2>4. ClientText'
    BY <1>1, <1>2, <1>7, <2>1, TextFacts DEF ClientText
  <2> QED  BY <2>1, <2>2, <2>3, <2>4
<1> QED  BY <1>6, <1>7, TextFacts

\* What the execution of a request does to the buffers and to the completions.
LEMMA ExecuteEffect ==
  ASSUME TextInv, [Next]_vars, NEW p \in Peers, Execute(p)
  PROVE  /\ UNCHANGED <<pc, out, rc, chan, remote, total>> /\ sq[p] # <<>> /\ sq'[p] = Tail(sq[p])
         /\ sq'[Other(p)] = sq[Other(p)]
         /\ buf' = buf \/ buf' = Transfer(p, Head(sq[p]))
         /\ Head(sq[p]) \in Ops
<1>1. sq[p] # <<>> /\ sq[p] \in Seq(Ops)
  BY TextFacts DEF Execute, StateOK
<1>2. Head(sq[p]) \in Ops
  BY <1>1
<1>3. Other(p) \in Peers /\ Other(p) # p
  BY TwoPeers
<1>4. /\ UNCHANGED <<pc, out, rc, chan, remote, total>>
      /\ sq' = [sq EXCEPT ![p] = Tail(@)]
  BY DEF Execute, prog, tcp
<1>5. buf' = buf \/ buf' = Transfer(p, Head(sq[p]))
  BY DEF Execute
<1> QED  BY <1>1, <1>2, <1>3, <1>4, <1>5, TextTypes

LEMMA ExecuteServerText ==
  ASSUME TextInv, [Next]_vars, Execute(Server)
  PROVE  OutOK' /\ ServerText' /\ ClientText'
<1>1. /\ UNCHANGED <<pc, out, rc, chan, remote, total>> /\ sq[Server] # <<>> /\ sq'[Server] = <<>>
      /\ sq'[Client] = sq[Client] /\ pc[Server] \in {"poll_send", "destroy"} /\ buf[Server] = "MSG"
      /\ buf' = buf \/ buf' = Transfer(Server, Head(sq[Server]))
  BY TextFacts, ExecuteEffect, RequestFacts DEF ServerText
<1>2. ~ Active /\ pc[Client] \notin {"got_msg"} \cup Late
  BY <1>1, TextFacts, LentFacts DEF SyncInv, Received
<1>3. OutOK'
  BY <1>1, TextFacts DEF OutOK
<1>4. ServerText'
  <2>1. pc'[Server] \notin BeforeFill \cup AfterFill
    BY <1>1 DEF BeforeFill, AfterFill
  <2>2. pc'[Client] \notin {"w_write", "poll_write"}
    BY <1>1, <1>2 DEF Active
  <2>3. ~ (Going(Server)' /\ Straight(Server)' /\ Has(Server)' >= ConLen + 3)
    BY <1>1, TextFacts, CountedBefore, Counted
  <2> QED  BY <1>1, <2>1, <2>2, <2>3 DEF ServerText
<1>5. ClientText'
  <2>1. pc'[Client] \notin {"got_msg", "put", "poll_read", "post_write"} /\ sq'[Client] = <<>>
    BY <1>1, <1>2 DEF Active, Late
  <2>2. ASSUME NEW c \in Completed(Client)', c.op = "RECV" PROVE buf'[Client] = "MSG"
    <3>1. CASE c \in Completed(Client)
      <4>1. sq[Server] = <<>>
        BY <2>2, <3>1, TextFacts DEF SyncInv, Received
      <4> QED  BY <1>1, <4>1
    <3>2. CASE buf' = Transfer(Server, "SEND")
      BY <1>1, <3>2, TextFacts DEF Transfer, StateOK
    <3>3. c \in Completed(Client) \/ buf' = Transfer(Server, "SEND")
      BY <1>1, <1>2, <2>2, TextFacts, CompletedMoves DEF Active
    <3> QED  BY <3>1, <3>2, <3>3
  <2> QED  BY <2>1, <2>2 DEF ClientText
<1> QED  BY <1>3, <1>4, <1>5

LEMMA ExecuteClientText ==
  ASSUME TextInv, [Next]_vars, Execute(Client)
  PROVE  OutOK' /\ ServerText' /\ ClientText'
<1>1. /\ UNCHANGED <<pc, out, rc, chan, remote, total>> /\ sq[Client] # <<>> /\ sq'[Client] = <<>>
      /\ sq'[Server] = sq[Server] /\ Completed(Client) = {}
      /\ buf' = buf \/ buf' = Transfer(Client, Head(sq[Client]))
      /\ \/ pc[Client] = "poll_read" /\ Head(sq[Client]) = "READ"
         \/ pc[Client] = "poll_write" /\ Head(sq[Client]) = "WRITE"
         \/ pc[Client] = "destroy" /\ Head(sq[Client]) \in {"READ", "WRITE"}
  BY TextFacts, ExecuteEffect, RequestFacts
<1>2. pc[Server] \in {"r_read", "w_write", "w_read"} /\ sq[Server] = <<>>
  BY <1>1, TextFacts, LentFacts DEF Active
<1>3. OutOK'
  BY <1>1, TextFacts DEF OutOK
<1>4. /\ pc'[Server] \notin BeforeFill /\ sq'[Server] = <<>> /\ pc[Server] \in AfterFill
      /\ pc'[Client] # "w_write" /\ pc'[Client] \notin {"got_msg", "put", "post_write"}
  BY <1>1, <1>2 DEF BeforeFill, AfterFill
<1>5. ~ (Going(Server)' /\ Straight(Server)' /\ Has(Server)' >= ConLen + 3)
  BY <1>1, TextFacts, CountedBefore, Counted
<1>6. ASSUME NEW c \in Completed(Client)'
      PROVE  c.op = Head(sq[Client]) /\ (c.ok => buf' = Transfer(Client, Head(sq[Client])))
  <2>1. ~ (Head(sq[Server]) = "SEND" /\ Lands(Server))
    BY <1>2 DEF Lands
  <2> QED  BY <1>1, <2>1, TextFacts, CompletedMoves
<1>7. ~ \E c \in Completed(Client)' : c.op = "RECV"
  BY <1>1, <1>6
<1>8. CASE Head(sq[Client]) = "READ"
  <2>1. buf' = Transfer(Client, "READ") => buf'[Client] = buf[Server] /\ buf'[Server] = buf[Server]
    BY TextFacts DEF Transfer, StateOK
  <2>2. buf'[Server] = buf[Server]
    BY <1>1, <1>8, <2>1
  <2>3. pc'[Client] # "poll_write"
    BY <1>1, <1>8
  <2>4. ServerText'
    BY <1>1, <1>4, <1>5, <2>2, <2>3, TextFacts DEF ServerText
  <2>5. ASSUME pc'[Client] = "poll_read", Arrived(Client)' PROVE buf'[Client] = "RDMAMSGR"
    <3>1. buf'[Client] = buf[Server]
      BY <1>6, <1>8, <2>1, <2>5 DEF Arrived
    <3>2. out[Client] # Promise!Goal(Client)
      BY <1>1, <2>5, TextFacts, Goals DEF OutOK, AfterMsg
    <3> QED  BY <1>4, <3>1, <3>2, TextFacts DEF ServerText
  <2>6. ClientText'
    BY <1>1, <1>4, <1>7, <2>5 DEF ClientText
  <2> QED  BY <1>3, <2>4, <2>6
<1>9. CASE Head(sq[Client]) = "WRITE"
  <2>1. buf' = Transfer(Client, "WRITE") => buf'[Server] = buf[Client] /\ buf'[Client] = buf[Client]
    BY TextFacts DEF Transfer, StateOK
  <2>2. buf[Client] = "RDMAMSGW" /\ out[Client] = Promise!Goal(Client)
    BY <1>1, <1>9, TextFacts DEF ClientText
  <2>3. buf'[Server] = buf[Server] \/ buf'[Server] = "RDMAMSGW"
    BY <1>1, <1>9, <2>1, <2>2
  <2>4. Arrived(Client)' => buf'[Server] = "RDMAMSGW"
    BY <1>6, <1>9, <2>1, <2>2 DEF Arrived
  <2>5. ServerText'
    BY <1>1, <1>4, <1>5, <2>2, <2>3, <2>4, TextFacts DEF ServerText
  <2>6. pc'[Client] # "poll_read"
    BY <1>1, <1>9
  <2>7. ClientText'
    BY <1>1, <1>4, <1>7, <2>6 DEF ClientText
  <2> QED  BY <1>3, <2>5, <2>7
<1> QED  BY <1>1, <1>8, <1>9

-----------------------------------------------------------------------------
LEMMA InitText == Init => TextInv
<1> SUFFICES ASSUME Init PROVE TextInv
  OBVIOUS
<1>1. SyncInv /\ Server \in Peers /\ Client \in Peers
  BY InitSync, TwoPeers
<1>2. /\ \A p \in Peers : /\ pc[p] = "start" /\ sq[p] = <<>> /\ cq[p] = <<>> /\ pend[p] = <<>>
                          /\ rc[p] = 1 /\ out[p] = <<>>
  BY DEF Init
<1>3. Has(Server) = 0 /\ Completed(Client) = {}
  <2>1. Taken(Server) = 0 /\ Len(chan[Server]) = 0
    BY <1>1, <1>2 DEF Taken, Early, Init
  <2> QED  BY <1>1, <1>2, <2>1 DEF Has, Completed
<1>4. OutOK
  BY <1>1, <1>2 DEF OutOK, AfterMsg, AfterRead, Ended, Printed
<1>5. ServerText
  BY <1>1, <1>2, <1>3, ConLength DEF ServerText, BeforeFill, AfterFill
<1>6. ClientText
  BY <1>1, <1>2, <1>3 DEF ClientText
<1> QED  BY <1>1, <1>4, <1>5, <1>6 DEF TextInv

\* Who prints a text of its goal learns it.
LEMMA LearnStep ==
  ASSUME TextInv, NEW p \in Peers, pc[p] # "done", pc'[p] # "done",
         \A r \in Peers : r # p => pc'[r] = pc[r] /\ rc'[r] = rc[r],
         NEW text, Len(out[p]) < Len(Promise!Goal(p)),
         Append(out[p], Promise!Goal(p)[Len(out[p]) + 1]) = text,
         out' = [out EXCEPT ![p] = text],
         p = Server => out[Client] = Promise!Goal(Client)
  PROVE  Promise!Learn(p)
<1>1. Result[p] = "running"
  BY DEF Result
<1>2. Result' = Result
  BY DEF Result
<1>3. out' = [out EXCEPT ![p] = Append(@, Promise!Goal(p)[Len(@) + 1])]
  BY TextTypes
<1> QED  BY <1>1, <1>2, <1>3 DEF Promise!Learn

LEMMA NextText == TextInv /\ [Next]_vars => TextInv'
<1> SUFFICES ASSUME TextInv, [Next]_vars PROVE TextInv'
  OBVIOUS
<1>1. SyncInv'
  BY NextSync DEF TextInv
<1>2. PlaceInv
  BY TextFacts
<1>3. CASE \E p \in Peers : Loud(p)
  <2>1. PICK p \in Peers : Loud(p)
    BY <1>3
  <2>2. p = Server \/ p = Client
    BY TwoPeers
  <2>3. OutOK' /\ ServerText' /\ ClientText'
    BY <2>1, <2>2, CreateText, DestroyText, ReportText, PrintText, ReplaceText, FillText,
       ExecuteServerText, ExecuteClientText DEF Loud
  <2> QED  BY <1>1, <2>3 DEF TextInv
<1>4. CASE Quiet /\ ~ \E p \in Peers : Loud(p)
  <2>1. \A p \in Peers : ~ Execute(p)
    BY <1>4 DEF Loud
  <2> QED  BY <1>1, <1>4, <2>1, QuietOut, QuietServer, QuietClient DEF TextInv
<1> QED  BY <1>2, <1>3, <1>4, BufferMoves

LEMMA TextInvariant == Spec => []TextInv
BY InitText, NextText, PTL DEF Spec

\* A step without output: a program returns, or nothing its reader sees.
LEMMA QuietImplements ==
  ASSUME TextInv, [Next]_vars, Quiet
  PROVE  (\E p \in Peers : Promise!Succeed(p) \/ Promise!GiveUp(p)) \/ UNCHANGED <<out, Result>>
<1>1. PlaceInv /\ out' = out /\ rc' = rc /\ rc \in [Peers -> {0, 1}]
  BY TextFacts, TextTypes DEF Quiet
<1>2. CASE UNCHANGED pc
  BY <1>1, <1>2 DEF Result
<1>3. ASSUME NEW p \in Peers, \A r \in Peers : r # p => pc'[r] = pc[r]
      PROVE  Promise!Succeed(p) \/ Promise!GiveUp(p) \/ UNCHANGED <<out, Result>>
  <2>1. CASE pc[p] = "done" \/ pc'[p] # "done"
    <3>1. pc[p] = "done" => pc'[p] = "done"
      BY DEF Quiet
    <3>2. \A r \in Peers : pc'[r] = "done" <=> pc[r] = "done"
      BY <1>3, <2>1, <3>1
    <3> QED  BY <1>1, <3>2 DEF Result
  <2>2. CASE pc[p] # "done" /\ pc'[p] = "done"
    <3>1. Result[p] = "running"
      BY <2>2 DEF Result
    <3>2. Result' = [Result EXCEPT ![p] = IF rc[p] = 0 THEN "ok" ELSE "failed"]
      BY <1>1, <1>3, <2>2 DEF Result
    <3>3. rc[p] = 0 => out[p] = Promise!Goal(p)
      BY TextFacts DEF OutOK
    <3> QED  BY <1>1, <3>1, <3>2, <3>3 DEF Promise!Succeed, Promise!GiveUp
  <2> QED  BY <2>1, <2>2
<1>4. UNCHANGED pc \/ \E p \in Peers : \A r \in Peers : r # p => pc'[r] = pc[r]
  BY <1>1, PcMoves DEF Alone
<1> QED  BY <1>2, <1>3, <1>4

LEMMA LoudImplements ==
  ASSUME TextInv, [Next]_vars, NEW p \in Peers, Loud(p)
  PROVE  Promise!Learn(p) \/ UNCHANGED <<out, Result>>
<1>1. CASE Execute(p)
  <2>1. UNCHANGED <<pc, out, rc>>
    BY <1>1, ExecuteEffect
  <2> QED  BY <2>1 DEF Result
<1>2. ASSUME ~ Execute(p)
      PROVE  /\ pc[p] # "done" /\ pc'[p] # "done"
             /\ \A r \in Peers : r # p => pc'[r] = pc[r] /\ rc'[r] = rc[r]
  <2>1. /\ Follow(p, "got_msg") # "done" /\ Follow(p, "put") # "done" /\ Follow(p, "fill") # "done"
        /\ Follow(p, "report") # "done"
    BY DEF Follow, Main, ConnectSteps
  <2> QED  BY <1>2, <2>1, TextTypes DEF Loud, ResourcesCreate, DestroyVerbs, Report, PrintMessage, ReplaceContents,
                SetupReadMessage, Continue, Goto
<1>3. ASSUME ~ Execute(p), out' = out PROVE UNCHANGED <<out, Result>>
  BY <1>2, <1>3 DEF Result
<1>4. CASE ResourcesCreate(p) \/ DestroyVerbs(p) \/ SetupReadMessage(p)
  BY <1>1, <1>3, <1>4 DEF ResourcesCreate, DestroyVerbs, SetupReadMessage
<1>5. CASE p = Client /\ PrintMessage(p)
  <2>1. out[Client] = <<>> /\ out' = [out EXCEPT ![Client] = <<"MSG">>]
    BY <1>5, PrintText
  <2>2. /\ Len(<<>>) < Len(Promise!Goal(Client))
        /\ Append(<<>>, Promise!Goal(Client)[Len(<<>>) + 1]) = <<"MSG">>
    BY Goals
  <2> QED  BY <1>1, <1>2, <1>5, <2>1, <2>2, LearnStep, TwoPeers
<1>6. CASE p = Client /\ ReplaceContents(p)
  <2>1. out[Client] = <<"MSG">> /\ out' = [out EXCEPT ![Client] = Promise!Goal(Client)]
    BY <1>6, ReplaceText
  <2>2. /\ Len(<<"MSG">>) < Len(Promise!Goal(Client))
        /\ Promise!Goal(Client)[Len(<<"MSG">>) + 1] = "RDMAMSGR"
    BY Goals
  <2>3. Append(<<"MSG">>, "RDMAMSGR") = Promise!Goal(Client)
    BY Goals, AppendPair, "MSG" \in {"MSG", "RDMAMSGR"}, "RDMAMSGR" \in {"MSG", "RDMAMSGR"}
  <2> QED  BY <1>1, <1>2, <1>6, <2>1, <2>2, <2>3, LearnStep, TwoPeers
<1>7. CASE Report(p)
  <2>1. CASE out' = out
    BY <1>1, <1>3, <2>1
  <2>2. CASE /\ p = Server /\ out[Server] = <<>> /\ out[Client] = Promise!Goal(Client)
             /\ out' = [out EXCEPT ![Server] = Promise!Goal(Server)]
    <3>1. /\ Len(<<>>) < Len(Promise!Goal(Server))
          /\ Append(<<>>, Promise!Goal(Server)[Len(<<>>) + 1]) = Promise!Goal(Server)
      BY Goals
    <3> QED  BY <1>1, <1>2, <2>2, <3>1, LearnStep
  <2> QED  BY <1>7, <2>1, <2>2, ReportText
<1> QED  BY <1>1, <1>4, <1>5, <1>6, <1>7 DEF Loud

\* rdma1 implements RcTransfer: whatever fails and however the two programs
\* interleave, the client prints the server's message and then the contents of
\* its buffer, the server what the client has written there, nothing else and in
\* no other order, and who returns 0 has printed all of it (rdma1, main).
THEOREM RdmaIsATransfer == Spec => ImplementsTransfer
<1>1. Init => Promise!Init
  BY DEF Init, Promise!Init, Promise!Peers, Peers, Result
<1>2. TextInv /\ [Next]_vars => [Promise!Next]_Promise!vars
  <2> SUFFICES ASSUME TextInv, [Next]_vars PROVE [Promise!Next]_Promise!vars
    OBVIOUS
  <2>1. \/ \E p \in Peers : Promise!Learn(p) \/ Promise!Succeed(p) \/ Promise!GiveUp(p)
        \/ UNCHANGED <<out, Result>>
    BY TextFacts, BufferMoves, QuietImplements, LoudImplements
  <2> QED  BY <2>1 DEF Promise!Next, Promise!vars, Promise!Peers, Peers
<1> QED  BY <1>1, <1>2, TextInvariant, PTL DEF Spec, ImplementsTransfer, Promise!Spec
=============================================================================
