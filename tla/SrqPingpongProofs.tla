-------------------------- MODULE SrqPingpongProofs --------------------------
(***************************************************************************)
(* Theorems about SrqPingpong, for any number of queue pairs, any iters    *)
(* and rx_depth, any options and any set of faults.                        *)
(*                                                                         *)
(* Every queue pair has a ball of its own, which is under way to a side,   *)
(* among its completions, or in its hands (OneBall).  So no two messages   *)
(* on a queue pair are under way at once, and the NumQp receives that the  *)
(* shared queue and the completions hold together (Receives) are enough.   *)
(*                                                                         *)
(* Without a failing call the exchange of addresses connects both sides    *)
(* before one of them sends (Shaken); scnt and rcnt, with the completions  *)
(* still to be seen, are what the other side has got and sent (Counted);   *)
(* and a send fails only towards a side that has ended well (Ending).      *)
(***************************************************************************)
EXTENDS SrqPingpong, SequenceTheorems, FiniteSetTheorems, TLAPS

Ops     == {"SEND", "RECV"}
Entries == [op : Ops, ok : BOOLEAN, qp : Qps]

\* The completions of process p that it has not yet looked at.
Line(p) == wc[p] \o cq[p]

\* The queue pairs of which s holds a completion of kind op.
In(s, op) == {i \in Qps : \E k \in 1..Len(s) : s[k].op = op /\ s[k].qp = i}

\* No queue pair has two completions of a kind.
Distinct(s) == \A j, k \in 1..Len(s) :
                 s[j].op = s[k].op /\ s[j].qp = s[k].qp => j = k

AllOk(s) == \A k \in 1..Len(s) : s[k].ok

\* What can be said of any element of a sequence of completions.
LEMMA EntryOf == ASSUME NEW s \in Seq(Entries), NEW k \in 1..Len(s)
                 PROVE  s[k] \in Entries /\ s[k].op \in Ops /\ s[k].qp \in Qps
  <1>1. s[k] \in Entries OBVIOUS
  <1> QED BY <1>1 DEF Entries

LEMMA QpsFinite == /\ IsFiniteSet(Qps) /\ Cardinality(Qps) = NumQp
                   /\ NumQp \in Nat /\ RxDepth \in Nat /\ Iters \in Nat
                   /\ 1 <= NumQp /\ NumQp <= RxDepth /\ 1 <= Iters
  BY SrqAssumption, LinkAssumption, FS_Interval DEF Qps

LEMMA InFinite == ASSUME NEW s, NEW op
                  PROVE  /\ In(s, op) \subseteq Qps /\ IsFiniteSet(In(s, op))
                         /\ Cardinality(In(s, op)) \in Nat
  <1>1. In(s, op) \subseteq Qps BY DEF In
  <1> QED BY <1>1, QpsFinite, FS_Subset, FS_CardinalityType

LEMMA NothingIn == /\ \A op : In(<<>>, op) = {} /\ Cardinality(In(<<>>, op)) = 0
                   /\ Distinct(<<>>) /\ AllOk(<<>>) /\ Len(<<>>) = 0
  <1>1. \A op : In(<<>>, op) = {} BY DEF In
  <1> QED BY <1>1, FS_EmptySet DEF Distinct, AllOk

\* What one completion more, or the first one less, does to In.
LEMMA AppendIn ==
  ASSUME NEW s \in Seq(Entries), NEW c \in Entries, NEW op \in Ops
  PROVE  In(Append(s, c), op) = IF c.op = op THEN In(s, op) \cup {c.qp}
                                ELSE In(s, op)
  <1> DEFINE t == Append(s, c)
  <1>1. Len(t) = Len(s) + 1 /\ t[Len(s) + 1] = c /\ Len(s) \in Nat
        /\ \A k \in 1..Len(s) : t[k] = s[k] OBVIOUS
  <1>2. c.qp \in Qps BY DEF Entries
  <1>3. ASSUME NEW i \in Qps
        PROVE  i \in In(t, op) <=> i \in In(s, op) \/ (c.op = op /\ i = c.qp)
    <2>1. ASSUME i \in In(t, op) PROVE i \in In(s, op) \/ (c.op = op /\ i = c.qp)
      <3>1. PICK k \in 1..Len(t) : t[k].op = op /\ t[k].qp = i BY <2>1 DEF In
      <3>2. CASE k = Len(s) + 1 BY <3>1, <3>2, <1>1
      <3>3. CASE k # Len(s) + 1
        <4>1. k \in 1..Len(s) BY <3>3, <3>1, <1>1
        <4> QED BY <4>1, <3>1, <1>1 DEF In
      <3> QED BY <3>2, <3>3
    <2>2. ASSUME i \in In(s, op) PROVE i \in In(t, op)
      <3>1. PICK k \in 1..Len(s) : s[k].op = op /\ s[k].qp = i BY <2>2 DEF In
      <3>2. k \in 1..Len(t) /\ t[k] = s[k] BY <3>1, <1>1
      <3> QED BY <3>1, <3>2 DEF In
    <2>3. ASSUME c.op = op, i = c.qp PROVE i \in In(t, op)
      <3>1. Len(s) + 1 \in 1..Len(t) BY <1>1
      <3> QED BY <3>1, <2>3, <1>1 DEF In
    <2> QED BY <2>1, <2>2, <2>3
  <1>4. In(t, op) \subseteq Qps /\ In(s, op) \subseteq Qps BY DEF In
  <1> HIDE DEF t
  <1>5. In(t, op) = IF c.op = op THEN In(s, op) \cup {c.qp} ELSE In(s, op)
    BY <1>2, <1>3, <1>4
  <1> QED BY <1>5 DEF t

LEMMA TailIn ==
  ASSUME NEW s \in Seq(Entries), s # <<>>, Distinct(s), NEW op \in Ops
  PROVE  /\ Head(s) \in Entries
         /\ In(Tail(s), op) = IF Head(s).op = op THEN In(s, op) \ {Head(s).qp}
                              ELSE In(s, op)
         /\ Head(s).op = op => Head(s).qp \in In(s, op)
  <1> DEFINE t == Tail(s)  c == Head(s)
  <1>1. Len(s) \in Nat /\ Len(s) >= 1 /\ Len(t) = Len(s) - 1 /\ c = s[1]
        /\ \A k \in 1..Len(t) : t[k] = s[k + 1] OBVIOUS
  <1>2. c \in Entries /\ 1 \in 1..Len(s) BY <1>1, EntryOf
  <1>a. c.qp \in Qps BY <1>2 DEF Entries
  <1>b. c.op = op => c.qp \in In(s, op) BY <1>1, <1>2, <1>a DEF In
  <1>3. ASSUME NEW i \in Qps
        PROVE  i \in In(t, op) <=> i \in In(s, op) /\ ~(c.op = op /\ i = c.qp)
    <2>1. ASSUME i \in In(t, op) PROVE i \in In(s, op) /\ ~(c.op = op /\ i = c.qp)
      <3>1. PICK k \in 1..Len(t) : t[k].op = op /\ t[k].qp = i BY <2>1 DEF In
      <3>2. k + 1 \in 1..Len(s) /\ t[k] = s[k + 1] /\ k + 1 # 1 BY <3>1, <1>1
      <3>3. i \in In(s, op) BY <3>1, <3>2 DEF In
      <3>4. ~(c.op = op /\ i = c.qp) BY <3>1, <3>2, <1>1, <1>2 DEF Distinct
      <3> QED BY <3>3, <3>4
    <2>2. ASSUME i \in In(s, op), ~(c.op = op /\ i = c.qp) PROVE i \in In(t, op)
      <3>1. PICK k \in 1..Len(s) : s[k].op = op /\ s[k].qp = i BY <2>2 DEF In
      <3>2. k # 1 BY <3>1, <2>2, <1>1
      <3>3. k - 1 \in 1..Len(t) /\ (k - 1) + 1 = k BY <3>1, <3>2, <1>1
      <3>4. t[k - 1] = s[k] BY <3>3, <1>1
      <3> QED BY <3>1, <3>3, <3>4 DEF In
    <2> QED BY <2>1, <2>2
  <1>4. In(t, op) \subseteq Qps /\ In(s, op) \subseteq Qps BY DEF In
  <1> HIDE DEF t, c
  <1>5. In(t, op) = IF c.op = op THEN In(s, op) \ {c.qp} ELSE In(s, op)
    BY <1>a, <1>3, <1>4
  <1> QED BY <1>5, <1>2, <1>b DEF t, c

\* An element more, an element less.
LEMMA CardPlus ==
  ASSUME NEW S, IsFiniteSet(S), NEW i
  PROVE  /\ IsFiniteSet(S \cup {i}) /\ IsFiniteSet(S \ {i})
         /\ Cardinality(S) \in Nat
         /\ i \notin S => Cardinality(S \cup {i}) = Cardinality(S) + 1
         /\ i \in S => Cardinality(S \ {i}) = Cardinality(S) - 1 /\ Cardinality(S) >= 1
  <1>1. Cardinality(S) \in Nat BY FS_CardinalityType
  <1>2. IsFiniteSet(S \cup {i}) /\ (i \notin S => Cardinality(S \cup {i}) = Cardinality(S) + 1)
    BY FS_AddElement
  <1>3. IsFiniteSet(S \ {i}) /\ (i \in S => Cardinality(S \ {i}) = Cardinality(S) - 1)
    BY FS_RemoveElement
  <1>4. i \in S => Cardinality(S) # 0 BY FS_EmptySet
  <1> QED BY <1>1, <1>2, <1>3, <1>4

\* One completion more: of a kind and queue pair that had none.
LEMMA LineGrows ==
  ASSUME NEW s \in Seq(Entries), NEW c \in Entries, Distinct(s), c.qp \notin In(s, c.op)
  PROVE  LET t == Append(s, c) IN
         /\ t \in Seq(Entries) /\ Distinct(t) /\ Len(t) = Len(s) + 1
         /\ Cardinality(In(t, c.op)) = Cardinality(In(s, c.op)) + 1
         /\ In(t, c.op) = In(s, c.op) \cup {c.qp}
         /\ \A op \in Ops : op # c.op => In(t, op) = In(s, op)
         /\ AllOk(t) <=> AllOk(s) /\ c.ok
  <1> DEFINE t == Append(s, c)
  <1>1. Len(t) = Len(s) + 1 /\ t[Len(s) + 1] = c /\ Len(s) \in Nat
        /\ (\A k \in 1..Len(s) : t[k] = s[k]) /\ t \in Seq(Entries) OBVIOUS
  <1>2. c.op \in Ops /\ c.qp \in Qps BY DEF Entries
  <1>3. \A op \in Ops : In(t, op) = IF c.op = op THEN In(s, op) \cup {c.qp} ELSE In(s, op)
    BY AppendIn
  <1> HIDE DEF t
  <1>4. Distinct(t)
    <2> SUFFICES ASSUME NEW j \in 1..Len(t), NEW k \in 1..Len(t),
                        t[j].op = t[k].op, t[j].qp = t[k].qp, j # k
                 PROVE  FALSE BY DEF Distinct
    <2>1. CASE j \in 1..Len(s) /\ k \in 1..Len(s) BY <2>1, <1>1 DEF Distinct
    <2>2. CASE j = Len(s) + 1
      <3>1. k \in 1..Len(s) BY <2>2, <1>1
      <3>2. s[k].op = c.op /\ s[k].qp = c.qp BY <3>1, <2>2, <1>1
      <3> QED BY <3>1, <3>2, <1>2 DEF In
    <2>3. CASE k = Len(s) + 1
      <3>1. j \in 1..Len(s) BY <2>3, <1>1
      <3>2. s[j].op = c.op /\ s[j].qp = c.qp BY <3>1, <2>3, <1>1
      <3> QED BY <3>1, <3>2, <1>2 DEF In
    <2> QED BY <2>1, <2>2, <2>3, <1>1
  <1>5. In(t, c.op) = In(s, c.op) \cup {c.qp} BY <1>2, <1>3
  <1>6. Cardinality(In(t, c.op)) = Cardinality(In(s, c.op)) + 1
    BY <1>5, InFinite, CardPlus
  <1>7. AllOk(t) <=> AllOk(s) /\ c.ok
    <2>1. ASSUME AllOk(t) PROVE AllOk(s) /\ c.ok
      <3>1. Len(s) + 1 \in 1..Len(t) /\ \A k \in 1..Len(s) : k \in 1..Len(t) BY <1>1
      <3> QED BY <3>1, <2>1, <1>1 DEF AllOk
    <2>2. ASSUME AllOk(s), c.ok PROVE AllOk(t)
      <3>1. \A k \in 1..Len(t) : k \in 1..Len(s) \/ k = Len(s) + 1 BY <1>1
      <3> QED BY <3>1, <2>2, <1>1 DEF AllOk
    <2> QED BY <2>1, <2>2
  <1> QED BY <1>1, <1>3, <1>4, <1>5, <1>6, <1>7 DEF t

\* The first completion is taken.
LEMMA LineShrinks ==
  ASSUME NEW s \in Seq(Entries), s # <<>>, Distinct(s)
  PROVE  LET t == Tail(s)  c == Head(s) IN
         /\ t \in Seq(Entries) /\ c \in Entries /\ c.qp \in Qps /\ c.op \in Ops
         /\ Distinct(t) /\ Len(t) = Len(s) - 1
         /\ c.qp \in In(s, c.op)
         /\ Cardinality(In(t, c.op)) = Cardinality(In(s, c.op)) - 1
         /\ Cardinality(In(s, c.op)) >= 1
         /\ In(t, c.op) = In(s, c.op) \ {c.qp}
         /\ \A op \in Ops : op # c.op => In(t, op) = In(s, op)
         /\ AllOk(s) => AllOk(t)
         /\ ~c.ok => ~AllOk(s)
  <1> DEFINE t == Tail(s)  c == Head(s)
  <1>1. Len(s) \in Nat /\ Len(s) >= 1 /\ Len(t) = Len(s) - 1 /\ c = s[1] /\ t \in Seq(Entries)
        /\ \A k \in 1..Len(t) : t[k] = s[k + 1] OBVIOUS
  <1>2. c \in Entries /\ 1 \in 1..Len(s) BY <1>1, EntryOf
  <1>3. c.op \in Ops /\ c.qp \in Qps BY <1>2 DEF Entries
  <1>4. \A op \in Ops : /\ In(t, op) = IF c.op = op THEN In(s, op) \ {c.qp} ELSE In(s, op)
                        /\ c.op = op => c.qp \in In(s, op)
    BY TailIn
  <1> HIDE DEF t, c
  <1>5. Distinct(t)
    <2> SUFFICES ASSUME NEW j \in 1..Len(t), NEW k \in 1..Len(t),
                        t[j].op = t[k].op, t[j].qp = t[k].qp
                 PROVE  j = k BY DEF Distinct
    <2>1. j + 1 \in 1..Len(s) /\ k + 1 \in 1..Len(s) BY <1>1
    <2>2. j + 1 = k + 1 BY <2>1, <1>1 DEF Distinct
    <2> QED BY <2>2
  <1>6. In(t, c.op) = In(s, c.op) \ {c.qp} /\ c.qp \in In(s, c.op) BY <1>3, <1>4
  <1>7. Cardinality(In(t, c.op)) = Cardinality(In(s, c.op)) - 1 /\ Cardinality(In(s, c.op)) >= 1
    BY <1>6, InFinite, CardPlus
  <1>8. AllOk(s) => AllOk(t)
    <2>1. \A k \in 1..Len(t) : k + 1 \in 1..Len(s) BY <1>1
    <2> QED BY <2>1, <1>1 DEF AllOk
  <1>9. ~c.ok => ~AllOk(s) BY <1>1, <1>2 DEF AllOk
  <1> QED BY <1>1, <1>2, <1>3, <1>4, <1>5, <1>6, <1>7, <1>8, <1>9 DEF t, c

-----------------------------------------------------------------------------
(* Types.                                                                  *)

Setup == {"start", "connect", "serve"} \cup Exchange
Loop  == {"get_event", "req_notify", "poll", "parse", "finish"}
Over  == {"ok", "failed"}

SrqTypeOK ==
  /\ transport \in Transports /\ faults \subseteq Faults /\ mode \in [Peers -> Modes]
  /\ pc \in [Peers -> Setup \cup Loop \cup Over]
  /\ pending \in [Peers -> [Qps -> SUBSET Ops]]
  /\ routs \in [Peers -> Nat] /\ scnt \in [Peers -> Nat] /\ rcnt \in [Peers -> Nat]
  /\ wc \in [Peers -> Seq(Entries)] /\ cq \in [Peers -> Seq(Entries)]
  /\ sock \in [Peers -> {"none", "listening", "open", "closed"}]
  /\ chan \in [Peers -> Seq({"addr", "done"})]
  /\ qp \in [Peers -> {"none", "init", "rts"}]
  /\ rq \in [Peers -> Nat]
  /\ sq \in [Peers -> [Qps -> {"idle", "posted", "acking"}]]
  /\ armed \in [Peers -> BOOLEAN] /\ events \in [Peers -> Nat]
  /\ net \in [Peers -> Nat] /\ lost \in BOOLEAN
  /\ sent \in [Peers -> Nat] /\ got \in [Peers -> Nat]
  /\ known \subseteq Peers

LEMMA PeerFacts == /\ "client" \in Peers /\ "server" \in Peers
                   /\ Other("client") = "server" /\ Other("server") = "client"
                   /\ \A p \in Peers : /\ Other(p) \in Peers /\ Other(p) # p
                                       /\ Other(Other(p)) = p
                   /\ \A p, q \in Peers : q = p \/ q = Other(p)
  BY DEF Peers, Other

LEMMA InitTypes == SrqInit => SrqTypeOK
  <1> SUFFICES ASSUME SrqInit PROVE SrqTypeOK OBVIOUS
  <1> USE DEF SrqInit
  <1>1. mode \in [Peers -> Modes] /\ transport \in Transports /\ faults \subseteq Faults
    BY DEF InitOptions
  <1>2. Zero \in [Peers -> Nat] BY DEF Zero
  <1>3. pc \in [Peers -> Setup \cup Loop \cup Over] BY DEF Setup
  <1>4. pending \in [Peers -> [Qps -> SUBSET Ops]] OBVIOUS
  <1>5. sq \in [Peers -> [Qps -> {"idle", "posted", "acking"}]] BY DEF Idle
  <1>6. wc \in [Peers -> Seq(Entries)] /\ cq \in [Peers -> Seq(Entries)] OBVIOUS
  <1>7. chan \in [Peers -> Seq({"addr", "done"})] OBVIOUS
  <1> QED BY <1>1, <1>2, <1>3, <1>4, <1>5, <1>6, <1>7 DEF SrqTypeOK

\* Each step keeps the types.
LEMMA LeaveTypes ==
  ASSUME SrqTypeOK, NEW p \in Peers, NEW how \in Over, Leave(p, how)
  PROVE  SrqTypeOK'
  <1> USE DEF SrqTypeOK, Leave
  <1>1. sq' \in [Peers -> [Qps -> {"idle", "posted", "acking"}]] BY DEF Idle
  <1>2. cq' \in [Peers -> Seq(Entries)] OBVIOUS
  <1>3. pc' \in [Peers -> Setup \cup Loop \cup Over] OBVIOUS
  <1> QED BY <1>1, <1>2, <1>3 DEF options, proc, wire

LEMMA StepPlace ==
  ASSUME SrqTypeOK, NEW p \in Peers, NEW from, NEW to \in Setup \cup Loop \cup Over,
         Step(p, from, to)
  PROVE  pc' \in [Peers -> Setup \cup Loop \cup Over]
  BY DEF SrqTypeOK, Step

LEMMA PrepareTypes == ASSUME SrqTypeOK, NEW p \in Peers, Prepare(p) PROVE SrqTypeOK'
  <1>1. pc' \in [Peers -> Setup \cup Loop \cup Over]
    <2>1. (IF p = "server" THEN "listen" ELSE "dial") \in Setup \cup Loop \cup Over
      BY DEF Setup, Exchange
    <2> QED BY <2>1, StepPlace DEF Prepare
  <1>2. mode' = mode /\ UNCHANGED <<options, pending, scnt, rcnt, wc, tcp, wire, sent, got, known>>
    BY DEF Prepare, options
  <1>3. qp' \in [Peers -> {"none", "init", "rts"}] /\ rq' \in [Peers -> Nat]
        /\ routs' \in [Peers -> Nat] /\ UNCHANGED <<sq, cq, events>>
    BY QpsFinite DEF Prepare, IbvCreate, SrqTypeOK
  <1>4. armed' \in [Peers -> BOOLEAN]
    <2>1. (mode[p] \in Sleeps) \in BOOLEAN OBVIOUS
    <2>2. armed' = [armed EXCEPT ![p] = (mode[p] \in Sleeps)] BY DEF Prepare, IbvCreate
    <2> QED BY <2>1, <2>2 DEF SrqTypeOK
  <1> QED BY <1>1, <1>2, <1>3, <1>4 DEF SrqTypeOK, options, tcp, wire

LEMMA ChanTypes ==
  ASSUME SrqTypeOK, NEW p \in Peers, NEW m \in {"addr", "done"},
         \/ TcpWrite(p, m) \/ TcpWriteAndClose(p, m)
         \/ TcpRead(p, m) \/ TcpReadAndClose(p, m)
  PROVE  chan' \in [Peers -> Seq({"addr", "done"})]
  <1> DEFINE S == Seq({"addr", "done"})
  <1>1. chan \in [Peers -> S] /\ chan[p] \in S /\ chan[Other(p)] \in S /\ Other(p) \in Peers
    BY PeerFacts DEF SrqTypeOK
  <1>2. Append(chan[Other(p)], m) \in S BY <1>1
  <1>3. chan[p] # <<>> => Tail(chan[p]) \in S BY <1>1
  <1>4. \/ chan' = [chan EXCEPT ![Other(p)] = Append(chan[Other(p)], m)]
        \/ chan[p] # <<>> /\ chan' = [chan EXCEPT ![p] = Tail(chan[p])]
    BY DEF TcpWrite, TcpWriteAndClose, TcpRead, TcpReadAndClose
  <1> HIDE DEF S
  <1>5. chan' \in [Peers -> S] BY <1>1, <1>2, <1>3, <1>4
  <1> QED BY <1>5 DEF S

LEMMA ExchangeTypes ==
  ASSUME SrqTypeOK, NEW p \in Peers,
         ServerExchDest(p) \/ ClientExchDest(p) \/ GoesOn(p)
  PROVE  SrqTypeOK'
  <1>3. chan' \in [Peers -> Seq({"addr", "done"})]
    <2>1. UNCHANGED chan => chan' \in [Peers -> Seq({"addr", "done"})] BY DEF SrqTypeOK
    <2>2. \/ UNCHANGED chan
          \/ \E m \in {"addr", "done"} : \/ TcpWrite(p, m) \/ TcpWriteAndClose(p, m)
                                         \/ TcpRead(p, m) \/ TcpReadAndClose(p, m)
      BY DEF ServerExchDest, ClientExchDest, GoesOn, ReadAddr, TcpListen, TcpConnect, tcp
    <2> QED BY <2>1, <2>2, ChanTypes
  <1>4. sock' \in [Peers -> {"none", "listening", "open", "closed"}]
    <2>1. \A q \in Peers, v \in {"none", "listening", "open", "closed"} :
             [sock EXCEPT ![q] = v] \in [Peers -> {"none", "listening", "open", "closed"}]
      BY DEF SrqTypeOK
    <2>2. [q \in Peers |-> "open"] \in [Peers -> {"none", "listening", "open", "closed"}]
      OBVIOUS
    <2>3. UNCHANGED sock => sock' \in [Peers -> {"none", "listening", "open", "closed"}]
      BY DEF SrqTypeOK
    <2>4. ASSUME ServerExchDest(p)
          PROVE  sock' \in [Peers -> {"none", "listening", "open", "closed"}]
      BY <2>1, <2>3, <2>4 DEF ServerExchDest, ReadAddr, TcpListen, TcpWrite, TcpRead,
         TcpReadAndClose, tcp
    <2>5. ASSUME ClientExchDest(p)
          PROVE  sock' \in [Peers -> {"none", "listening", "open", "closed"}]
      BY <2>1, <2>2, <2>3, <2>5 DEF ClientExchDest, ReadAddr, TcpConnect, TcpWrite, TcpRead,
         TcpWriteAndClose, tcp
    <2> QED BY <2>1, <2>4, <2>5 DEF GoesOn
  <1>5. known' \subseteq Peers
    BY DEF ServerExchDest, ClientExchDest, GoesOn, ReadAddr, SrqTypeOK
  <1>6. pc' \in [Peers -> Setup \cup Loop \cup Over]
    <2>1. \E to \in Setup : pc' = [pc EXCEPT ![p] = to]
      BY DEF ServerExchDest, ClientExchDest, GoesOn, ReadAddr, Step, Setup, Exchange
    <2> QED BY <2>1 DEF SrqTypeOK
  <1>7. UNCHANGED <<options, proc, nic, wire, sent, got>>
    BY DEF ServerExchDest, ClientExchDest, GoesOn, ReadAddr, Exchanging
  <1> QED BY <1>3, <1>4, <1>5, <1>6, <1>7 DEF SrqTypeOK, options, proc, nic, wire

LEMMA ConnectTypes == ASSUME SrqTypeOK, NEW p \in Peers, ConnectCtx(p) PROVE SrqTypeOK'
  <1>1. pc' \in [Peers -> Setup \cup Loop \cup Over]
    BY DEF ConnectCtx, SrqTypeOK, Step, Setup, Exchange
  <1>2. qp' \in [Peers -> {"none", "init", "rts"}] BY DEF ConnectCtx, IbvModifyRts, SrqTypeOK
  <1> QED BY <1>1, <1>2 DEF ConnectCtx, IbvModifyRts, SrqTypeOK, options, proc, tcp, wire

LEMMA LoopPlace == \A p, s, r : LoopHead(p, s, r) \in {"finish", "get_event", "poll"}
  BY DEF LoopHead

LEMMA ServeTypes == ASSUME SrqTypeOK, NEW p \in Peers, Serve(p) PROVE SrqTypeOK'
  <1>1. pc' \in [Peers -> Setup \cup Loop \cup Over]
    BY LoopPlace DEF Serve, SrqTypeOK, Step, Loop
  <1>2. pending' \in [Peers -> [Qps -> SUBSET Ops]] BY DEF Serve, SrqTypeOK, Ops
  <1>3. sq' \in [Peers -> [Qps -> {"idle", "posted", "acking"}]] BY DEF Serve, SrqTypeOK
  <1>4. sent' \in [Peers -> Nat] BY QpsFinite DEF Serve, SrqTypeOK
  <1> QED BY <1>1, <1>2, <1>3, <1>4 DEF Serve, SrqTypeOK, options, tcp, wire

LEMMA WaitTypes == ASSUME SrqTypeOK, NEW p \in Peers, GetCqEvent(p) \/ ReqNotify(p)
                   PROVE  SrqTypeOK'
  <1>1. pc' \in [Peers -> Setup \cup Loop \cup Over]
    <2>1. \E to \in Loop : pc' = [pc EXCEPT ![p] = to] BY DEF GetCqEvent, ReqNotify, Step, Loop
    <2> QED BY <2>1 DEF SrqTypeOK
  <1>2. events' \in [Peers -> Nat] /\ armed' \in [Peers -> BOOLEAN]
    <2>1. CASE GetCqEvent(p)
      <3>1. events[p] \in Nat /\ events[p] > 0 /\ events' = [events EXCEPT ![p] = @ - 1]
            /\ armed' = armed BY <2>1 DEF GetCqEvent, SrqTypeOK
      <3>2. events[p] - 1 \in Nat BY <3>1
      <3> QED BY <3>1, <3>2 DEF SrqTypeOK
    <2>2. CASE ReqNotify(p) BY <2>2 DEF ReqNotify, IbvReqNotifyCq, SrqTypeOK
    <2> QED BY <2>1, <2>2
  <1> QED BY <1>1, <1>2 DEF GetCqEvent, ReqNotify, IbvReqNotifyCq, SrqTypeOK,
             options, proc, tcp, wire

\* Poll takes the whole queue.
LEMMA PollEffect ==
  ASSUME SrqTypeOK, NEW p \in Peers, PollCq(p)
  PROVE  wc' = [wc EXCEPT ![p] = cq[p]] /\ cq' = [cq EXCEPT ![p] = <<>>]
  <1>1. cq[p] \in Seq(Entries) BY DEF SrqTypeOK
  <1>2. SubSeq(cq[p], 1, Len(cq[p])) = cq[p] BY <1>1, SubSeqFull
  <1>3. SubSeq(cq[p], Len(cq[p]) + 1, Len(cq[p])) = <<>> BY <1>1, SubSeqEmpty
  <1>4. cq[p] = cq[p] /\ DOMAIN cq = Peers BY DEF SrqTypeOK
  <1> QED BY <1>2, <1>3, <1>4 DEF PollCq, IbvPollCq

LEMMA PollTypes == ASSUME SrqTypeOK, NEW p \in Peers, PollCq(p) PROVE SrqTypeOK'
  <1>1. pc' \in [Peers -> Setup \cup Loop \cup Over]
    BY LoopPlace DEF PollCq, SrqTypeOK, Step, Loop
  <1>2. wc' \in [Peers -> Seq(Entries)] /\ cq' \in [Peers -> Seq(Entries)]
    <2>1. cq[p] \in Seq(Entries) /\ <<>> \in Seq(Entries) BY DEF SrqTypeOK
    <2>2. wc' = [wc EXCEPT ![p] = cq[p]] /\ cq' = [cq EXCEPT ![p] = <<>>] BY PollEffect
    <2> QED BY <2>1, <2>2 DEF SrqTypeOK
  <1> QED BY <1>1, <1>2 DEF PollCq, IbvPollCq, SrqTypeOK, options, tcp, wire

LEMMA RefillType == ASSUME NEW left \in Nat PROVE Refill(left) \in Nat
  BY QpsFinite DEF Refill

LEMMA ParsedTypes ==
  ASSUME SrqTypeOK, NEW p \in Peers, wc[p] # <<>>,
         NEW op \in Ops, NEW i \in Qps, Parsed(p, op, i),
         op = "RECV" => routs[p] >= 1
  PROVE  SrqTypeOK'
  <1> DEFINE s      == IF op = "SEND" THEN scnt[p] + 1 ELSE scnt[p]
             r      == IF op = "RECV" THEN rcnt[p] + 1 ELSE rcnt[p]
             left   == IF op = "RECV" THEN routs[p] - 1 ELSE routs[p]
             refill == IF op = "RECV" THEN Refill(left) ELSE 0
             answer == s < Iters /\ pending[p][i] \subseteq {op}
  <1>1. s \in Nat /\ r \in Nat /\ left \in Nat /\ refill \in Nat
    <2>1. s \in Nat /\ r \in Nat /\ left \in Nat BY DEF SrqTypeOK
    <2> QED BY <2>1, RefillType
  <1>2. /\ pc' = [pc EXCEPT ![p] = IF Len(wc[p]) > 1 THEN "parse" ELSE LoopHead(p, s, r)]
        /\ scnt' = [scnt EXCEPT ![p] = s] /\ rcnt' = [rcnt EXCEPT ![p] = r]
        /\ routs' = [routs EXCEPT ![p] = left + refill]
        /\ rq' = [rq EXCEPT ![p] = @ + refill]
        /\ pending' = [pending EXCEPT ![p][i] = IF answer THEN {"SEND", "RECV"} ELSE @ \ {op}]
        /\ sq' = [sq EXCEPT ![p][i] = IF answer THEN "posted" ELSE @]
        /\ sent' = [sent EXCEPT ![p] = IF answer THEN @ + 1 ELSE @]
        /\ wc' = [wc EXCEPT ![p] = Tail(@)]
        /\ UNCHANGED <<options, tcp, qp, cq, armed, events, wire, got, known>>
    BY DEF Parsed
  <1> HIDE DEF s, r, left, refill, answer
  <1>3. pc' \in [Peers -> Setup \cup Loop \cup Over] BY <1>2, LoopPlace DEF SrqTypeOK, Loop
  <1>4. scnt' \in [Peers -> Nat] /\ rcnt' \in [Peers -> Nat] BY <1>1, <1>2 DEF SrqTypeOK
  <1>5. routs' \in [Peers -> Nat] /\ rq' \in [Peers -> Nat]
    <2>1. routs \in [Peers -> Nat] /\ rq \in [Peers -> Nat] /\ rq[p] \in Nat BY DEF SrqTypeOK
    <2>2. left + refill \in Nat /\ rq[p] + refill \in Nat BY <2>1, <1>1
    <2> QED BY <2>1, <2>2, <1>2
  <1>6. pending' \in [Peers -> [Qps -> SUBSET Ops]] BY <1>2 DEF SrqTypeOK, Ops
  <1>7. sq' \in [Peers -> [Qps -> {"idle", "posted", "acking"}]] BY <1>2 DEF SrqTypeOK
  <1>8. sent' \in [Peers -> Nat] BY <1>2 DEF SrqTypeOK
  <1>9. wc' \in [Peers -> Seq(Entries)]
    <2>1. wc \in [Peers -> Seq(Entries)] /\ wc[p] \in Seq(Entries) BY DEF SrqTypeOK
    <2>2. Tail(wc[p]) \in Seq(Entries) BY <2>1
    <2> QED BY <2>1, <2>2, <1>2
  <1>10. UNCHANGED <<transport, faults, mode, cq, sock, chan, qp, armed, events, net, lost, got, known>>
    BY <1>2 DEF options, tcp, wire
  <1> QED BY <1>3, <1>4, <1>5, <1>6, <1>7, <1>8, <1>9, <1>10 DEF SrqTypeOK

LEMMA EntryType == \A op \in Ops, ok \in BOOLEAN, i \in Qps :
                     /\ Entry(op, ok, i) \in Entries
                     /\ Entry(op, ok, i).op = op /\ Entry(op, ok, i).qp = i
                     /\ Entry(op, ok, i).ok = ok
  BY DEF Entry, Entries

LEMMA CompletedTypes ==
  ASSUME SrqTypeOK, NEW p \in Peers, NEW c \in Entries, Completed(p, c)
  PROVE  /\ cq' = [cq EXCEPT ![p] = Append(cq[p], c)]
         /\ cq' \in [Peers -> Seq(Entries)]
         /\ armed' \in [Peers -> BOOLEAN] /\ events' \in [Peers -> Nat]
  <1>1. cq \in [Peers -> Seq(Entries)] /\ cq[p] \in Seq(Entries) BY DEF SrqTypeOK
  <1>2. Append(cq[p], c) \in Seq(Entries) BY <1>1
  <1>3. cq' = [cq EXCEPT ![p] = Append(cq[p], c)] BY DEF Completed
  <1>4. cq' \in [Peers -> Seq(Entries)] BY <1>1, <1>2, <1>3
  <1>5. armed' \in [Peers -> BOOLEAN] BY DEF Completed, SrqTypeOK
  <1>6. events' \in [Peers -> Nat] BY DEF Completed, SrqTypeOK
  <1> QED BY <1>3, <1>4, <1>5, <1>6

LEMMA AdapterTypes == ASSUME SrqTypeOK, NEW p \in Peers, Adapter(p) PROVE SrqTypeOK'
  <1>1. PICK i \in Qps : Deliver(p, i) \/ Acknowledge(p, i) \/ RetryExceeded(p, i)
    BY DEF Adapter
  <1>2. PICK q \in Peers, op \in Ops, ok \in BOOLEAN : Completed(q, Entry(op, ok, i))
    BY <1>1, PeerFacts DEF Deliver, Acknowledge, RetryExceeded, Ops
  <1>3. /\ cq' \in [Peers -> Seq(Entries)]
        /\ armed' \in [Peers -> BOOLEAN] /\ events' \in [Peers -> Nat]
    BY <1>2, EntryType, CompletedTypes
  <1>4. sq' \in [Peers -> [Qps -> {"idle", "posted", "acking"}]]
    <2>1. PICK v \in {"idle", "acking"} : sq' = [sq EXCEPT ![p][i] = v]
      BY <1>1 DEF Deliver, Acknowledge, RetryExceeded
    <2> QED BY <2>1 DEF SrqTypeOK
  <1>5. rq' \in [Peers -> Nat] /\ got' \in [Peers -> Nat]
    <2>1. rq \in [Peers -> Nat] /\ got \in [Peers -> Nat] /\ Other(p) \in Peers
      BY PeerFacts DEF SrqTypeOK
    <2>2. CASE Deliver(p, i)
      <3>1. /\ rq[Other(p)] > 0
            /\ rq' = [rq EXCEPT ![Other(p)] = @ - 1]
            /\ got' = [got EXCEPT ![Other(p)] = @ + 1] BY <2>2 DEF Deliver, Ready
      <3>2. rq[Other(p)] - 1 \in Nat /\ got[Other(p)] + 1 \in Nat BY <2>1, <3>1
      <3> QED BY <2>1, <3>1, <3>2
    <2>3. CASE ~Deliver(p, i)
      <3>1. UNCHANGED <<rq, got>> BY <2>3, <1>1 DEF Acknowledge, RetryExceeded
      <3> QED BY <2>1, <3>1
    <2> QED BY <2>2, <2>3
  <1>7. UNCHANGED <<program, qp, wire, sent, known>>
    BY <1>1 DEF Deliver, Acknowledge, RetryExceeded
  <1> QED BY <1>3, <1>4, <1>5, <1>7 DEF SrqTypeOK, program, options, proc, tcp, wire

-----------------------------------------------------------------------------
(* One ball for each queue pair.                                           *)

Unserved(p) == pc[p] \in Setup

Ordered(l) == /\ Distinct(l)
              /\ Len(l) = Cardinality(In(l, "SEND")) + Cardinality(In(l, "RECV"))

\* What the process counts is what it has.
Receives(p) == /\ routs[p] = rq[p] + Cardinality(In(Line(p), "RECV"))
               /\ routs[p] <= RxDepth
               /\ pc[p] # "start" => NumQp <= routs[p]

Sends(p) == \A i \in Qps :
  /\ i \in In(Line(p), "SEND") => sq[p][i] = "idle"
  /\ sq[p][i] # "idle" \/ i \in In(Line(p), "SEND") => "SEND" \in pending[p][i]

Queues(p) ==
  /\ Live(p) => (wc[p] # <<>> <=> pc[p] = "parse")
  /\ Live(p) => Ordered(Line(p)) /\ Receives(p) /\ Sends(p)
  /\ ~ Live(p) => cq[p] = <<>> /\ sq[p] = Idle /\ rq[p] = 0 /\ qp[p] = "none"
  /\ pc[p] = "start" => cq[p] = <<>> /\ rq[p] = 0 /\ qp[p] = "none"
  /\ Unserved(p) => \A i \in Qps : pending[p][i] = {}

\* Where the ball of queue pair i is: on its way to p, in the line of p, or
\* in the hands of p.  The client has all of them to begin with.
Coming(p, i)  == sq[Other(p)][i] = "posted"
Arrived(p, i) == Live(p) /\ i \in In(Line(p), "RECV")
Held(p, i)    == /\ Live(p) /\ (p = "server" => ~ Unserved(p))
                 /\ "RECV" \notin pending[p][i]

OneBall(p, i) ==
  LET q == Other(p) IN
  /\ Coming(p, i) => /\ ~ Arrived(p, i) /\ ~ Held(p, i)
                     /\ ~ Coming(q, i) /\ ~ Arrived(q, i) /\ ~ Held(q, i)
  /\ Arrived(p, i) => ~ Held(p, i) /\ ~ Arrived(q, i) /\ ~ Held(q, i)
  /\ Held(p, i) => ~ Held(q, i)

BallInv == /\ SrqTypeOK
           /\ \A p \in Peers : Queues(p)
           /\ \A p \in Peers, i \in Qps : OneBall(p, i)

\* The three parts of the program.
LEMMA PlaceFacts ==
  /\ \A p \in Peers : Unserved(p) => Live(p) /\ pc[p] # "parse"
  /\ \A p \in Peers : pc[p] = "start" => Unserved(p)
  /\ \A p \in Peers : pc[p] \in Loop => Live(p) /\ ~ Unserved(p)
  /\ \A p \in Peers : pc[p] \in Over => ~ Live(p) /\ ~ Unserved(p)
  BY DEF Unserved, Live, Setup, Exchange, Loop, Over

LEMMA LineType == ASSUME SrqTypeOK, NEW p \in Peers
                  PROVE  /\ wc[p] \in Seq(Entries) /\ cq[p] \in Seq(Entries)
                         /\ Line(p) \in Seq(Entries)
                         /\ Line(p) = wc[p] \o cq[p]
  <1>1. wc[p] \in Seq(Entries) /\ cq[p] \in Seq(Entries) BY DEF SrqTypeOK
  <1> QED BY <1>1 DEF Line

\* How the line of a process changes when its parts do.
LEMMA LineSteps ==
  ASSUME NEW s \in Seq(Entries), NEW t \in Seq(Entries)
  PROVE  /\ s = <<>> => t \o <<>> = s \o t /\ s \o t = t
         /\ \A c \in Entries : s \o Append(t, c) = Append(s \o t, c)
         /\ s # <<>> => /\ Tail(s) \o t = Tail(s \o t) /\ Head(s) = Head(s \o t)
                        /\ s \o t # <<>> /\ (Len(s) > 1 <=> Tail(s) # <<>>)
  <1>1. s = <<>> => t \o <<>> = s \o t /\ s \o t = t OBVIOUS
  <1>2. ASSUME NEW c \in Entries PROVE s \o Append(t, c) = Append(s \o t, c) OBVIOUS
  <1>3. ASSUME s # <<>> PROVE /\ Tail(s) \o t = Tail(s \o t) /\ Head(s) = Head(s \o t)
                              /\ s \o t # <<>> BY <1>3
  <1>4. ASSUME s # <<>> PROVE Len(s) > 1 <=> Tail(s) # <<>>
    <2>1. Len(s) \in Nat /\ Len(s) # 0 /\ Tail(s) \in Seq(Entries) /\ Len(Tail(s)) = Len(s) - 1
      BY <1>4
    <2>2. Tail(s) = <<>> <=> Len(Tail(s)) = 0 BY <2>1
    <2> QED BY <2>1, <2>2
  <1> QED BY <1>1, <1>2, <1>3, <1>4

\* A process that no step touches.
Untouched(p) == UNCHANGED <<pc[p], pending[p], routs[p], rq[p], wc[p], cq[p], sq[p], qp[p]>>

LEMMA QueuesKept == ASSUME NEW p \in Peers, Queues(p), Untouched(p) PROVE Queues(p)'
  BY DEF Queues, Untouched, Live, Ordered, Receives, Sends, Line, Unserved

\* Only the call a process is at has changed, and perhaps its queue pair.
Moves(p) == /\ UNCHANGED <<pending[p], routs[p], rq[p], wc[p], cq[p], sq[p]>>
            /\ Live(p) /\ Live(p)' /\ pc[p] \notin {"start", "parse"}
            /\ pc[p]' \notin {"start", "parse"} /\ (Unserved(p) <=> Unserved(p)')

LEMMA QueuesMove == ASSUME NEW p \in Peers, Queues(p), Moves(p) PROVE Queues(p)'
  BY DEF Queues, Moves, Live, Ordered, Receives, Sends, Line, Unserved

LEMMA BallsKept ==
  ASSUME \A p \in Peers, i \in Qps : OneBall(p, i),
         \A p \in Peers, i \in Qps : /\ Coming(p, i)' => Coming(p, i)
                                     /\ Arrived(p, i)' => Arrived(p, i)
                                     /\ Held(p, i)' => Held(p, i)
  PROVE  \A p \in Peers, i \in Qps : OneBall(p, i)'
  <1> TAKE p \in Peers, i \in Qps
  <1>1. Other(p) \in Peers BY PeerFacts
  <1>2. (Other(p))' = Other(p) BY DEF Other
  <1> QED BY <1>1, <1>2 DEF OneBall

LEMMA OtherKeeps ==
  ASSUME NEW p \in Peers, Untouched(Other(p))
  PROVE  LET q == Other(p) IN
         \A i \in Qps : /\ Coming(p, i)' <=> Coming(p, i)
                        /\ Arrived(q, i)' <=> Arrived(q, i)
                        /\ Held(q, i)' <=> Held(q, i)
  BY PeerFacts DEF Untouched, Coming, Arrived, Held, Live, Line, Unserved, Other

\* A step of one process that puts no ball anywhere.
LEMMA BallFrom ==
  ASSUME BallInv, SrqTypeOK', NEW p \in Peers, Queues(p)', Untouched(Other(p)),
         \A i \in Qps : /\ sq'[p][i] = "posted" => sq[p][i] = "posted"
                        /\ Arrived(p, i)' => Arrived(p, i)
                        /\ Held(p, i)' => Held(p, i)
  PROVE  BallInv'
  <1> DEFINE q == Other(p)
  <1>1. q \in Peers /\ Other(q) = p /\ \A r \in Peers : r = p \/ r = q BY PeerFacts
  <1>2. Queues(q)' BY <1>1, QueuesKept DEF BallInv
  <1>3. \A i \in Qps : /\ Coming(p, i)' <=> Coming(p, i)
                       /\ Arrived(q, i)' <=> Arrived(q, i)
                       /\ Held(q, i)' <=> Held(q, i) BY OtherKeeps
  <1>4. \A i \in Qps : Coming(q, i)' => Coming(q, i)
    <2>1. \A i \in Qps : /\ Coming(q, i) <=> sq[p][i] = "posted"
                         /\ Coming(q, i)' <=> sq'[p][i] = "posted"
      BY <1>1 DEF Coming, Other
    <2> QED BY <2>1
  <1>5. \A r \in Peers, i \in Qps : OneBall(r, i)'
    <2>1. \A r \in Peers, i \in Qps : /\ Coming(r, i)' => Coming(r, i)
                                      /\ Arrived(r, i)' => Arrived(r, i)
                                      /\ Held(r, i)' => Held(r, i)
      BY <1>1, <1>3, <1>4
    <2> QED BY <2>1, BallsKept DEF BallInv
  <1>6. \A r \in Peers : Queues(r)' BY <1>1, <1>2
  <1> QED BY <1>5, <1>6 DEF BallInv

LEMMA MovesBall ==
  ASSUME BallInv, SrqTypeOK', NEW p \in Peers, Moves(p), Untouched(Other(p))
  PROVE  BallInv'
  <1>1. Queues(p)' BY QueuesMove DEF BallInv
  <1>2. \A i \in Qps : /\ sq'[p][i] = "posted" => sq[p][i] = "posted"
                       /\ Arrived(p, i)' => Arrived(p, i)
                       /\ Held(p, i)' => Held(p, i)
    BY DEF Moves, Arrived, Held, Line
  <1> QED BY <1>1, <1>2, BallFrom

\* A step of process p from one place to another that leaves its completions
\* and the other process alone.
LEMMA StepMoves ==
  ASSUME SrqTypeOK, NEW p \in Peers, NEW from, NEW to, Step(p, from, to),
         \/ from \in Setup /\ to \in Setup
         \/ from \in Loop /\ to \in Loop,
         from \notin {"start", "parse"}, to \notin {"start", "parse"},
         UNCHANGED <<proc, rq, sq, cq>>,
         \A r \in Peers : r # p => qp'[r] = qp[r]
  PROVE  Moves(p) /\ Untouched(Other(p))
  <1>1. Other(p) \in Peers /\ Other(p) # p BY PeerFacts
  <1>2. pc[p] = from /\ pc'[p] = to /\ pc'[Other(p)] = pc[Other(p)]
    BY <1>1 DEF Step, SrqTypeOK
  <1>3. UNCHANGED <<pending, routs, wc>> BY DEF proc
  <1>4. Untouched(Other(p)) BY <1>1, <1>2, <1>3 DEF Untouched
  <1>5. /\ Live(p) /\ Live(p)' /\ (Unserved(p) <=> Unserved(p)')
    BY <1>2 DEF Live, Unserved, Setup, Exchange, Loop
  <1> QED BY <1>2, <1>3, <1>4, <1>5 DEF Moves

\* The exchange, the connection, and the waiting in the loop.
LEMMA QuietMoves ==
  ASSUME SrqTypeOK, NEW p \in Peers,
         \/ p = "server" /\ ServerExchDest(p)
         \/ p = "client" /\ ClientExchDest(p)
         \/ ConnectCtx(p) \/ GetCqEvent(p) \/ ReqNotify(p) \/ GoesOn(p)
  PROVE  /\ Moves(p) /\ Untouched(Other(p)) /\ pc'[p] # "finish"
         /\ UNCHANGED <<scnt, rcnt, got>>
  <1>2. UNCHANGED <<proc, rq, sq, cq>>
    BY DEF ServerExchDest, ClientExchDest, ReadAddr, Exchanging, ConnectCtx, IbvModifyRts,
       GetCqEvent, ReqNotify, IbvReqNotifyCq, GoesOn, nic
  <1>3. \A r \in Peers : r # p => qp'[r] = qp[r]
    BY DEF ServerExchDest, ClientExchDest, ReadAddr, Exchanging, ConnectCtx, IbvModifyRts,
       GetCqEvent, ReqNotify, IbvReqNotifyCq, GoesOn, nic, SrqTypeOK
  <1>4. \/ \E from, to \in Setup \ {"start", "parse"} : Step(p, from, to)
        \/ \E from, to \in Loop \ {"start", "parse", "finish"} : Step(p, from, to)
    <2>1. ServerExchDest(p) \/ ClientExchDest(p) =>
            \/ Step(p, "listen", "accept") \/ Step(p, "accept", "read_addr")
            \/ Step(p, "read_addr", "connect") \/ Step(p, "write_addr", "read_done")
            \/ Step(p, "read_done", "serve") \/ Step(p, "dial", "write_addr")
            \/ Step(p, "write_addr", "read_addr") \/ Step(p, "read_addr", "write_done")
            \/ Step(p, "write_done", "connect")
      BY DEF ServerExchDest, ClientExchDest, ReadAddr
    <2>2. ConnectCtx(p) => Step(p, "connect", "write_addr") \/ Step(p, "connect", "serve")
      BY DEF ConnectCtx
    <2>3. GetCqEvent(p) \/ ReqNotify(p) =>
            Step(p, "get_event", "req_notify") \/ Step(p, "req_notify", "poll")
      BY DEF GetCqEvent, ReqNotify
    <2>4. GoesOn(p) => \/ Step(p, "read_addr", "serve") \/ Step(p, "read_addr", "connect")
                       \/ Step(p, "write_done", "connect")
      BY DEF GoesOn, Step
    <2>5. /\ {"listen", "accept", "dial", "write_addr", "read_addr", "write_done", "read_done",
              "connect", "serve"} \subseteq Setup \ {"start", "parse"}
          /\ {"get_event", "req_notify", "poll"} \subseteq Loop \ {"start", "parse", "finish"}
      BY DEF Setup, Loop, Exchange
    <2>6. CASE GetCqEvent(p) \/ ReqNotify(p) BY <2>3, <2>5, <2>6
    <2>7. CASE ConnectCtx(p) BY <2>2, <2>5, <2>7
    <2>8. CASE GoesOn(p) BY <2>4, <2>5, <2>8
    <2>9. CASE ServerExchDest(p) \/ ClientExchDest(p) BY <2>1, <2>5, <2>9
    <2> QED BY <2>6, <2>7, <2>8, <2>9
  <1>5. Moves(p) /\ Untouched(Other(p)) BY <1>2, <1>3, <1>4, StepMoves
  <1>6. UNCHANGED <<scnt, rcnt, got>>
    BY <1>2 DEF ServerExchDest, ClientExchDest, ReadAddr, Exchanging, ConnectCtx, GetCqEvent,
       ReqNotify, GoesOn, proc
  <1>7. pc'[p] # "finish" BY <1>4 DEF Step, SrqTypeOK, Setup, Exchange
  <1> QED BY <1>5, <1>6, <1>7

LEMMA QuietBall ==
  ASSUME BallInv, NEW p \in Peers,
         \/ p = "server" /\ ServerExchDest(p)
         \/ p = "client" /\ ClientExchDest(p)
         \/ ConnectCtx(p) \/ GetCqEvent(p) \/ ReqNotify(p) \/ GoesOn(p)
  PROVE  BallInv'
  <1>1. SrqTypeOK BY DEF BallInv
  <1>2. SrqTypeOK' BY <1>1, ExchangeTypes, ConnectTypes, WaitTypes
  <1>3. Moves(p) /\ Untouched(Other(p)) BY <1>1, QuietMoves
  <1> QED BY <1>2, <1>3, MovesBall

\* The receives are posted.
LEMMA PrepareBall == ASSUME BallInv, NEW p \in Peers, Prepare(p) PROVE BallInv'
  <1>0. SrqTypeOK /\ Queues(p) /\ Other(p) \in Peers /\ Other(p) # p BY PeerFacts DEF BallInv
  <1>1. SrqTypeOK' BY <1>0, PrepareTypes
  <1>2. /\ pc[p] = "start" /\ pc'[p] \in {"listen", "dial"} /\ pc'[Other(p)] = pc[Other(p)]
        /\ UNCHANGED <<pending, wc, cq, sq>>
        /\ routs'[p] = RxDepth /\ rq'[p] = RxDepth
        /\ UNCHANGED <<routs[Other(p)], rq[Other(p)], qp[Other(p)]>>
    BY <1>0 DEF Prepare, Step, IbvCreate, SrqTypeOK
  <1>3. Untouched(Other(p)) BY <1>2 DEF Untouched
  <1>4. Unserved(p) /\ Unserved(p)' /\ Live(p) /\ Live(p)'
    BY <1>2 DEF Unserved, Live, Setup, Exchange
  <1>5. wc[p] = <<>> /\ cq[p] = <<>> BY <1>0, <1>2, <1>4 DEF Queues
  <1>6. Line(p) = <<>> /\ Line(p)' = <<>>
    <2>1. <<>> \o <<>> = <<>> OBVIOUS
    <2> QED BY <1>2, <1>5, <2>1 DEF Line
  <1>7. Receives(p)' BY <1>2, <1>6, NothingIn, QpsFinite DEF Receives
  <1>8. Queues(p)'
    BY <1>0, <1>2, <1>4, <1>5, <1>6, <1>7, PlaceFacts DEF Queues, Sends
  <1>9. \A i \in Qps : /\ sq'[p][i] = "posted" => sq[p][i] = "posted"
                       /\ Arrived(p, i)' => Arrived(p, i)
                       /\ Held(p, i)' => Held(p, i)
    BY <1>2, <1>4, <1>6 DEF Arrived, Held
  <1> QED BY <1>1, <1>3, <1>8, <1>9, BallFrom

\* A side that has ended has nothing in its queues.
LEMMA LeaveBall ==
  ASSUME BallInv, NEW p \in Peers, NEW how \in Over, Leave(p, how)
  PROVE  BallInv'
  <1>0. SrqTypeOK /\ Queues(p) /\ Other(p) \in Peers /\ Other(p) # p BY PeerFacts DEF BallInv
  <1>1. SrqTypeOK' BY <1>0, LeaveTypes
  <1>2. /\ pc'[p] = how /\ qp'[p] = "none" /\ rq'[p] = 0 /\ sq'[p] = Idle /\ cq'[p] = <<>>
        /\ UNCHANGED <<pending, routs, wc>>
    BY <1>0 DEF Leave, SrqTypeOK, proc
  <1>3. Untouched(Other(p)) BY <1>0, <1>2 DEF Untouched, Leave, SrqTypeOK
  <1>4. ~ Live(p)' /\ ~ Unserved(p)' /\ pc'[p] # "start"
    BY <1>2 DEF Live, Unserved, Over, Setup, Exchange
  <1>5. Queues(p)' BY <1>2, <1>4 DEF Queues
  <1>6. \A i \in Qps : /\ sq'[p][i] = "posted" => sq[p][i] = "posted"
                       /\ Arrived(p, i)' => Arrived(p, i)
                       /\ Held(p, i)' => Held(p, i)
    BY <1>2, <1>4 DEF Arrived, Held, Idle
  <1> QED BY <1>1, <1>3, <1>5, <1>6, BallFrom

LEMMA LoopHeadPlace ==
  \A p, s, r : /\ LoopHead(p, s, r) \in Loop
               /\ LoopHead(p, s, r) \notin {"start", "parse"}
  BY LoopPlace DEF Loop

\* The client serves: the balls it holds are under way.
LEMMA ServeBall == ASSUME BallInv, NEW p \in Peers, Serve(p) PROVE BallInv'
  <1> DEFINE q == Other(p)
  <1>0. SrqTypeOK /\ Queues(p) /\ Queues(q) /\ q \in Peers /\ q # p /\ Other(q) = p
        /\ (\A r \in Peers : r = p \/ r = q)
        /\ \A i \in Qps : OneBall(p, i) /\ OneBall(q, i)
    BY PeerFacts DEF BallInv
  <1>1. SrqTypeOK' BY <1>0, ServeTypes
  <1>2. /\ pc[p] = "serve" /\ pc'[p] \in Loop \ {"start", "parse"} /\ pc'[q] = pc[q]
        /\ UNCHANGED <<routs, wc, rq, cq, qp, pending[q], sq[q]>>
    BY <1>0, LoopHeadPlace DEF Serve, Step, SrqTypeOK
  <1>3. /\ pending'[p] = [i \in Qps |-> IF p = "client" THEN {"SEND", "RECV"} ELSE {"RECV"}]
        /\ sq'[p] = IF p = "client" THEN [i \in Qps |-> "posted"] ELSE sq[p]
    BY <1>0 DEF Serve, SrqTypeOK
  <1>4. Untouched(q) BY <1>2 DEF Untouched
  <1>5. /\ Unserved(p) /\ Live(p) /\ pc[p] # "parse" /\ Live(p)' /\ ~ Unserved(p)'
    BY <1>2, PlaceFacts DEF Unserved, Live, Setup, Loop, Exchange
  <1>6. Line(p)' = Line(p) BY <1>2 DEF Line
  <1>7. \A i \in Qps : pending[p][i] = {} /\ sq[p][i] = "idle" /\ i \notin In(Line(p), "SEND")
    <2>1. \A i \in Qps : pending[p][i] = {} BY <1>0, <1>5 DEF Queues
    <2>2. Sends(p) BY <1>0, <1>5 DEF Queues
    <2> QED BY <2>1, <2>2 DEF Sends
  <1>8. Queues(p)'
    <2>1. Sends(p)' BY <1>3, <1>6, <1>7 DEF Sends
    <2>2. Receives(p)' BY <1>0, <1>2, <1>5, <1>6 DEF Queues, Receives
    <2>3. wc[p] = <<>> BY <1>0, <1>5 DEF Queues
    <2>4. Ordered(Line(p)') BY <1>0, <1>5, <1>6 DEF Queues
    <2> QED BY <2>1, <2>2, <2>3, <2>4, <1>2, <1>5 DEF Queues
  <1>9. CASE p = "server"
    <2>1. \A i \in Qps : /\ sq'[p][i] = "posted" => sq[p][i] = "posted"
                         /\ Arrived(p, i)' => Arrived(p, i)
                         /\ Held(p, i)' => Held(p, i)
      BY <1>3, <1>5, <1>6, <1>9 DEF Arrived, Held
    <2> QED BY <1>1, <1>4, <1>8, <2>1, BallFrom
  <1>10. CASE p = "client"
    <2>1. \A i \in Qps : Held(p, i) /\ ~ Held(p, i)' /\ (Arrived(p, i)' => Arrived(p, i))
      BY <1>3, <1>5, <1>6, <1>7, <1>10 DEF Arrived, Held
    <2>2. \A i \in Qps : /\ Coming(p, i)' <=> Coming(p, i)
                         /\ Arrived(q, i)' <=> Arrived(q, i)
                         /\ Held(q, i)' <=> Held(q, i) BY <1>4, OtherKeeps
    <2>3. \A i \in Qps : OneBall(p, i)' /\ OneBall(q, i)'
      <3> TAKE i \in Qps
      <3>1. /\ ~ Coming(p, i) /\ ~ Arrived(p, i) /\ ~ Coming(q, i) /\ ~ Arrived(q, i) /\ ~ Held(q, i)
        BY <1>0, <2>1 DEF OneBall
      <3>2. (Other(p))' = q /\ (Other(q))' = p BY <1>0 DEF Other
      <3> QED BY <3>1, <3>2, <2>1, <2>2 DEF OneBall
    <2>4. Queues(q)' BY <1>0, <1>4, QueuesKept
    <2>5. \A r \in Peers : Queues(r)' /\ \A i \in Qps : OneBall(r, i)'
      BY <1>0, <1>8, <2>3, <2>4
    <2> QED BY <1>1, <2>5 DEF BallInv
  <1> QED BY <1>9, <1>10 DEF Peers

\* Completions move from the queue to the program, the line stays.
LEMMA PollBall == ASSUME BallInv, NEW p \in Peers, PollCq(p) PROVE BallInv'
  <1>0. SrqTypeOK /\ Queues(p) /\ Other(p) \in Peers /\ Other(p) # p BY PeerFacts DEF BallInv
  <1>1. SrqTypeOK' BY <1>0, PollTypes
  <1>2. wc' = [wc EXCEPT ![p] = cq[p]] /\ cq' = [cq EXCEPT ![p] = <<>>]
    BY <1>0, PollEffect
  <1>3. wc'[p] = cq[p] /\ cq'[p] = <<>> /\ wc'[Other(p)] = wc[Other(p)]
        /\ cq'[Other(p)] = cq[Other(p)] BY <1>0, <1>2 DEF SrqTypeOK
  <1>4. /\ pc[p] = "poll" /\ pc'[Other(p)] = pc[Other(p)]
        /\ pc'[p] \in Loop \ {"start"} /\ (pc'[p] = "parse" <=> cq[p] # <<>>)
        /\ UNCHANGED <<pending, routs, rq, sq, qp>>
    BY <1>0, LoopHeadPlace DEF PollCq, Step, IbvPollCq, SrqTypeOK, Loop
  <1>5. Untouched(Other(p)) BY <1>3, <1>4 DEF Untouched
  <1>6. Live(p) /\ Live(p)' /\ ~ Unserved(p) /\ ~ Unserved(p)' /\ pc[p] # "parse"
    BY <1>4 DEF Unserved, Live, Setup, Exchange, Loop
  <1>7. Line(p)' = Line(p)
    <2>1. wc[p] = <<>> BY <1>0, <1>6 DEF Queues
    <2>2. wc[p] \in Seq(Entries) /\ cq[p] \in Seq(Entries) BY <1>0, LineType
    <2> QED BY <2>1, <2>2, <1>3, LineSteps DEF Line
  <1>8. Queues(p)'
    BY <1>0, <1>3, <1>4, <1>6, <1>7 DEF Queues, Receives, Sends
  <1>9. \A i \in Qps : /\ sq'[p][i] = "posted" => sq[p][i] = "posted"
                       /\ Arrived(p, i)' => Arrived(p, i)
                       /\ Held(p, i)' => Held(p, i)
    BY <1>4, <1>6, <1>7 DEF Arrived, Held
  <1> QED BY <1>1, <1>5, <1>8, <1>9, BallFrom

\* What is added to the receives when one has been used.
LEMMA RefillFacts ==
  ASSUME NEW left \in Nat, left + 1 <= RxDepth, NumQp <= left + 1
  PROVE  /\ Refill(left) \in Nat
         /\ left + Refill(left) <= RxDepth /\ NumQp <= left + Refill(left)
  BY QpsFinite DEF Refill

LEMMA RefillSum == \A a, b, c, n \in Nat : a = b + c /\ c >= 1 => (a - 1) + n = (b + n) + (c - 1)
  OBVIOUS

\* What process p counts when it has looked at a completion of kind op on queue
\* pair i, the receives it posts, and whether it answers.
ScntNow(p, op)    == IF op = "SEND" THEN scnt[p] + 1 ELSE scnt[p]
RcntNow(p, op)    == IF op = "RECV" THEN rcnt[p] + 1 ELSE rcnt[p]
LeftNow(p, op)    == IF op = "RECV" THEN routs[p] - 1 ELSE routs[p]
RefillNow(p, op)  == IF op = "RECV" THEN Refill(LeftNow(p, op)) ELSE 0
Answers(p, op, i) == ScntNow(p, op) < Iters /\ pending[p][i] \subseteq {op}

Looked(p, op, i) ==
  /\ op \in Ops /\ i \in Qps /\ wc[p] # <<>> /\ (op = "RECV" => routs[p] >= 1)
  /\ Live(p) /\ Live(p)' /\ ~ Unserved(p) /\ ~ Unserved(p)' /\ pc'[p] # "start"
  /\ (pc'[p] = "parse" <=> wc'[p] # <<>>)
  /\ pc'[p] \in {"parse", LoopHead(p, ScntNow(p, op), RcntNow(p, op))}
  /\ Line(p) # <<>> /\ Head(Line(p)) = Head(wc[p])
  /\ Line(p)' = Tail(Line(p)) /\ i \in In(Line(p), op)
  /\ scnt'[p] = ScntNow(p, op) /\ rcnt'[p] = RcntNow(p, op)
  /\ routs'[p] = LeftNow(p, op) + RefillNow(p, op)
  /\ rq'[p] = rq[p] + RefillNow(p, op)
  /\ pending'[p][i] = (IF Answers(p, op, i) THEN {"SEND", "RECV"}
                       ELSE pending[p][i] \ {op})
  /\ sq'[p][i] = (IF Answers(p, op, i) THEN "posted" ELSE sq[p][i])
  /\ \A j \in Qps : j # i => pending'[p][j] = pending[p][j] /\ sq'[p][j] = sq[p][j]
  /\ UNCHANGED <<cq, qp, got>>
  /\ Untouched(Other(p))

\* Parsed, read for one process, with the names above.
LEMMA ParsedEffect ==
  ASSUME BallInv, NEW p \in Peers, pc[p] = "parse",
         NEW op, NEW i, op = Head(wc[p]).op, i = Head(wc[p]).qp, Parsed(p, op, i)
  PROVE  Looked(p, op, i)
  <1>0. SrqTypeOK /\ Queues(p) /\ Other(p) \in Peers /\ Other(p) # p BY PeerFacts DEF BallInv
  <1>1. Live(p) /\ ~ Unserved(p) BY PlaceFacts DEF Loop
  <1>2. wc[p] # <<>> /\ Ordered(Line(p)) /\ Receives(p) BY <1>0, <1>1 DEF Queues
  <1>3. wc[p] \in Seq(Entries) /\ cq[p] \in Seq(Entries) /\ Line(p) \in Seq(Entries)
        /\ Line(p) = wc[p] \o cq[p] BY <1>0, LineType
  <1>4. /\ Line(p) # <<>> /\ Head(Line(p)) = Head(wc[p])
        /\ Tail(Line(p)) = Tail(wc[p]) \o cq[p]
        /\ (Len(wc[p]) > 1 <=> Tail(wc[p]) # <<>>)
    <2>1. wc[p] # <<>> =>
            /\ Tail(wc[p]) \o cq[p] = Tail(wc[p] \o cq[p])
            /\ Head(wc[p]) = Head(wc[p] \o cq[p])
            /\ wc[p] \o cq[p] # <<>> /\ (Len(wc[p]) > 1 <=> Tail(wc[p]) # <<>>)
      BY <1>3, LineSteps, Zenon
    <2> QED BY <1>2, <1>3, <2>1, Zenon
  <1>5. op \in Ops /\ i \in Qps /\ i \in In(Line(p), op) /\ Cardinality(In(Line(p), op)) >= 1
    BY <1>2, <1>3, <1>4, LineShrinks DEF Ordered
  <1>6. op = "RECV" => routs[p] >= 1
    <2>1. rq[p] \in Nat /\ Cardinality(In(Line(p), "RECV")) \in Nat
      BY <1>0, InFinite DEF SrqTypeOK
    <2>2. routs[p] = rq[p] + Cardinality(In(Line(p), "RECV")) BY <1>2 DEF Receives
    <2> QED BY <2>1, <2>2, <1>5
  <1>7. /\ pc' = [pc EXCEPT ![p] = IF Len(wc[p]) > 1 THEN "parse" ELSE LoopHead(p, ScntNow(p, op), RcntNow(p, op))]
        /\ scnt' = [scnt EXCEPT ![p] = ScntNow(p, op)] /\ rcnt' = [rcnt EXCEPT ![p] = RcntNow(p, op)]
        /\ routs' = [routs EXCEPT ![p] = LeftNow(p, op) + RefillNow(p, op)]
        /\ rq' = [rq EXCEPT ![p] = @ + RefillNow(p, op)]
        /\ pending' = [pending EXCEPT ![p][i] = IF Answers(p, op, i) THEN {"SEND", "RECV"} ELSE @ \ {op}]
        /\ sq' = [sq EXCEPT ![p][i] = IF Answers(p, op, i) THEN "posted" ELSE @]
        /\ wc' = [wc EXCEPT ![p] = Tail(@)]
        /\ UNCHANGED <<cq, qp, got>>
    BY DEF Parsed, ScntNow, RcntNow, LeftNow, RefillNow, Answers
  <1>8. /\ pc'[p] = (IF Len(wc[p]) > 1 THEN "parse" ELSE LoopHead(p, ScntNow(p, op), RcntNow(p, op)))
        /\ wc'[p] = Tail(wc[p]) /\ cq'[p] = cq[p]
        /\ scnt'[p] = ScntNow(p, op) /\ rcnt'[p] = RcntNow(p, op)
        /\ routs'[p] = LeftNow(p, op) + RefillNow(p, op) /\ rq'[p] = rq[p] + RefillNow(p, op)
        /\ pending'[p][i] = (IF Answers(p, op, i) THEN {"SEND", "RECV"}
                             ELSE pending[p][i] \ {op})
        /\ sq'[p][i] = (IF Answers(p, op, i) THEN "posted" ELSE sq[p][i])
        /\ \A j \in Qps : j # i => pending'[p][j] = pending[p][j] /\ sq'[p][j] = sq[p][j]
    BY <1>0, <1>5, <1>7 DEF SrqTypeOK
  <1>9. Untouched(Other(p)) BY <1>0, <1>7 DEF Untouched, SrqTypeOK
  <1>10. pc'[p] \in Loop \ {"start"} BY <1>8, LoopHeadPlace DEF Loop
  <1>11. Live(p)' /\ ~ Unserved(p)' /\ pc'[p] # "start"
    BY <1>10 DEF Live, Unserved, Loop, Setup, Exchange
  <1>12. pc'[p] = "parse" <=> wc'[p] # <<>>
    BY <1>4, <1>8, LoopHeadPlace
  <1>13. Line(p)' = Tail(Line(p)) BY <1>4, <1>8 DEF Line
  <1> QED BY <1>1, <1>2, <1>4, <1>5, <1>6, <1>7, <1>8, <1>9, <1>11, <1>12, <1>13
          DEF Looked

\* The order of a line outlasts its steps.
LEMMA OrderedShrinks ==
  ASSUME NEW l \in Seq(Entries), l # <<>>, Ordered(l)
  PROVE  Ordered(Tail(l))
  <1> DEFINE t == Tail(l)  c == Head(l)
  <1>1. /\ t \in Seq(Entries) /\ c.op \in Ops /\ Distinct(t) /\ Len(t) = Len(l) - 1
        /\ Cardinality(In(t, c.op)) = Cardinality(In(l, c.op)) - 1
        /\ Cardinality(In(l, c.op)) >= 1
        /\ \A op \in Ops : op # c.op => In(t, op) = In(l, op)
    BY LineShrinks DEF Ordered
  <1> HIDE DEF t, c
  <1>2. /\ Cardinality(In(l, "SEND")) \in Nat /\ Cardinality(In(l, "RECV")) \in Nat
        /\ Len(l) = Cardinality(In(l, "SEND")) + Cardinality(In(l, "RECV"))
    BY InFinite DEF Ordered
  <1>3. ASSUME c.op = "SEND" PROVE Ordered(t)
    <2>1. /\ Cardinality(In(t, "SEND")) = Cardinality(In(l, "SEND")) - 1
          /\ Cardinality(In(t, "RECV")) = Cardinality(In(l, "RECV"))
      BY <1>1, <1>3 DEF Ops
    <2>2. Len(t) = Cardinality(In(t, "SEND")) + Cardinality(In(t, "RECV"))
      BY <2>1, <1>1, <1>2
    <2> QED BY <2>2, <1>1 DEF Ordered
  <1>4. ASSUME c.op = "RECV" PROVE Ordered(t)
    <2>1. /\ Cardinality(In(t, "RECV")) = Cardinality(In(l, "RECV")) - 1
          /\ Cardinality(In(t, "SEND")) = Cardinality(In(l, "SEND"))
      BY <1>1, <1>4 DEF Ops
    <2>2. Len(t) = Cardinality(In(t, "SEND")) + Cardinality(In(t, "RECV"))
      BY <2>1, <1>1, <1>2
    <2> QED BY <2>2, <1>1 DEF Ordered
  <1>5. Ordered(t) BY <1>1, <1>3, <1>4 DEF Ops
  <1> QED BY <1>5 DEF t

LEMMA OrderedGrows ==
  ASSUME NEW l \in Seq(Entries), NEW c \in Entries, Ordered(l), c.qp \notin In(l, c.op)
  PROVE  Ordered(Append(l, c))
  <1> DEFINE t == Append(l, c)
  <1>1. /\ c.op \in Ops /\ Distinct(t) /\ Len(t) = Len(l) + 1
        /\ Cardinality(In(t, c.op)) = Cardinality(In(l, c.op)) + 1
        /\ \A op \in Ops : op # c.op => In(t, op) = In(l, op)
    <2>1. c.op \in Ops BY DEF Entries
    <2> QED BY <2>1, LineGrows DEF Ordered
  <1> HIDE DEF t
  <1>2. /\ Cardinality(In(l, "SEND")) \in Nat /\ Cardinality(In(l, "RECV")) \in Nat
        /\ Len(l) = Cardinality(In(l, "SEND")) + Cardinality(In(l, "RECV"))
    BY InFinite DEF Ordered
  <1>3. ASSUME c.op = "SEND" PROVE Ordered(t)
    <2>1. /\ Cardinality(In(t, "SEND")) = Cardinality(In(l, "SEND")) + 1
          /\ Cardinality(In(t, "RECV")) = Cardinality(In(l, "RECV"))
      BY <1>1, <1>3 DEF Ops
    <2>2. Len(t) = Cardinality(In(t, "SEND")) + Cardinality(In(t, "RECV"))
      BY <2>1, <1>1, <1>2
    <2> QED BY <2>2, <1>1 DEF Ordered
  <1>4. ASSUME c.op = "RECV" PROVE Ordered(t)
    <2>1. /\ Cardinality(In(t, "RECV")) = Cardinality(In(l, "RECV")) + 1
          /\ Cardinality(In(t, "SEND")) = Cardinality(In(l, "SEND"))
      BY <1>1, <1>4 DEF Ops
    <2>2. Len(t) = Cardinality(In(t, "SEND")) + Cardinality(In(t, "RECV"))
      BY <2>1, <1>1, <1>2
    <2> QED BY <2>2, <1>1 DEF Ordered
  <1>5. Ordered(t) BY <1>1, <1>3, <1>4 DEF Ops
  <1> QED BY <1>5 DEF t

\* A message has arrived, or an answer is given: the ball is in the hands of p,
\* or on its way to the other side.
LEMMA ParsedBall ==
  ASSUME BallInv, NEW p \in Peers, pc[p] = "parse",
         NEW op, NEW i, op = Head(wc[p]).op, i = Head(wc[p]).qp, Parsed(p, op, i)
  PROVE  BallInv'
  <1> DEFINE q == Other(p)
  <1>0. SrqTypeOK /\ Queues(p) /\ Queues(q) /\ q \in Peers /\ q # p /\ Other(q) = p
        /\ (\A r \in Peers : r = p \/ r = q)
        /\ \A j \in Qps : OneBall(p, j) /\ OneBall(q, j)
    BY PeerFacts DEF BallInv
  <1>1. /\ op \in Ops /\ i \in Qps /\ wc[p] # <<>> /\ (op = "RECV" => routs[p] >= 1)
        /\ Live(p) /\ Live(p)' /\ ~ Unserved(p) /\ ~ Unserved(p)' /\ pc'[p] # "start"
        /\ (pc'[p] = "parse" <=> wc'[p] # <<>>)
        /\ Line(p) # <<>> /\ Head(Line(p)) = Head(wc[p])
        /\ Line(p)' = Tail(Line(p)) /\ i \in In(Line(p), op)
        /\ routs'[p] = LeftNow(p, op) + RefillNow(p, op)
        /\ rq'[p] = rq[p] + RefillNow(p, op)
        /\ pending'[p][i] = (IF Answers(p, op, i) THEN {"SEND", "RECV"}
                             ELSE pending[p][i] \ {op})
        /\ sq'[p][i] = (IF Answers(p, op, i) THEN "posted" ELSE sq[p][i])
        /\ (\A j \in Qps : j # i => pending'[p][j] = pending[p][j] /\ sq'[p][j] = sq[p][j])
        /\ Untouched(q)
    <2>1. Looked(p, op, i) BY ParsedEffect
    <2> QED BY <2>1 DEF Looked
  <1> HIDE DEF q
  <1>2. SrqTypeOK' BY <1>0, <1>1, ParsedTypes
  <1>3. Ordered(Line(p)) /\ Receives(p) /\ Sends(p) BY <1>0, <1>1 DEF Queues
  <1>4. Line(p) \in Seq(Entries) BY <1>0, LineType
  <1>5. /\ Cardinality(In(Line(p)', op)) = Cardinality(In(Line(p), op)) - 1
        /\ Cardinality(In(Line(p), op)) >= 1
        /\ In(Line(p)', op) = In(Line(p), op) \ {i}
        /\ \A o \in Ops : o # op => In(Line(p)', o) = In(Line(p), o)
    <2> DEFINE l == Line(p)
    <2>1. Distinct(l) /\ l # <<>> BY <1>1, <1>3 DEF Ordered
    <2>2. op = Head(l).op /\ i = Head(l).qp BY <1>1
    <2>3. /\ Cardinality(In(Tail(l), op)) = Cardinality(In(l, op)) - 1
          /\ Cardinality(In(l, op)) >= 1
          /\ In(Tail(l), op) = In(l, op) \ {i}
          /\ \A o \in Ops : o # op => In(Tail(l), o) = In(l, o)
      BY <1>4, <2>1, <2>2, LineShrinks
    <2> QED BY <2>3, <1>1
  <1>6. Ordered(Line(p)') BY <1>1, <1>3, <1>4, OrderedShrinks
  <1>7. Receives(p)'
    <2> DEFINE k == Cardinality(In(Line(p), "RECV"))
    <2>1. rq[p] \in Nat /\ routs[p] \in Nat /\ k \in Nat BY <1>0, InFinite DEF SrqTypeOK
    <2>2. routs[p] = rq[p] + k /\ routs[p] <= RxDepth /\ NumQp <= routs[p]
      <3>1. pc[p] # "start" BY PlaceFacts
      <3> QED BY <3>1, <1>3 DEF Receives
    <2>3. CASE op = "SEND"
      <3>1. In(Line(p)', "RECV") = In(Line(p), "RECV") BY <1>5, <2>3 DEF Ops
      <3>2. routs'[p] = routs[p] /\ rq'[p] = rq[p]
        BY <1>1, <2>1, <2>3 DEF LeftNow, RefillNow
      <3> QED BY <3>1, <3>2, <2>2 DEF Receives
    <2>4. CASE op = "RECV"
      <3> DEFINE n == Refill(routs[p] - 1)
      <3>1. routs[p] - 1 \in Nat /\ (routs[p] - 1) + 1 = routs[p] BY <2>1, <2>4, <1>1
      <3>2. n \in Nat /\ (routs[p] - 1) + n <= RxDepth /\ NumQp <= (routs[p] - 1) + n
        BY <3>1, <2>2, RefillFacts
      <3>3. routs'[p] = (routs[p] - 1) + n /\ rq'[p] = rq[p] + n
        BY <1>1, <2>4 DEF LeftNow, RefillNow
      <3>4. Cardinality(In(Line(p)', "RECV")) = k - 1 /\ k >= 1 BY <1>5, <2>4
      <3> HIDE DEF n, k
      <3>5. routs'[p] = rq'[p] + (k - 1) BY <2>1, <2>2, <3>2, <3>3, <3>4, RefillSum
      <3> QED BY <3>2, <3>3, <3>4, <3>5 DEF Receives
    <2> QED BY <2>3, <2>4, <1>1 DEF Ops
  <1>9. Answers(p, op, i) => pending[p][i] \subseteq {op} BY DEF Answers
  <1>10. Sends(p)'
    <2> SUFFICES ASSUME NEW j \in Qps
                 PROVE  /\ j \in In(Line(p)', "SEND") => sq'[p][j] = "idle"
                        /\ sq'[p][j] # "idle" \/ j \in In(Line(p)', "SEND")
                              => "SEND" \in pending'[p][j]
      BY DEF Sends
    <2>1. /\ j \in In(Line(p), "SEND") => sq[p][j] = "idle"
          /\ sq[p][j] # "idle" \/ j \in In(Line(p), "SEND") => "SEND" \in pending[p][j]
      BY <1>3 DEF Sends
    <2>2. CASE op = "SEND" BY <2>1, <2>2, <1>1, <1>5
    <2>3. CASE op = "RECV"
      <3>1. In(Line(p)', "SEND") = In(Line(p), "SEND") BY <1>5, <2>3 DEF Ops
      <3> QED BY <2>1, <2>3, <3>1, <1>1, <1>9
    <2> QED BY <2>2, <2>3, <1>1 DEF Ops
  <1>11. Queues(p)' BY <1>1, <1>6, <1>7, <1>10, PlaceFacts DEF Queues
  <1>12. Queues(q)' BY <1>0, <1>1, QueuesKept
  <1>13. \A j \in Qps : /\ Coming(p, j)' <=> Coming(p, j)
                        /\ Arrived(q, j)' <=> Arrived(q, j)
                        /\ Held(q, j)' <=> Held(q, j) BY <1>1, OtherKeeps DEF q
  <1>14. \A j \in Qps : OneBall(p, j)' /\ OneBall(q, j)'
    <2> TAKE j \in Qps
    <2>1. OneBall(p, j) /\ OneBall(q, j) BY <1>0
    <2>2. (Other(p))' = q /\ (Other(q))' = p /\ Other(p) = q BY <1>0 DEF Other, q
    <2>3. /\ Coming(q, j) <=> sq[p][j] = "posted"
          /\ Coming(q, j)' <=> sq'[p][j] = "posted"
          /\ Held(p, j) <=> "RECV" \notin pending[p][j]
          /\ Held(p, j)' <=> "RECV" \notin pending'[p][j]
          /\ Arrived(p, j) <=> j \in In(Line(p), "RECV")
          /\ Arrived(p, j)' <=> j \in In(Line(p)', "RECV")
      <3>1. /\ Coming(q, j) <=> sq[p][j] = "posted"
            /\ Coming(q, j)' <=> sq'[p][j] = "posted"
        BY <2>2, <1>0 DEF Coming
      <3>2. /\ Held(p, j) <=> "RECV" \notin pending[p][j]
            /\ Held(p, j)' <=> "RECV" \notin pending'[p][j] BY <1>1 DEF Held
      <3>3. /\ Arrived(p, j) <=> j \in In(Line(p), "RECV")
            /\ Arrived(p, j)' <=> j \in In(Line(p)', "RECV") BY <1>1 DEF Arrived
      <3> QED BY <3>1, <3>2, <3>3
    <2>4. CASE op = "RECV"
      <3>1. In(Line(p)', "RECV") = In(Line(p), "RECV") \ {i} /\ i \in In(Line(p), "RECV")
        BY <1>1, <1>5, <2>4
      <3>2. CASE j # i
        <4>1. (Coming(q, j)' <=> Coming(q, j)) /\ (Held(p, j)' <=> Held(p, j))
              /\ (Arrived(p, j)' <=> Arrived(p, j)) BY <3>1, <3>2, <2>3, <1>1
        <4> QED BY <4>1, <2>1, <2>2, <1>0, <1>13 DEF OneBall
      <3>3. CASE j = i
        <4>1. Arrived(p, j) /\ ~ Arrived(p, j)' BY <3>1, <3>3, <2>3
        <4>2. /\ ~ Coming(p, j) /\ ~ Held(p, j) /\ ~ Coming(q, j) /\ ~ Arrived(q, j) /\ ~ Held(q, j)
          BY <4>1, <2>1, <2>2, <1>0 DEF OneBall
        <4>3. ~ (Coming(q, j)' /\ Held(p, j)')
          <5>1. CASE Answers(p, op, i) BY <5>1, <3>3, <2>3, <1>1
          <5>2. CASE ~ Answers(p, op, i) BY <5>2, <3>3, <2>3, <1>1, <4>2
          <5> QED BY <5>1, <5>2
        <4> QED BY <4>1, <4>2, <4>3, <2>2, <1>0, <1>13 DEF OneBall
      <3> QED BY <3>2, <3>3
    <2>5. CASE op = "SEND"
      <3>1. In(Line(p)', "RECV") = In(Line(p), "RECV") BY <1>5, <2>5 DEF Ops
      <3>2. CASE j # i \/ ~ Answers(p, op, i)
        <4>1. (Coming(q, j)' <=> Coming(q, j)) /\ (Held(p, j)' <=> Held(p, j))
              /\ (Arrived(p, j)' <=> Arrived(p, j)) BY <3>1, <3>2, <2>3, <2>5, <1>1
        <4> QED BY <4>1, <2>1, <2>2, <1>0, <1>13 DEF OneBall
      <3>3. CASE j = i /\ Answers(p, op, i)
        <4>1. Held(p, j) BY <3>3, <2>3, <2>5, <1>9
        <4>2. ~ Held(p, j)' /\ (Arrived(p, j)' <=> Arrived(p, j)) BY <3>1, <3>3, <2>3, <1>1
        <4>3. /\ ~ Coming(p, j) /\ ~ Arrived(p, j) /\ ~ Coming(q, j) /\ ~ Arrived(q, j)
              /\ ~ Held(q, j)
          BY <4>1, <2>1, <2>2, <1>0 DEF OneBall
        <4> QED BY <4>1, <4>2, <4>3, <2>2, <1>0, <1>13 DEF OneBall
      <3> QED BY <3>2, <3>3
    <2> QED BY <2>4, <2>5, <1>1 DEF Ops
  <1>15. \A r \in Peers : Queues(r)' /\ \A j \in Qps : OneBall(r, j)'
    BY <1>0, <1>11, <1>12, <1>14
  <1> QED BY <1>2, <1>15 DEF BallInv

LEMMA ParseBall == ASSUME BallInv, NEW p \in Peers, ParseWc(p) PROVE BallInv'
  <1> DEFINE c == Head(wc[p])
  <1>1. pc[p] = "parse" /\ (Parsed(p, c.op, c.qp) \/ Leave(p, "failed")) BY DEF ParseWc
  <1>2. CASE Parsed(p, c.op, c.qp) BY <1>1, <1>2, ParsedBall
  <1>3. CASE Leave(p, "failed") BY <1>3, LeaveBall DEF Over
  <1> QED BY <1>1, <1>2, <1>3

\* A completion is put at the end of the line of p.
LEMMA LineAppended ==
  ASSUME SrqTypeOK, NEW p \in Peers, NEW c \in Entries, Completed(p, c), UNCHANGED wc
  PROVE  /\ Line(p)' = Append(Line(p), c)
         /\ cq'[p] = Append(cq[p], c) /\ Line(Other(p))' = Line(Other(p))
         /\ UNCHANGED cq[Other(p)]
  <1>1. cq' = [cq EXCEPT ![p] = Append(cq[p], c)] BY DEF Completed
  <1>2. cq'[p] = Append(cq[p], c) /\ cq'[Other(p)] = cq[Other(p)]
    <2>1. cq = [r \in Peers |-> cq[r]] BY DEF SrqTypeOK
    <2> QED BY <1>1, <2>1, PeerFacts
  <1>3. wc[p] \in Seq(Entries) /\ cq[p] \in Seq(Entries) BY LineType
  <1>4. wc[p] \o Append(cq[p], c) = Append(wc[p] \o cq[p], c) BY <1>3, LineSteps
  <1> QED BY <1>2, <1>4 DEF Line

\* The ball of queue pair i comes to the line of the other side.
LEMMA DeliverBall ==
  ASSUME BallInv, NEW p \in Peers, NEW i \in Qps, Deliver(p, i) PROVE BallInv'
  <1> DEFINE q == Other(p)  c == Entry("RECV", TRUE, i)
  <1>0. SrqTypeOK /\ Queues(p) /\ Queues(q) /\ q \in Peers /\ q # p /\ Other(q) = p
        /\ (\A r \in Peers : r = p \/ r = q)
        /\ \A j \in Qps : OneBall(p, j) /\ OneBall(q, j)
    BY PeerFacts DEF BallInv
  <1>1. SrqTypeOK' BY <1>0, AdapterTypes DEF Adapter
  <1>2. /\ sq[p][i] = "posted" /\ qp[q] = "rts" /\ rq[q] > 0
        /\ sq' = [sq EXCEPT ![p][i] = "acking"] /\ rq' = [rq EXCEPT ![q] = @ - 1]
        /\ Completed(q, c) /\ UNCHANGED <<program, qp>>
    BY DEF Deliver, Ready
  <1>3. /\ UNCHANGED <<pc, pending, routs, wc, qp>> BY <1>2 DEF program, proc
  <1>4. /\ sq'[q] = sq[q] /\ sq'[p][i] = "acking" /\ \A j \in Qps : j # i => sq'[p][j] = sq[p][j]
    BY <1>0, <1>2 DEF SrqTypeOK
  <1>5. rq'[p] = rq[p] /\ rq'[q] = rq[q] - 1 /\ rq[q] \in Nat BY <1>0, <1>2 DEF SrqTypeOK
  <1>6. c \in Entries /\ c.op = "RECV" /\ c.qp = i BY EntryType DEF Ops
  <1> HIDE DEF c, q
  <1>7. /\ Line(q)' = Append(Line(q), c) /\ Line(p)' = Line(p)
        /\ cq'[q] = Append(cq[q], c) /\ cq'[p] = cq[p]
    BY <1>0, <1>2, <1>3, <1>6, LineAppended
  <1>8. Live(q) /\ Live(q)' /\ pc[q] # "start" /\ Live(p) /\ Live(p)'
        /\ (Unserved(p)' <=> Unserved(p)) /\ (Unserved(q)' <=> Unserved(q))
    <2>1. Live(q) /\ pc[q] # "start" BY <1>0, <1>2 DEF Queues
    <2>2. Live(p) BY <1>0, <1>2 DEF Queues, Idle
    <2> QED BY <2>1, <2>2, <1>3 DEF Live, Unserved
  <1>9. Ordered(Line(q)) /\ Receives(q) /\ Sends(q) /\ Ordered(Line(p)) /\ Receives(p) /\ Sends(p)
    BY <1>0, <1>8 DEF Queues
  <1>10. Line(q) \in Seq(Entries) BY <1>0, LineType
  <1>11. Coming(q, i) BY <1>0, <1>2 DEF Coming
  <1>12. ~ Arrived(q, i) /\ ~ Held(q, i) /\ ~ Coming(p, i) /\ ~ Arrived(p, i) /\ ~ Held(p, i)
    BY <1>0, <1>11 DEF OneBall
  <1>13. i \notin In(Line(q), "RECV") BY <1>8, <1>12 DEF Arrived
  <1>14. /\ Cardinality(In(Line(q)', "RECV")) = Cardinality(In(Line(q), "RECV")) + 1
         /\ In(Line(q)', "RECV") = In(Line(q), "RECV") \cup {i}
         /\ In(Line(q)', "SEND") = In(Line(q), "SEND")
    <2> DEFINE l == Line(q)
    <2>1. Distinct(l) BY <1>9 DEF Ordered
    <2>2. /\ Cardinality(In(Append(l, c), "RECV")) = Cardinality(In(l, "RECV")) + 1
          /\ In(Append(l, c), "RECV") = In(l, "RECV") \cup {i}
          /\ In(Append(l, c), "SEND") = In(l, "SEND")
      BY <2>1, <1>6, <1>10, <1>13, LineGrows DEF Ops
    <2> QED BY <2>2, <1>7
  <1>15. Ordered(Line(q)') BY <1>6, <1>7, <1>9, <1>10, <1>13, OrderedGrows
  <1>16. Receives(q)'
    <2> DEFINE k == Cardinality(In(Line(q), "RECV"))
    <2>1. k \in Nat BY InFinite
    <2>2. routs[q] = rq[q] + k /\ routs[q] <= RxDepth /\ (pc[q] # "start" => NumQp <= routs[q])
      BY <1>9 DEF Receives
    <2> HIDE DEF k
    <2>3. routs[q] = (rq[q] - 1) + (k + 1) BY <2>1, <2>2, <1>5
    <2>4. Cardinality(In(Line(q)', "RECV")) = k + 1 BY <1>14 DEF k
    <2> QED BY <2>2, <2>3, <2>4, <1>3, <1>5 DEF Receives
  <1>17. Sends(q)' BY <1>3, <1>4, <1>9, <1>14 DEF Sends
  <1>18. Sends(p)'
    <2>1. "SEND" \in pending[p][i] /\ i \notin In(Line(p), "SEND") BY <1>2, <1>9 DEF Sends
    <2> QED BY <2>1, <1>3, <1>4, <1>7, <1>9 DEF Sends
  <1>19. Queues(q)' BY <1>0, <1>3, <1>8, <1>15, <1>16, <1>17 DEF Queues
  <1>20. Queues(p)'
    <2>1. Receives(p)' BY <1>3, <1>5, <1>7, <1>9 DEF Receives
    <2> QED BY <2>1, <1>0, <1>3, <1>5, <1>7, <1>8, <1>9, <1>18 DEF Queues
  <1>21. \A j \in Qps : OneBall(p, j)' /\ OneBall(q, j)'
    <2> TAKE j \in Qps
    <2>1. OneBall(p, j) /\ OneBall(q, j) BY <1>0
    <2>2. (Other(p))' = q /\ (Other(q))' = p /\ Other(p) = q /\ Other(q) = p BY <1>0 DEF Other, q
    <2>3. /\ Held(p, j)' <=> Held(p, j)
          /\ Held(q, j)' <=> Held(q, j)
          /\ Arrived(p, j)' <=> Arrived(p, j)
          /\ Coming(p, j)' <=> Coming(p, j)
      BY <1>3, <1>4, <1>7, <1>8, <2>2 DEF Held, Arrived, Coming
    <2>4. /\ Coming(q, j)' <=> Coming(q, j) /\ j # i
          /\ Arrived(q, j)' <=> Arrived(q, j) \/ j = i
      <3>1. Coming(q, j)' <=> sq'[p][j] = "posted" BY <2>2 DEF Coming
      <3>2. Coming(q, j) <=> sq[p][j] = "posted" BY <2>2 DEF Coming
      <3>3. Arrived(q, j)' <=> Arrived(q, j) \/ j = i BY <1>8, <1>14 DEF Arrived
      <3> QED BY <3>1, <3>2, <3>3, <1>4
    <2> QED BY <1>11, <1>12, <2>1, <2>2, <2>3, <2>4 DEF OneBall
  <1>22. \A r \in Peers : Queues(r)' /\ \A j \in Qps : OneBall(r, j)'
    BY <1>0, <1>19, <1>20, <1>21
  <1> QED BY <1>1, <1>22 DEF BallInv

\* A send is complete, well or not.
LEMMA CompletedBall ==
  ASSUME BallInv, NEW p \in Peers, NEW i \in Qps, Acknowledge(p, i) \/ RetryExceeded(p, i)
  PROVE  BallInv'
  <1>0. SrqTypeOK /\ Queues(p) /\ Other(p) \in Peers /\ Other(p) # p BY PeerFacts DEF BallInv
  <1>1. SrqTypeOK' BY <1>0, AdapterTypes DEF Adapter
  <1>2. PICK ok \in BOOLEAN : Completed(p, Entry("SEND", ok, i))
    BY DEF Acknowledge, RetryExceeded
  <1> DEFINE c == Entry("SEND", ok, i)
  <1>3. /\ sq[p][i] # "idle" /\ sq' = [sq EXCEPT ![p][i] = "idle"]
        /\ UNCHANGED <<pc, pending, routs, wc, qp, rq>>
    BY DEF Acknowledge, RetryExceeded, program, proc
  <1>4. sq'[Other(p)] = sq[Other(p)] /\ sq'[p][i] = "idle"
        /\ \A j \in Qps : j # i => sq'[p][j] = sq[p][j]
    BY <1>0, <1>3 DEF SrqTypeOK
  <1>5. c \in Entries /\ c.op = "SEND" /\ c.qp = i BY EntryType DEF Ops
  <1> HIDE DEF c
  <1>6. /\ Line(p)' = Append(Line(p), c) /\ cq'[p] = Append(cq[p], c)
        /\ cq'[Other(p)] = cq[Other(p)]
    BY <1>0, <1>2, <1>3, <1>5, LineAppended DEF c
  <1>7. Untouched(Other(p)) BY <1>3, <1>4, <1>6 DEF Untouched
  <1>8. Live(p) /\ Live(p)' /\ (Unserved(p)' <=> Unserved(p))
    <2>1. Live(p) BY <1>0, <1>3 DEF Queues, Idle
    <2> QED BY <2>1, <1>3 DEF Live, Unserved
  <1>9. Ordered(Line(p)) /\ Receives(p) /\ Sends(p) BY <1>0, <1>8 DEF Queues
  <1>10. Line(p) \in Seq(Entries) BY <1>0, LineType
  <1>11. "SEND" \in pending[p][i] /\ i \notin In(Line(p), "SEND") BY <1>3, <1>9 DEF Sends
  <1>12. pc[p] # "start"
    <2>1. ~ Unserved(p) BY <1>0, <1>11 DEF Queues
    <2> QED BY <2>1, PlaceFacts
  <1>13. /\ In(Line(p)', "SEND") = In(Line(p), "SEND") \cup {i}
         /\ In(Line(p)', "RECV") = In(Line(p), "RECV")
    <2> DEFINE l == Line(p)
    <2>1. Distinct(l) BY <1>9 DEF Ordered
    <2>2. /\ In(Append(l, c), "SEND") = In(l, "SEND") \cup {i}
          /\ In(Append(l, c), "RECV") = In(l, "RECV")
      BY <2>1, <1>5, <1>10, <1>11, LineGrows DEF Ops
    <2> QED BY <2>2, <1>6
  <1>14. Ordered(Line(p)') BY <1>5, <1>6, <1>9, <1>10, <1>11, OrderedGrows
  <1>15. Receives(p)' BY <1>3, <1>9, <1>13 DEF Receives
  <1>16. Sends(p)' BY <1>3, <1>4, <1>9, <1>11, <1>13 DEF Sends
  <1>17. Queues(p)' BY <1>0, <1>3, <1>8, <1>12, <1>14, <1>15, <1>16 DEF Queues
  <1>18. \A j \in Qps : /\ sq'[p][j] = "posted" => sq[p][j] = "posted"
                        /\ Arrived(p, j)' => Arrived(p, j)
                        /\ Held(p, j)' => Held(p, j)
    BY <1>3, <1>4, <1>8, <1>13 DEF Arrived, Held
  <1> QED BY <1>1, <1>7, <1>17, <1>18, BallFrom

LEMMA BallInit == SrqInit => BallInv
  <1> SUFFICES ASSUME SrqInit PROVE BallInv OBVIOUS
  <1>1. SrqTypeOK BY InitTypes
  <1>2. ASSUME NEW p \in Peers
        PROVE  /\ pc[p] = "start" /\ pending[p] = [i \in Qps |-> {}] /\ sq[p] = Idle
               /\ wc[p] = <<>> /\ cq[p] = <<>> /\ rq[p] = 0 /\ routs[p] = 0 /\ qp[p] = "none"
    BY <1>2 DEF SrqInit, Zero
  <1>3. \A p \in Peers : Line(p) = <<>>
    <2>1. <<>> \o <<>> = <<>> OBVIOUS
    <2> QED BY <1>2, <2>1 DEF Line
  <1>4. ASSUME NEW p \in Peers PROVE Queues(p)
    <2>1. Ordered(Line(p)) BY <1>3, NothingIn DEF Ordered
    <2>2. Receives(p) BY <1>2, <1>3, NothingIn, QpsFinite DEF Receives
    <2>3. Sends(p) BY <1>2, <1>3, NothingIn DEF Sends, Idle
    <2> QED BY <1>2, <2>1, <2>2, <2>3 DEF Queues, Live
  <1>5. ASSUME NEW p \in Peers, NEW i \in Qps PROVE OneBall(p, i)
    <2>1. \A r \in Peers : ~ Coming(r, i) BY <1>2, PeerFacts DEF Coming, Idle
    <2>2. \A r \in Peers : ~ Arrived(r, i) BY <1>3, NothingIn DEF Arrived
    <2>3. ~ Held("server", i) BY <1>2, PeerFacts DEF Held, Unserved, Setup
    <2> QED BY <2>1, <2>2, <2>3, PeerFacts DEF OneBall, Peers
  <1> QED BY <1>1, <1>4, <1>5 DEF BallInv

LEMMA BallStep == ASSUME BallInv, [Next]_srqVars PROVE BallInv'
  <1>1. CASE UNCHANGED srqVars
    <2>1. UNCHANGED <<pc, pending, routs, rq, wc, cq, sq, qp>>
      BY <1>1 DEF srqVars, vars, proc, nic
    <2>2. SrqTypeOK'
      BY <1>1 DEF BallInv, SrqTypeOK, srqVars, vars, options, proc, tcp, nic, wire
    <2>3. \A p \in Peers : Untouched(p) BY <2>1 DEF Untouched
    <2>4. \A p \in Peers : Queues(p)' BY <2>3, QueuesKept DEF BallInv
    <2>5. \A p \in Peers, i \in Qps : /\ Coming(p, i)' => Coming(p, i)
                                      /\ Arrived(p, i)' => Arrived(p, i)
                                      /\ Held(p, i)' => Held(p, i)
      BY <2>1 DEF Coming, Arrived, Held, Live, Unserved, Line
    <2>6. \A p \in Peers, i \in Qps : OneBall(p, i)' BY <2>5, BallsKept DEF BallInv
    <2> QED BY <2>2, <2>4, <2>6 DEF BallInv
  <1>2. ASSUME NEW p \in Peers, Program(p) PROVE BallInv'
    <2>1. CASE Prepare(p) BY <2>1, PrepareBall
    <2>2. CASE \/ p = "server" /\ ServerExchDest(p)
               \/ p = "client" /\ ClientExchDest(p)
      BY <2>2, QuietBall
    <2>7. CASE ConnectCtx(p) \/ GetCqEvent(p) \/ ReqNotify(p) BY <2>7, QuietBall
    <2>3. CASE Serve(p) BY <2>3, ServeBall
    <2>4. CASE PollCq(p) BY <2>4, PollBall
    <2>5. CASE ParseWc(p) BY <2>5, ParseBall
    <2>6. CASE Finish(p) BY <2>6, LeaveBall DEF Finish, Over
    <2> QED BY <1>2, <2>1, <2>2, <2>3, <2>4, <2>5, <2>6, <2>7 DEF Program
  <1>3. ASSUME NEW p \in Peers, Adapter(p) PROVE BallInv'
    BY <1>3, DeliverBall, CompletedBall DEF Adapter
  <1>4. ASSUME NEW p \in Peers, GoesOn(p) \/ TcpFails(p) \/ CallFails(p) PROVE BallInv'
    BY <1>4, QuietBall, LeaveBall DEF TcpFails, CallFails, Over
  <1>5. CASE Done BY <1>1, <1>5 DEF Done
  <1> QED BY <1>1, <1>2, <1>3, <1>4, <1>5 DEF Next

\* The invariant of the first part.
LEMMA BallHolds == Spec => []BallInv
  <1> QED BY BallInit, BallStep, PTL DEF Spec

\* Every counter, queue and queue pair of both sides keeps its type, for any
\* options -n, -r and -q.
THEOREM SrqTypeCorrect == Spec => []SrqTypeOK
  <1>1. BallInv => SrqTypeOK BY DEF BallInv
  <1> QED BY <1>1, BallHolds, PTL

\* Messages under way and completions are of different queue pairs.
LEMMA SumBound ==
  ASSUME NEW A, NEW B, A \subseteq Qps, B \subseteq Qps, A \cap B = {}
  PROVE  /\ Cardinality(A) \in Nat /\ Cardinality(B) \in Nat
         /\ Cardinality(A) + Cardinality(B) <= NumQp
  <1>1. /\ IsFiniteSet(A) /\ IsFiniteSet(B)
        /\ Cardinality(A) \in Nat /\ Cardinality(B) \in Nat
    BY QpsFinite, FS_Subset, FS_CardinalityType
  <1>2. Cardinality(A \cup B) = Cardinality(A) + Cardinality(B) - Cardinality({})
    BY <1>1, FS_Union
  <1>3. Cardinality({}) = 0 BY FS_EmptySet
  <1>4. Cardinality(A \cup B) <= NumQp
    <2>1. A \cup B \in SUBSET Qps OBVIOUS
    <2> QED BY <2>1, QpsFinite, FS_Subset
  <1> QED BY <1>1, <1>2, <1>3, <1>4

\* One completion of each kind for each queue pair.
LEMMA QueueLength ==
  ASSUME BallInv, NEW p \in Peers
  PROVE  Len(cq[p]) <= RxDepth + NumQp
  <1>0. SrqTypeOK /\ Queues(p) BY DEF BallInv
  <1>1. CASE ~ Live(p)
    <2>1. cq[p] = <<>> BY <1>0, <1>1 DEF Queues
    <2>2. Len(cq[p]) = 0 BY <2>1
    <2> QED BY <2>2, QpsFinite
  <1>2. CASE Live(p)
    <2>1. wc[p] \in Seq(Entries) /\ cq[p] \in Seq(Entries) BY <1>0, LineType
    <2>2. Len(Line(p)) = Len(wc[p]) + Len(cq[p]) /\ Len(wc[p]) \in Nat /\ Len(cq[p]) \in Nat
      BY <2>1 DEF Line
    <2>3. Len(Line(p)) = Cardinality(In(Line(p), "SEND")) + Cardinality(In(Line(p), "RECV"))
      BY <1>0, <1>2 DEF Queues, Ordered
    <2>4. \A op : Cardinality(In(Line(p), op)) \in Nat /\ Cardinality(In(Line(p), op)) <= NumQp
      <3> TAKE op
      <3>1. In(Line(p), op) \in SUBSET Qps BY InFinite
      <3> QED BY <3>1, InFinite, QpsFinite, FS_Subset
    <2> HIDE DEF Line
    <2>5. /\ Cardinality(In(Line(p), "SEND")) \in Nat /\ Cardinality(In(Line(p), "SEND")) <= NumQp
          /\ Cardinality(In(Line(p), "RECV")) \in Nat /\ Cardinality(In(Line(p), "RECV")) <= NumQp
      BY <2>4
    <2>6. \A a, b, w, c, n, r \in Nat :
            w + c = a + b /\ a <= n /\ b <= n /\ n <= r => c <= r + n OBVIOUS
    <2>7. Len(wc[p]) + Len(cq[p])
            = Cardinality(In(Line(p), "SEND")) + Cardinality(In(Line(p), "RECV"))
      BY <2>2, <2>3
    <2> QED BY <2>2, <2>5, <2>6, <2>7, QpsFinite
  <1> QED BY <1>1, <1>2

\* Each message under way has a receive of its own.
LEMMA ReceivesEnough ==
  ASSUME BallInv, NEW p \in Peers, Live(p), qp[p] = "rts"
  PROVE  Cardinality({i \in Qps : sq[Other(p)][i] = "posted"}) <= rq[p]
  <1> DEFINE A == {i \in Qps : sq[Other(p)][i] = "posted"}  B == In(Line(p), "RECV")
  <1>1. SrqTypeOK /\ Queues(p) /\ \A i \in Qps : OneBall(p, i) BY DEF BallInv
  <1>2. A \subseteq Qps /\ B \subseteq Qps BY InFinite
  <1>3. A \cap B = {}
    <2>1. ASSUME NEW i \in A, i \in B PROVE FALSE
      <3>1. i \in Qps /\ Coming(p, i) BY DEF Coming
      <3>2. Arrived(p, i) BY <2>1 DEF Arrived
      <3> QED BY <3>1, <3>2, <1>1 DEF OneBall
    <2> QED BY <2>1
  <1>4. routs[p] = rq[p] + Cardinality(B) /\ NumQp <= routs[p]
    BY <1>1 DEF Queues, Receives
  <1>5. rq[p] \in Nat BY <1>1 DEF SrqTypeOK
  <1> HIDE DEF A, B
  <1>6. /\ Cardinality(A) \in Nat /\ Cardinality(B) \in Nat
        /\ Cardinality(A) + Cardinality(B) <= NumQp BY <1>2, <1>3, SumBound
  <1>7. Cardinality(A) <= rq[p] BY <1>4, <1>5, <1>6, QpsFinite
  <1> QED BY <1>7 DEF A

LEMMA ConcatAt ==
  ASSUME NEW S, NEW s \in Seq(S), NEW t \in Seq(S), NEW j \in 1..Len(t)
  PROVE  Len(s) + j \in 1..Len(s \o t) /\ (s \o t)[Len(s) + j] = t[j]
  OBVIOUS

\* A send that is not pending leaves nothing behind.
LEMMA SlotsFree ==
  ASSUME BallInv, NEW p \in Peers, NEW i \in Qps, Live(p), "SEND" \notin pending[p][i]
  PROVE  QpSlotFree(p, i)
  <1>1. SrqTypeOK /\ Sends(p) BY DEF BallInv, Queues
  <1>2. wc[p] \in Seq(Entries) /\ cq[p] \in Seq(Entries) BY <1>1, LineType
  <1>3. i \notin In(Line(p), "SEND") BY <1>1 DEF Sends
  <1>4. sq[p][i] = "idle" BY <1>1 DEF Sends
  <1>5. ASSUME NEW k \in DOMAIN cq[p], cq[p][k].op = "SEND", cq[p][k].qp = i PROVE FALSE
    <2> DEFINE w == wc[p]  c == cq[p]  n == Len(w) + k
    <2>1. w \in Seq(Entries) /\ c \in Seq(Entries) /\ Line(p) = w \o c BY <1>2 DEF Line
    <2>2. k \in 1..Len(c) BY <2>1
    <2>3. c[k].op = "SEND" /\ c[k].qp = i BY <1>5
    <2> HIDE DEF w, c
    <2>4. n \in 1..Len(w \o c) /\ (w \o c)[n] = c[k] BY <2>1, <2>2, ConcatAt
    <2>5. n \in 1..Len(Line(p)) /\ Line(p)[n] = c[k] BY <2>1, <2>4
    <2> QED BY <2>3, <2>5, <1>3 DEF In
  <1> QED BY <1>4, <1>5 DEF QpSlotFree

\* "must have at least one receive per QP": whatever fails, a message finds a
\* receive in the shared queue, no queue is overrun, and a queue pair is free to
\* send when the program may send on it.
THEOREM ReceiveForEachHolds == Spec => []ReceiveForEach
  <1>1. BallInv => ReceiveForEach
    <2> SUFFICES ASSUME BallInv, NEW p \in Peers
                 PROVE  /\ Live(p) /\ qp[p] = "rts" =>
                             Cardinality({i \in Qps : sq[Other(p)][i] = "posted"}) <= rq[p]
                        /\ rq[p] <= RxDepth
                        /\ Len(cq[p]) <= RxDepth + NumQp
                        /\ \A i \in Qps : Live(p) /\ "SEND" \notin pending[p][i]
                                            => QpSlotFree(p, i)
      BY DEF ReceiveForEach
    <2>1. rq[p] <= RxDepth
      <3>1. Queues(p) /\ rq[p] \in Nat BY DEF BallInv, SrqTypeOK
      <3>2. CASE ~ Live(p) BY <3>1, <3>2, QpsFinite DEF Queues
      <3>3. CASE Live(p)
        <4> DEFINE k == Cardinality(In(Line(p), "RECV"))
        <4>1. k \in Nat BY InFinite
        <4>2. routs[p] = rq[p] + k /\ routs[p] <= RxDepth BY <3>1, <3>3 DEF Queues, Receives
        <4> HIDE DEF k
        <4> QED BY <3>1, <4>1, <4>2, QpsFinite
      <3> QED BY <3>2, <3>3
    <2> QED BY <2>1, ReceivesEnough, QueueLength, SlotsFree
  <1> QED BY <1>1, BallHolds, PTL

-----------------------------------------------------------------------------
(* Without a failing call: how the addresses are exchanged.                *)

Served == {"serve"} \cup Loop \cup Over

\* Where both sides are, and what is under way between them.
Exchanged ==
  LET cs == pc["client"]  ss == pc["server"]
      cc == chan["client"]  sc == chan["server"]
  IN /\ cs \notin {"listen", "accept", "read_done"} /\ ss \notin {"dial", "write_done"}
     /\ cs \in {"start", "dial"} =>
          ss \in {"start", "listen", "accept"} /\ sc = <<>> /\ cc = <<>>
     /\ cs = "write_addr" => ss \in {"accept", "read_addr"} /\ sc = <<>> /\ cc = <<>>
     /\ cs = "read_addr" =>
          \/ ss \in {"accept", "read_addr"} /\ sc = <<"addr">> /\ cc = <<>>
          \/ ss \in {"connect", "write_addr"} /\ sc = <<>> /\ cc = <<>>
          \/ ss = "read_done" /\ sc = <<>> /\ cc = <<"addr">>
     /\ cs = "write_done" => ss = "read_done" /\ sc = <<>> /\ cc = <<>>
     /\ cs \in {"connect"} \cup Served =>
          /\ cc = <<>>
          /\ \/ ss = "read_done" /\ sc = <<"done">>
             \/ ss \in Served /\ sc = <<>>

\* What follows for the sockets, the addresses and the queue pairs.
Connected ==
  LET cs == pc["client"]  ss == pc["server"]
  IN /\ sock["server"] = "listening" => ss = "accept"
     /\ ss \in {"start", "listen"} => sock["server"] = "none"
     /\ sock["server"] = "open" => cs \notin {"start", "dial"}
     /\ sock["client"] = "closed" => cs \in {"connect"} \cup Served
     /\ ss \in {"write_addr", "read_done", "serve"} \cup Loop => qp["server"] = "rts"
     /\ cs \in {"serve"} \cup Loop => qp["client"] = "rts"
     /\ ss \in {"connect", "write_addr", "read_done", "serve"} \cup Loop => "server" \in known
     /\ cs \in {"write_done", "connect", "serve"} \cup Loop => "client" \in known

Shaken == Exchanged /\ Connected

LEMMA AppendOne == \A m : Append(<<>>, m) = <<m>> /\ <<m>> # <<>>
                          /\ Head(<<m>>) = m /\ Tail(<<m>>) = <<>>
  OBVIOUS

LEMMA ShakenInit == SrqInit => Shaken
  BY PeerFacts DEF SrqInit, Shaken, Exchanged, Connected, Served, Loop, Over, Zero

\* The steps of the exchange.
LEMMA ShakenPrepare ==
  ASSUME SrqTypeOK, Shaken, NEW p \in Peers, Prepare(p) PROVE Shaken'
  <1>1. /\ pc[p] = "start" /\ pc'[p] = (IF p = "server" THEN "listen" ELSE "dial")
        /\ pc'[Other(p)] = pc[Other(p)] /\ UNCHANGED <<sock, chan, known>>
        /\ qp'[Other(p)] = qp[Other(p)]
    BY PeerFacts DEF Prepare, Step, IbvCreate, SrqTypeOK, tcp
  <1>2. CASE p = "server"
    BY <1>1, <1>2, PeerFacts DEF Shaken, Exchanged, Connected, Served, Loop, Over
  <1>3. CASE p = "client"
    BY <1>1, <1>3, PeerFacts DEF Shaken, Exchanged, Connected, Served, Loop, Over
  <1> QED BY <1>2, <1>3 DEF Peers

LEMMA ShakenConnect ==
  ASSUME SrqTypeOK, Shaken, NEW p \in Peers, ConnectCtx(p) PROVE Shaken'
  <1>1. /\ pc[p] = "connect" /\ pc'[p] = (IF p = "server" THEN "write_addr" ELSE "serve")
        /\ pc'[Other(p)] = pc[Other(p)] /\ UNCHANGED <<sock, chan, known>>
        /\ qp'[p] = "rts" /\ qp'[Other(p)] = qp[Other(p)]
    BY PeerFacts DEF ConnectCtx, Step, IbvModifyRts, SrqTypeOK, tcp
  <1>2. CASE p = "server"
    BY <1>1, <1>2, PeerFacts DEF Shaken, Exchanged, Connected, Served, Loop, Over
  <1>3. CASE p = "client"
    BY <1>1, <1>3, PeerFacts DEF Shaken, Exchanged, Connected, Served, Loop, Over
  <1> QED BY <1>2, <1>3 DEF Peers

LEMMA ShakenServer ==
  ASSUME SrqTypeOK, Shaken, ServerExchDest("server") PROVE Shaken'
  <1> DEFINE p == "server"
  <1>0. /\ pc \in [Peers -> Setup \cup Loop \cup Over]
        /\ sock = [r \in Peers |-> sock[r]] /\ chan = [r \in Peers |-> chan[r]]
    BY DEF SrqTypeOK
  <1>1. UNCHANGED qp BY DEF ServerExchDest, ReadAddr, Exchanging, nic
  <1>2. CASE Step(p, "listen", "accept") /\ TcpListen(p) /\ UNCHANGED known
    <2>1. /\ pc["server"] = "listen" /\ pc'["server"] = "accept" /\ pc'["client"] = pc["client"]
          /\ sock'["server"] = "listening" /\ sock'["client"] = sock["client"]
          /\ UNCHANGED <<chan, known>>
      BY <1>0, <1>2, PeerFacts DEF Step, TcpListen
    <2>2. Exchanged' BY <2>1 DEF Shaken, Exchanged, Served, Loop, Over
    <2>3. Connected' BY <2>1, <1>1 DEF Shaken, Exchanged, Connected, Served, Loop, Over
    <2> QED BY <2>2, <2>3 DEF Shaken
  <1>3. CASE Step(p, "accept", "read_addr") /\ sock[p] = "open" /\ UNCHANGED <<tcp, known>>
    <2>1. /\ pc["server"] = "accept" /\ pc'["server"] = "read_addr"
          /\ pc'["client"] = pc["client"] /\ sock["server"] = "open"
          /\ UNCHANGED <<sock, chan, known>>
      BY <1>0, <1>3, PeerFacts DEF Step, tcp
    <2>2. Exchanged' BY <2>1 DEF Shaken, Exchanged, Connected, Served, Loop, Over
    <2>3. Connected' BY <2>1, <1>1 DEF Shaken, Exchanged, Connected, Served, Loop, Over
    <2> QED BY <2>2, <2>3 DEF Shaken
  <1>4. CASE ReadAddr(p, "connect")
    <2>1. /\ pc["server"] = "read_addr" /\ pc'["server"] = "connect"
          /\ pc'["client"] = pc["client"] /\ sock' = sock
          /\ chan["server"] # <<>> /\ chan'["server"] = Tail(chan["server"])
          /\ chan'["client"] = chan["client"]
          /\ "server" \in known' /\ ("client" \in known' <=> "client" \in known)
      BY <1>0, <1>4, PeerFacts DEF ReadAddr, Step, TcpRead
    <2>2. pc["client"] = "read_addr" /\ chan["server"] = <<"addr">> /\ chan["client"] = <<>>
      BY <1>0, <2>1, PeerFacts DEF Shaken, Exchanged, Served, Loop, Over, Setup, Exchange
    <2>3. chan'["server"] = <<>> BY <2>1, <2>2, AppendOne
    <2>4. Exchanged' BY <2>1, <2>2, <2>3 DEF Exchanged, Served, Loop, Over
    <2>5. Connected' BY <2>1, <2>2, <1>1 DEF Shaken, Connected, Served, Loop, Over
    <2> QED BY <2>4, <2>5 DEF Shaken
  <1>5. CASE Step(p, "write_addr", "read_done") /\ TcpWrite(p, "addr") /\ UNCHANGED known
    <2>1. /\ pc["server"] = "write_addr" /\ pc'["server"] = "read_done"
          /\ pc'["client"] = pc["client"] /\ UNCHANGED <<sock, known>>
          /\ chan'["client"] = Append(chan["client"], "addr")
          /\ chan'["server"] = chan["server"]
      BY <1>0, <1>5, PeerFacts DEF Step, TcpWrite
    <2>2. pc["client"] = "read_addr" /\ chan["client"] = <<>> /\ chan["server"] = <<>>
      BY <1>0, <2>1, PeerFacts DEF Shaken, Exchanged, Served, Loop, Over, Setup, Exchange
    <2>3. chan'["client"] = <<"addr">> /\ chan'["server"] = <<>> BY <2>1, <2>2, AppendOne
    <2>4. Exchanged' BY <2>1, <2>2, <2>3 DEF Exchanged, Served, Loop, Over
    <2>5. Connected' BY <2>1, <2>2, <1>1 DEF Shaken, Connected, Served, Loop, Over
    <2> QED BY <2>4, <2>5 DEF Shaken
  <1>6. CASE Step(p, "read_done", "serve") /\ TcpReadAndClose(p, "done") /\ UNCHANGED known
    <2>1. /\ pc["server"] = "read_done" /\ pc'["server"] = "serve"
          /\ pc'["client"] = pc["client"]
          /\ sock'["server"] = "closed" /\ sock'["client"] = sock["client"] /\ UNCHANGED known
          /\ chan["server"] # <<>> /\ Head(chan["server"]) = "done"
          /\ chan'["server"] = Tail(chan["server"]) /\ chan'["client"] = chan["client"]
      BY <1>0, <1>6, PeerFacts DEF Step, TcpReadAndClose
    <2>2. /\ pc["client"] \in {"connect"} \cup Served
          /\ chan["server"] = <<"done">> /\ chan["client"] = <<>>
      BY <1>0, <2>1, PeerFacts DEF Shaken, Exchanged, Served, Loop, Over, Setup, Exchange
    <2>3. chan'["server"] = <<>> BY <2>1, <2>2, AppendOne
    <2>4. Exchanged' BY <2>1, <2>2, <2>3 DEF Exchanged, Served, Loop, Over
    <2>5. Connected' BY <2>1, <2>2, <1>1 DEF Shaken, Connected, Served, Loop, Over
    <2> QED BY <2>4, <2>5 DEF Shaken
  <1> QED BY <1>2, <1>3, <1>4, <1>5, <1>6 DEF ServerExchDest

LEMMA ShakenClient ==
  ASSUME SrqTypeOK, Shaken, ClientExchDest("client") PROVE Shaken'
  <1> DEFINE p == "client"
  <1>0. /\ pc \in [Peers -> Setup \cup Loop \cup Over]
        /\ sock = [r \in Peers |-> sock[r]] /\ chan = [r \in Peers |-> chan[r]]
    BY DEF SrqTypeOK
  <1>1. UNCHANGED qp BY DEF ClientExchDest, ReadAddr, Exchanging, nic
  <1>2. CASE Step(p, "dial", "write_addr") /\ TcpConnect(p) /\ UNCHANGED known
    <2>1. /\ pc["client"] = "dial" /\ pc'["client"] = "write_addr" /\ pc'["server"] = pc["server"]
          /\ sock["server"] = "listening"
          /\ sock'["server"] = "open" /\ sock'["client"] = "open" /\ UNCHANGED <<chan, known>>
      BY <1>0, <1>2, PeerFacts DEF Step, TcpConnect
    <2>2. Exchanged' BY <2>1 DEF Shaken, Exchanged, Connected, Served, Loop, Over
    <2>3. Connected' BY <2>1, <1>1 DEF Shaken, Exchanged, Connected, Served, Loop, Over
    <2> QED BY <2>2, <2>3 DEF Shaken
  <1>3. CASE Step(p, "write_addr", "read_addr") /\ TcpWrite(p, "addr") /\ UNCHANGED known
    <2>1. /\ pc["client"] = "write_addr" /\ pc'["client"] = "read_addr"
          /\ pc'["server"] = pc["server"] /\ UNCHANGED <<sock, known>>
          /\ chan'["server"] = Append(chan["server"], "addr")
          /\ chan'["client"] = chan["client"]
      BY <1>0, <1>3, PeerFacts DEF Step, TcpWrite
    <2>2. /\ pc["server"] \in {"accept", "read_addr"}
          /\ chan["client"] = <<>> /\ chan["server"] = <<>>
      BY <2>1 DEF Shaken, Exchanged
    <2>3. chan'["server"] = <<"addr">> /\ chan'["client"] = <<>> BY <2>1, <2>2, AppendOne
    <2>4. Exchanged' BY <2>1, <2>2, <2>3 DEF Exchanged, Served, Loop, Over
    <2>5. Connected' BY <2>1, <2>2, <1>1 DEF Shaken, Connected, Served, Loop, Over
    <2> QED BY <2>4, <2>5 DEF Shaken
  <1>4. CASE ReadAddr(p, "write_done")
    <2>1. /\ pc["client"] = "read_addr" /\ pc'["client"] = "write_done"
          /\ pc'["server"] = pc["server"] /\ sock' = sock
          /\ chan["client"] # <<>> /\ chan'["client"] = Tail(chan["client"])
          /\ chan'["server"] = chan["server"]
          /\ "client" \in known' /\ ("server" \in known' <=> "server" \in known)
      BY <1>0, <1>4, PeerFacts DEF ReadAddr, Step, TcpRead
    <2>2. pc["server"] = "read_done" /\ chan["client"] = <<"addr">> /\ chan["server"] = <<>>
      BY <2>1 DEF Shaken, Exchanged
    <2>3. chan'["client"] = <<>> BY <2>1, <2>2, AppendOne
    <2>4. Exchanged' BY <2>1, <2>2, <2>3 DEF Exchanged, Served, Loop, Over
    <2>5. Connected' BY <2>1, <2>2, <1>1 DEF Shaken, Connected, Served, Loop, Over
    <2> QED BY <2>4, <2>5 DEF Shaken
  <1>5. CASE Step(p, "write_done", "connect") /\ TcpWriteAndClose(p, "done") /\ UNCHANGED known
    <2>1. /\ pc["client"] = "write_done" /\ pc'["client"] = "connect"
          /\ pc'["server"] = pc["server"] /\ UNCHANGED known
          /\ sock'["client"] = "closed" /\ sock'["server"] = sock["server"]
          /\ chan'["server"] = Append(chan["server"], "done")
          /\ chan'["client"] = chan["client"]
      BY <1>0, <1>5, PeerFacts DEF Step, TcpWriteAndClose
    <2>2. pc["server"] = "read_done" /\ chan["client"] = <<>> /\ chan["server"] = <<>>
      BY <2>1 DEF Shaken, Exchanged
    <2>3. chan'["server"] = <<"done">> BY <2>1, <2>2, AppendOne
    <2>4. /\ pc'["client"] = "connect" /\ pc'["server"] = "read_done"
          /\ chan'["client"] = <<>> /\ chan'["server"] = <<"done">>
      BY <2>1, <2>2, <2>3
    <2>6. Exchanged' BY <2>4 DEF Exchanged, Served, Loop, Over
    <2>5. Connected' BY <2>1, <2>2, <1>1 DEF Shaken, Connected, Served, Loop, Over
    <2> QED BY <2>5, <2>6 DEF Shaken
  <1> QED BY <1>2, <1>3, <1>4, <1>5 DEF ClientExchDest

\* Nothing after that undoes it.
LEMMA ShakenLate ==
  ASSUME Shaken, NEW p \in Peers, pc[p] \in {"serve"} \cup Loop,
         pc'[p] \in Served, pc'[Other(p)] = pc[Other(p)], UNCHANGED <<chan, known>>,
         sock'[p] \in {sock[p], "closed"}, sock'[Other(p)] = sock[Other(p)],
         qp'[Other(p)] = qp[Other(p)], qp'[p] = qp[p] \/ pc'[p] \in Over
  PROVE  Shaken'
  <1>1. /\ pc[p] \notin Setup \ {"serve"} /\ pc'[p] \notin Setup \ {"serve"}
        /\ pc[p] \in Served /\ Served \cap Setup = {"serve"} /\ Loop \cap Over = {}
        /\ "serve" \notin Over /\ "serve" \notin Loop /\ Served = {"serve"} \cup Loop \cup Over
    BY DEF Served, Loop, Over, Setup, Exchange
  <1>2. CASE p = "client"
    <2>1. Exchanged' BY <1>1, <1>2, PeerFacts DEF Shaken, Exchanged, Setup, Exchange
    <2>2. Connected' BY <1>1, <1>2, PeerFacts DEF Shaken, Connected, Setup, Exchange
    <2> QED BY <2>1, <2>2 DEF Shaken
  <1>3. CASE p = "server"
    <2>1. Exchanged' BY <1>1, <1>3, PeerFacts DEF Shaken, Exchanged, Setup, Exchange
    <2>2. Connected' BY <1>1, <1>3, PeerFacts DEF Shaken, Connected, Setup, Exchange
    <2> QED BY <2>1, <2>2 DEF Shaken
  <1> QED BY <1>2, <1>3 DEF Peers
LEMMA ShakenKept ==
  ASSUME Shaken, UNCHANGED <<pc, sock, chan, qp, known>> PROVE Shaken'
  BY DEF Shaken, Exchanged, Connected

\* Without a failing call nobody finds the end of the stream.
LEMMA NoneFails ==
  ASSUME Shaken, faults = {}, NEW p \in Peers
  PROVE  ~ GoesOn(p) /\ ~ TcpFails(p) /\ ~ CallFails(p)
  <1>1. ~ GoesOn(p) /\ ~ CallFails(p) BY DEF GoesOn, CallFails
  <1>2. ASSUME TcpFails(p) PROVE FALSE
    <2>1. pc[p] = "read_done" /\ chan[p] = <<>> /\ sock[Other(p)] = "closed"
      BY <1>2 DEF TcpFails
    <2>2. p = "server"
      <3>1. pc["client"] # "read_done" BY DEF Shaken, Exchanged
      <3> QED BY <2>1, <3>1 DEF Peers
    <2>3. pc["client"] \in {"connect"} \cup Served
      BY <2>1, <2>2, PeerFacts DEF Shaken, Connected
    <2>4. pc["server"] = "read_done" /\ chan["server"] = <<>> BY <2>1, <2>2
    <2>5. chan["server"] = <<"done">>
      BY <2>3, <2>4 DEF Shaken, Exchanged, Served, Loop, Over
    <2> QED BY <2>4, <2>5, AppendOne
  <1> QED BY <1>1, <1>2

LEMMA ShakenLoop ==
  ASSUME SrqTypeOK, Shaken, NEW p \in Peers,
         Serve(p) \/ GetCqEvent(p) \/ ReqNotify(p) \/ PollCq(p) \/ ParseWc(p) \/ Finish(p)
  PROVE  Shaken'
  <1>0. Other(p) \in Peers /\ Other(p) # p BY PeerFacts
  <1>1. CASE Serve(p) \/ GetCqEvent(p) \/ ReqNotify(p) \/ PollCq(p)
    <2>1. /\ pc[p] \in {"serve"} \cup Loop /\ pc'[p] \in Loop /\ pc'[Other(p)] = pc[Other(p)]
          /\ UNCHANGED <<sock, chan, known, qp>>
      <3>1. /\ {"serve", "get_event", "req_notify", "poll"} \subseteq {"serve"} \cup Loop
            /\ {"req_notify", "poll", "parse"} \subseteq Loop BY DEF Loop
      <3>2. UNCHANGED <<sock, chan, known, qp>>
        BY <1>1 DEF Serve, GetCqEvent, ReqNotify, PollCq, IbvReqNotifyCq, IbvPollCq, tcp
      <3>3. \E from \in {"serve"} \cup Loop, to \in Loop : Step(p, from, to)
        BY <1>1, <3>1, LoopHeadPlace DEF Serve, GetCqEvent, ReqNotify, PollCq
      <3> QED BY <1>0, <3>2, <3>3 DEF Step, SrqTypeOK
    <2> QED BY <2>1, ShakenLate DEF Served
  <1>2. ASSUME pc[p] = "parse", NEW op, NEW i, Parsed(p, op, i) PROVE Shaken'
    <2>1. /\ pc[p] \in {"serve"} \cup Loop /\ pc'[p] \in Loop /\ pc'[Other(p)] = pc[Other(p)]
          /\ UNCHANGED <<sock, chan, known, qp>>
      BY <1>0, <1>2, LoopHeadPlace DEF Parsed, tcp, SrqTypeOK, Loop
    <2> QED BY <2>1, ShakenLate DEF Served
  <1>3. ASSUME pc[p] \in Loop, NEW how \in Over, Leave(p, how) PROVE Shaken'
    <2>1. /\ pc'[p] \in Over /\ pc'[Other(p)] = pc[Other(p)]
          /\ sock'[p] = "closed" /\ sock'[Other(p)] = sock[Other(p)]
          /\ qp'[Other(p)] = qp[Other(p)] /\ UNCHANGED <<chan, known>>
      BY <1>0, <1>3 DEF Leave, SrqTypeOK
    <2> QED BY <2>1, <1>3, ShakenLate DEF Served
  <1>4. CASE ParseWc(p)
    BY <1>2, <1>3, <1>4 DEF ParseWc, Loop, Over
  <1>5. CASE Finish(p)
    BY <1>3, <1>5 DEF Finish, Loop, Over
  <1> QED BY <1>1, <1>4, <1>5

LEMMA ShakenStep ==
  ASSUME SrqTypeOK, Shaken, faults = {}, [Next]_srqVars PROVE Shaken'
  <1>1. CASE UNCHANGED srqVars
    BY <1>1, ShakenKept DEF srqVars, vars, tcp, nic
  <1>2. ASSUME NEW p \in Peers, Program(p) PROVE Shaken'
    <2>1. CASE Prepare(p) BY <2>1, ShakenPrepare
    <2>2. CASE p = "server" /\ ServerExchDest(p) BY <2>2, ShakenServer
    <2>3. CASE p = "client" /\ ClientExchDest(p) BY <2>3, ShakenClient
    <2>4. CASE ConnectCtx(p) BY <2>4, ShakenConnect
    <2>5. CASE Serve(p) \/ GetCqEvent(p) \/ ReqNotify(p) \/ PollCq(p) \/ ParseWc(p) \/ Finish(p)
      BY <2>5, ShakenLoop
    <2> QED BY <1>2, <2>1, <2>2, <2>3, <2>4, <2>5 DEF Program
  <1>3. ASSUME NEW p \in Peers, Adapter(p) PROVE Shaken'
    BY <1>3, ShakenKept DEF Adapter, Deliver, Acknowledge, RetryExceeded, program, tcp
  <1>4. ASSUME NEW p \in Peers, GoesOn(p) \/ TcpFails(p) \/ CallFails(p) PROVE FALSE
    BY <1>4, NoneFails
  <1>5. CASE Done BY <1>1, <1>5 DEF Done
  <1> QED BY <1>1, <1>2, <1>3, <1>4, <1>5 DEF Next

-----------------------------------------------------------------------------
(* Without a failing call: who ends has exchanged everything.              *)

\* The queue pairs whose last message has reached the other side and has not
\* been counted in scnt.
Delivered(p) == {i \in Qps : sq[p][i] = "acking"} \cup In(Line(p), "SEND")

Counted(p) == /\ got[p] = rcnt[p] + Cardinality(In(Line(p), "RECV"))
              /\ got[Other(p)] = scnt[p] + Cardinality(Delivered(p))

Ending ==
  /\ \A p \in Peers : ~ Live(p) => got[p] >= Iters /\ got[Other(p)] >= Iters
  /\ \A p \in Peers : Live(p) /\ ~ AllOk(Line(p)) => ~ Live(Other(p))
  /\ \A p \in Peers : pc[p] = "finish" => scnt[p] >= Iters /\ rcnt[p] >= Iters
  /\ (\A p \in Peers : Live(p)) => \A p \in Peers : Counted(p)

EndInv == faults = {} => Shaken /\ Ending

LEMMA DeliveredFinite ==
  ASSUME NEW p PROVE Delivered(p) \subseteq Qps /\ IsFiniteSet(Delivered(p))
                     /\ Cardinality(Delivered(p)) \in Nat
  <1>1. Delivered(p) \subseteq Qps BY InFinite DEF Delivered
  <1> QED BY <1>1, QpsFinite, FS_Subset, FS_CardinalityType

\* A step of one process that does not end and delivers nothing.
LEMMA EndingFrom ==
  ASSUME Ending, NEW p \in Peers, Live(p), Live(p)', Untouched(Other(p)),
         scnt'[Other(p)] = scnt[Other(p)], rcnt'[Other(p)] = rcnt[Other(p)], UNCHANGED got,
         AllOk(Line(p)) => AllOk(Line(p)'),
         pc'[p] = "finish" => scnt'[p] >= Iters /\ rcnt'[p] >= Iters,
         Counted(p) => Counted(p)'
  PROVE  Ending'
  <1> DEFINE q == Other(p)
  <1>1. q \in Peers /\ Other(q) = p /\ \A r \in Peers : r = p \/ r = q BY PeerFacts
  <1>2. /\ Live(q)' <=> Live(q)
        /\ Line(q)' = Line(q) /\ pc'[q] = pc[q] /\ sq'[q] = sq[q]
    BY DEF Untouched, Live, Line
  <1>3. Counted(q) => Counted(q)'
    <2>1. Delivered(q)' = Delivered(q) BY <1>2 DEF Delivered
    <2>2. (Other(q))' = Other(q) BY DEF Other
    <2> QED BY <1>2, <2>1, <2>2 DEF Counted
  <1>4. \A r \in Peers : (Live(r)' <=> Live(r)) /\ (Counted(r) => Counted(r)')
                         /\ (Other(r))' = Other(r)
    BY <1>1, <1>2, <1>3 DEF Other
  <1>5. \A r \in Peers : AllOk(Line(r)) => AllOk(Line(r)') BY <1>1, <1>2
  <1>6. \A r \in Peers : pc'[r] = "finish" => scnt'[r] >= Iters /\ rcnt'[r] >= Iters
    BY <1>1, <1>2 DEF Ending
  <1>7. \A r \in Peers : (AllOk(Line(r)))' <=> AllOk(Line(r)') BY DEF AllOk
  <1>8. \A r \in Peers : ~ Live(r)' => got'[r] >= Iters /\ got'[Other(r)] >= Iters
    BY <1>4 DEF Ending
  <1>9. \A r \in Peers : Live(r)' /\ ~ AllOk(Line(r)') => ~ Live(Other(r))'
    BY <1>4, <1>5, PeerFacts DEF Ending
  <1>10. (\A r \in Peers : Live(r)') => \A r \in Peers : Counted(r)'
    BY <1>4 DEF Ending
  <1> QED BY <1>4, <1>6, <1>7, <1>8, <1>9, <1>10 DEF Ending
LEMMA QuietEnding ==
  ASSUME SrqTypeOK, Ending, NEW p \in Peers,
         \/ p = "server" /\ ServerExchDest(p)
         \/ p = "client" /\ ClientExchDest(p)
         \/ ConnectCtx(p) \/ GetCqEvent(p) \/ ReqNotify(p)
  PROVE  Ending'
  <1>1. /\ Moves(p) /\ Untouched(Other(p)) /\ pc'[p] # "finish"
        /\ UNCHANGED <<scnt, rcnt, got>>
    BY QuietMoves
  <1>2. Line(p)' = Line(p) /\ Delivered(p)' = Delivered(p) /\ Live(p) /\ Live(p)'
    BY <1>1 DEF Moves, Line, Delivered
  <1>3. Counted(p) => Counted(p)' BY <1>1, <1>2 DEF Counted, Other
  <1> QED BY <1>1, <1>2, <1>3, EndingFrom

LEMMA PrepareEnding ==
  ASSUME BallInv, Ending, NEW p \in Peers, Prepare(p) PROVE Ending'
  <1>0. SrqTypeOK /\ Queues(p) /\ Other(p) \in Peers /\ Other(p) # p BY PeerFacts DEF BallInv
  <1>1. /\ pc[p] = "start" /\ pc'[p] \in {"listen", "dial"} /\ pc'[Other(p)] = pc[Other(p)]
        /\ UNCHANGED <<pending, wc, sq, cq, scnt, rcnt, got>>
        /\ UNCHANGED <<routs[Other(p)], rq[Other(p)], qp[Other(p)]>>
    BY <1>0 DEF Prepare, Step, IbvCreate, SrqTypeOK
  <1>2. Untouched(Other(p)) BY <1>1 DEF Untouched
  <1>3. Line(p)' = Line(p) /\ Delivered(p)' = Delivered(p) /\ Live(p) /\ Live(p)'
    BY <1>1 DEF Live, Line, Delivered
  <1>4. Counted(p) => Counted(p)' BY <1>1, <1>3 DEF Counted, Other
  <1> QED BY <1>1, <1>2, <1>3, <1>4, EndingFrom

LEMMA ServeEnding ==
  ASSUME BallInv, Ending, NEW p \in Peers, Serve(p) PROVE Ending'
  <1>0. SrqTypeOK /\ Queues(p) /\ Other(p) \in Peers /\ Other(p) # p BY PeerFacts DEF BallInv
  <1>1. /\ pc[p] = "serve" /\ pc'[p] = LoopHead(p, 0, 0) /\ pc'[Other(p)] = pc[Other(p)]
        /\ UNCHANGED <<routs, wc, rq, cq, qp, pending[Other(p)], sq[Other(p)], scnt, rcnt, got>>
    BY <1>0 DEF Serve, Step, SrqTypeOK
  <1>2. pc'[p] \in {"get_event", "poll"}
    <2>1. ~ (0 >= Iters) BY QpsFinite
    <2> QED BY <1>1, <2>1 DEF LoopHead
  <1>3. sq'[p] = IF p = "client" THEN [i \in Qps |-> "posted"] ELSE sq[p]
    BY <1>0 DEF Serve, SrqTypeOK
  <1>4. Unserved(p) /\ Live(p) /\ Live(p)' BY <1>1, <1>2 DEF Unserved, Live, Setup
  <1>5. \A i \in Qps : sq[p][i] = "idle" BY <1>0, <1>4 DEF Queues, Sends
  <1>6. Line(p)' = Line(p) BY <1>1 DEF Line
  <1>7. Delivered(p)' = Delivered(p) BY <1>3, <1>5, <1>6 DEF Delivered
  <1>8. Counted(p) => Counted(p)' BY <1>1, <1>6, <1>7 DEF Counted, Other
  <1>9. Untouched(Other(p)) BY <1>1 DEF Untouched
  <1> QED BY <1>1, <1>2, <1>4, <1>6, <1>8, <1>9, EndingFrom

\* The loop ends when both counts are full.
LEMMA AtHead == ASSUME NEW p, NEW s, NEW r, LoopHead(p, s, r) = "finish"
                PROVE  s >= Iters /\ r >= Iters
  BY DEF LoopHead

LEMMA PollEnding ==
  ASSUME BallInv, Ending, NEW p \in Peers, PollCq(p) PROVE Ending'
  <1>0. SrqTypeOK /\ Queues(p) /\ Other(p) \in Peers /\ Other(p) # p BY PeerFacts DEF BallInv
  <1>1. wc' = [wc EXCEPT ![p] = cq[p]] /\ cq' = [cq EXCEPT ![p] = <<>>]
    BY <1>0, PollEffect
  <1>2. wc'[p] = cq[p] /\ cq'[p] = <<>> /\ wc'[Other(p)] = wc[Other(p)]
        /\ cq'[Other(p)] = cq[Other(p)] BY <1>0, <1>1 DEF SrqTypeOK
  <1>3. /\ pc[p] = "poll" /\ pc'[Other(p)] = pc[Other(p)]
        /\ pc'[p] \in {"parse", LoopHead(p, scnt[p], rcnt[p])}
        /\ UNCHANGED <<pending, routs, rq, sq, qp, scnt, rcnt, got>>
    BY <1>0 DEF PollCq, Step, IbvPollCq, SrqTypeOK
  <1>4. Untouched(Other(p)) BY <1>2, <1>3 DEF Untouched
  <1>5. Live(p) /\ Live(p)' /\ pc[p] # "parse"
    <2>1. pc'[p] \in Loop BY <1>3, LoopHeadPlace DEF Loop
    <2> QED BY <2>1, <1>3 DEF Live, Loop
  <1>6. Line(p)' = Line(p)
    <2>1. wc[p] = <<>> BY <1>0, <1>5 DEF Queues
    <2>2. wc[p] \in Seq(Entries) /\ cq[p] \in Seq(Entries) BY <1>0, LineType
    <2> QED BY <2>1, <2>2, <1>2, LineSteps DEF Line
  <1>7. Delivered(p)' = Delivered(p) BY <1>3, <1>6 DEF Delivered
  <1>8. Counted(p) => Counted(p)' BY <1>3, <1>6, <1>7 DEF Counted, Other
  <1>9. pc'[p] = "finish" => scnt'[p] >= Iters /\ rcnt'[p] >= Iters
    BY <1>3, AtHead
  <1> QED BY <1>3, <1>4, <1>5, <1>6, <1>8, <1>9, EndingFrom

\* main returns, here when everything has been exchanged.
LEMMA LeaveEnding ==
  ASSUME SrqTypeOK, Ending, NEW p \in Peers, NEW how \in Over, Leave(p, how),
         got[p] >= Iters, got[Other(p)] >= Iters
  PROVE  Ending'
  <1> DEFINE q == Other(p)
  <1>1. /\ q \in Peers /\ q # p /\ Other(q) = p /\ (Other(p))' = q /\ (Other(q))' = p
        /\ \A r \in Peers : r = p \/ r = q
    BY PeerFacts DEF Other
  <1>2. pc'[p] = how /\ pc'[q] = pc[q] /\ UNCHANGED <<got, scnt, rcnt>>
    BY <1>1 DEF Leave, SrqTypeOK, proc
  <1>3. ~ Live(p)' /\ pc'[p] # "finish" BY <1>2 DEF Live, Over
  <1>4. \A r \in Peers : got'[r] >= Iters /\ got'[Other(r)] >= Iters BY <1>1, <1>2
  <1>5. \A r \in Peers : Live(r)' => ~ Live(Other(r))' BY <1>1, <1>3
  <1>6. \A r \in Peers : pc'[r] = "finish" => scnt'[r] >= Iters /\ rcnt'[r] >= Iters
    BY <1>1, <1>2, <1>3 DEF Ending
  <1> QED BY <1>3, <1>4, <1>5, <1>6, <1>1 DEF Ending
LEMMA Carried == \A a, b \in Nat : b >= 1 => a + b = (a + 1) + (b - 1)
  OBVIOUS

\* What is taken is the first completion of the line.
LEMMA ParsedTail ==
  ASSUME BallInv, NEW p \in Peers, NEW op, NEW i, Looked(p, op, i),
         op = Head(wc[p]).op, i = Head(wc[p]).qp
  PROVE  /\ Cardinality(In(Line(p)', op)) = Cardinality(In(Line(p), op)) - 1
         /\ Cardinality(In(Line(p), op)) >= 1
         /\ In(Line(p)', op) = In(Line(p), op) \ {i}
         /\ \A o \in Ops : o # op => In(Line(p)', o) = In(Line(p), o)
         /\ AllOk(Line(p)) => AllOk(Line(p)')
  <1> DEFINE l == Line(p)
  <1>1. SrqTypeOK /\ Queues(p) /\ Live(p) /\ l \in Seq(Entries)
    BY LineType DEF BallInv, Looked
  <1>2. l # <<>> /\ Head(l) = Head(wc[p]) /\ Line(p)' = Tail(l) BY DEF Looked
  <1>3. Distinct(l) BY <1>1 DEF Queues, Ordered
  <1>4. op = Head(l).op /\ i = Head(l).qp BY <1>2
  <1> HIDE DEF l
  <1>5. /\ Cardinality(In(Tail(l), op)) = Cardinality(In(l, op)) - 1
        /\ Cardinality(In(l, op)) >= 1
        /\ In(Tail(l), op) = In(l, op) \ {i}
        /\ \A o \in Ops : o # op => In(Tail(l), o) = In(l, o)
        /\ AllOk(l) => AllOk(Tail(l))
    BY <1>1, <1>2, <1>3, <1>4, LineShrinks
  <1>6. l = Line(p) BY DEF l
  <1> QED BY <1>2, <1>5, <1>6

\* What is taken from the line is counted.
LEMMA ParsedCounts ==
  ASSUME BallInv, NEW p \in Peers, NEW op, NEW i, Looked(p, op, i),
         op = Head(wc[p]).op, i = Head(wc[p]).qp, Counted(p)
  PROVE  Counted(p)'
  <1>0. SrqTypeOK /\ Queues(p) /\ Line(p) \in Seq(Entries) BY LineType DEF BallInv
  <1>1. /\ op \in Ops /\ i \in Qps /\ Live(p) /\ Line(p) # <<>> /\ Head(Line(p)) = Head(wc[p])
        /\ Line(p)' = Tail(Line(p)) /\ i \in In(Line(p), op)
        /\ scnt'[p] = ScntNow(p, op) /\ rcnt'[p] = RcntNow(p, op)
        /\ sq'[p][i] = (IF Answers(p, op, i) THEN "posted" ELSE sq[p][i])
        /\ \A j \in Qps : j # i => sq'[p][j] = sq[p][j]
        /\ UNCHANGED got
    BY DEF Looked
  <1>2. Ordered(Line(p)) /\ Sends(p) BY <1>0, <1>1 DEF Queues
  <1>3. /\ Cardinality(In(Line(p)', op)) = Cardinality(In(Line(p), op)) - 1
        /\ Cardinality(In(Line(p), op)) >= 1
        /\ In(Line(p)', op) = In(Line(p), op) \ {i}
        /\ \A o \in Ops : o # op => In(Line(p)', o) = In(Line(p), o)
    BY ParsedTail
  <1>4. scnt[p] \in Nat /\ rcnt[p] \in Nat BY <1>0 DEF SrqTypeOK
  <1>5. (Other(p))' = Other(p) BY DEF Other
  <1>6. CASE op = "RECV"
    <2>1. "SEND" \in Ops /\ "SEND" # op BY <1>6 DEF Ops
    <2>2. In(Line(p)', "SEND") = In(Line(p), "SEND") BY <1>3, <2>1
    <2>3. Answers(p, op, i) => sq[p][i] = "idle"
      BY <1>1, <1>2, <1>6 DEF Answers, Sends
    <2>4. \A j \in Qps : sq'[p][j] = "acking" <=> sq[p][j] = "acking" BY <1>1, <2>3
    <2>5. Delivered(p)' = Delivered(p) BY <2>2, <2>4 DEF Delivered
    <2>6. rcnt'[p] = rcnt[p] + 1 /\ scnt'[p] = scnt[p]
      BY <1>1, <1>6 DEF ScntNow, RcntNow
    <2> DEFINE k == Cardinality(In(Line(p), "RECV"))
    <2>7. k \in Nat /\ k >= 1 /\ Cardinality(In(Line(p)', "RECV")) = k - 1
      BY <1>3, <1>6, InFinite
    <2> HIDE DEF k
    <2>8. rcnt[p] + k = (rcnt[p] + 1) + (k - 1) BY <1>4, <2>7, Carried
    <2>9. got[p] = rcnt[p] + k BY DEF Counted, k
    <2>10. got[p] = rcnt'[p] + Cardinality(In(Line(p)', "RECV")) BY <2>6, <2>7, <2>8, <2>9
    <2> QED BY <1>1, <1>3, <1>5, <2>5, <2>6, <2>10 DEF Counted
  <1>7. CASE op = "SEND"
    <2>1. "RECV" \in Ops /\ "RECV" # op BY <1>7 DEF Ops
    <2>2. In(Line(p)', "RECV") = In(Line(p), "RECV") BY <1>3, <2>1
    <2>3. sq[p][i] = "idle" BY <1>1, <1>2, <1>7 DEF Sends
    <2>4. \A j \in Qps : sq'[p][j] = "acking" <=> sq[p][j] = "acking" BY <1>1, <2>3
    <2>5. i \in Delivered(p) /\ Delivered(p)' = Delivered(p) \ {i}
      BY <1>1, <1>3, <1>7, <2>3, <2>4 DEF Delivered
    <2>6. scnt'[p] = scnt[p] + 1 /\ rcnt'[p] = rcnt[p]
      BY <1>1, <1>7 DEF ScntNow, RcntNow
    <2> DEFINE k == Cardinality(Delivered(p))
    <2>7. k \in Nat /\ k >= 1 /\ Cardinality(Delivered(p)') = k - 1
      BY <2>5, DeliveredFinite, CardPlus
    <2>8. got[Other(p)] = scnt[p] + k BY DEF Counted
    <2>9. Cardinality(Delivered(p))' = k - 1 BY <2>7
    <2> HIDE DEF k
    <2>10. scnt[p] + k = (scnt[p] + 1) + (k - 1) BY <1>4, <2>7, Carried
    <2>11. got[Other(p)] = scnt'[p] + Cardinality(Delivered(p))' BY <2>6, <2>8, <2>9, <2>10
    <2>12. got[p] = rcnt'[p] + Cardinality(In(Line(p)', "RECV")) BY <2>2, <2>6 DEF Counted
    <2> QED BY <1>1, <1>3, <1>5, <2>11, <2>12 DEF Counted
  <1> QED BY <1>1, <1>6, <1>7 DEF Ops

LEMMA ParseEnding ==
  ASSUME BallInv, Ending, NEW p \in Peers, ParseWc(p) PROVE Ending'
  <1> DEFINE c == Head(wc[p])  q == Other(p)
  <1>0. /\ SrqTypeOK /\ Queues(p) /\ q \in Peers /\ q # p /\ Other(q) = p
        /\ pc[p] = "parse"
    BY PeerFacts DEF BallInv, ParseWc
  <1>1. CASE c.ok /\ Parsed(p, c.op, c.qp)
    <2>1. Looked(p, c.op, c.qp) BY <1>0, <1>1, ParsedEffect
    <2>2. /\ scnt' = [scnt EXCEPT ![p] = ScntNow(p, c.op)]
          /\ rcnt' = [rcnt EXCEPT ![p] = RcntNow(p, c.op)]
      BY <1>1 DEF Parsed, ScntNow, RcntNow
    <2>3. scnt'[q] = scnt[q] /\ rcnt'[q] = rcnt[q] BY <1>0, <2>2
    <2>4. /\ Live(p) /\ Live(p)' /\ Untouched(Other(p)) /\ UNCHANGED got
          /\ scnt'[p] = ScntNow(p, c.op) /\ rcnt'[p] = RcntNow(p, c.op)
          /\ pc'[p] \in {"parse", LoopHead(p, ScntNow(p, c.op), RcntNow(p, c.op))}
      BY <2>1 DEF Looked
    <2>5. pc'[p] = "finish" => scnt'[p] >= Iters /\ rcnt'[p] >= Iters BY <2>4, AtHead
    <2>6. Counted(p) => Counted(p)' BY <2>1, ParsedCounts
    <2>7. AllOk(Line(p)) => AllOk(Line(p)') BY <2>1, ParsedTail
    <2> QED BY <2>3, <2>4, <2>5, <2>6, <2>7, EndingFrom
  <1>2. CASE ~ c.ok /\ Leave(p, "failed")
    <2>1. Live(p) /\ Distinct(Line(p)) /\ wc[p] # <<>>
      BY <1>0, PlaceFacts DEF Queues, Ordered, Loop
    <2>2. wc[p] \in Seq(Entries) /\ cq[p] \in Seq(Entries) /\ Line(p) = wc[p] \o cq[p]
          /\ Line(p) \in Seq(Entries)
      BY <1>0, LineType
    <2>3. Line(p) # <<>> /\ Head(Line(p)) = c
      <3>1. wc[p] # <<>> => Head(wc[p]) = Head(wc[p] \o cq[p]) /\ wc[p] \o cq[p] # <<>>
        BY <2>2, LineSteps, Zenon
      <3> QED BY <2>1, <2>2, <3>1, Zenon
    <2>4. ~ AllOk(Line(p)) BY <1>2, <2>1, <2>2, <2>3, LineShrinks
    <2>5. ~ Live(q) BY <2>1, <2>4 DEF Ending
    <2>6. got[q] >= Iters /\ got[p] >= Iters BY <1>0, <2>5 DEF Ending
    <2> QED BY <1>0, <1>2, <2>6, LeaveEnding DEF Over
  <1> QED BY <1>1, <1>2 DEF ParseWc
\* An acknowledged message was delivered before, and still is.
LEMMA AcknowledgeEnding ==
  ASSUME BallInv, Ending, NEW p \in Peers, NEW i \in Qps, Acknowledge(p, i)
  PROVE  Ending'
  <1> DEFINE c == Entry("SEND", TRUE, i)
  <1>0. SrqTypeOK /\ Queues(p) /\ Other(p) \in Peers /\ Other(p) # p BY PeerFacts DEF BallInv
  <1>1. /\ sq[p][i] = "acking" /\ sq' = [sq EXCEPT ![p][i] = "idle"] /\ Completed(p, c)
        /\ UNCHANGED <<pc, pending, routs, wc, qp, rq, scnt, rcnt, got>>
    BY DEF Acknowledge, program, proc
  <1>2. sq'[Other(p)] = sq[Other(p)] /\ sq'[p][i] = "idle"
        /\ \A j \in Qps : j # i => sq'[p][j] = sq[p][j]
    BY <1>0, <1>1 DEF SrqTypeOK
  <1>3. c \in Entries /\ c.op = "SEND" /\ c.qp = i /\ c.ok BY EntryType DEF Ops, Entry
  <1> HIDE DEF c
  <1>4. /\ Line(p)' = Append(Line(p), c) /\ cq'[Other(p)] = cq[Other(p)]
    BY <1>0, <1>1, <1>3, LineAppended
  <1>5. Live(p) /\ Live(p)'
    <2>1. Live(p) BY <1>0, <1>1 DEF Queues, Idle
    <2> QED BY <2>1, <1>1 DEF Live
  <1>6. Untouched(Other(p)) BY <1>1, <1>2, <1>4 DEF Untouched
  <1>8. Distinct(Line(p)) /\ i \notin In(Line(p), "SEND")
    BY <1>0, <1>1, <1>5 DEF Queues, Ordered, Sends
  <1>9. /\ In(Line(p)', "SEND") = In(Line(p), "SEND") \cup {i}
        /\ In(Line(p)', "RECV") = In(Line(p), "RECV")
        /\ AllOk(Line(p)) => AllOk(Line(p)')
    <2> DEFINE l == Line(p)
    <2>1. l \in Seq(Entries) BY <1>0, LineType
    <2>2. /\ In(Append(l, c), "SEND") = In(l, "SEND") \cup {i}
          /\ In(Append(l, c), "RECV") = In(l, "RECV")
          /\ AllOk(l) => AllOk(Append(l, c))
      BY <2>1, <1>3, <1>8, LineGrows DEF Ops
    <2> QED BY <2>2, <1>4
  <1>10. Delivered(p)' = Delivered(p) BY <1>1, <1>2, <1>9 DEF Delivered
  <1>11. Counted(p) => Counted(p)' BY <1>1, <1>9, <1>10 DEF Counted, Other
  <1>12. pc'[p] = "finish" => scnt'[p] >= Iters /\ rcnt'[p] >= Iters BY <1>1 DEF Ending
  <1> QED BY <1>1, <1>5, <1>6, <1>9, <1>11, <1>12, EndingFrom

\* A send fails only when the other side has ended: until then it is connected,
\* and its address is known.
LEMMA RetryEnding ==
  ASSUME BallInv, Shaken, Ending, NEW p \in Peers, NEW i \in Qps, RetryExceeded(p, i)
  PROVE  Ending'
  <1> DEFINE q == Other(p)  c == Entry("SEND", FALSE, i)
  <1>0. /\ SrqTypeOK /\ Queues(p) /\ Queues(q) /\ q \in Peers /\ q # p /\ Other(q) = p
        /\ (Other(p))' = q /\ (Other(q))' = p
        /\ (\A r \in Peers : r = p \/ r = q) /\ OneBall(q, i)
    BY PeerFacts DEF BallInv, Other
  <1>1. /\ sq[p][i] = "posted" /\ sq' = [sq EXCEPT ![p][i] = "idle"] /\ Completed(p, c)
        /\ qp[q] # "rts" \/ p \notin known
        /\ UNCHANGED <<pc, wc, scnt, rcnt, got>>
    BY DEF RetryExceeded, program, proc
  <1>2. Live(p) BY <1>0, <1>1 DEF Queues, Idle
  <1>3. pc[p] \in Loop
    <2>1. "SEND" \in pending[p][i] BY <1>0, <1>1, <1>2 DEF Queues, Sends
    <2>2. ~ Unserved(p) BY <1>0, <2>1 DEF Queues
    <2> QED BY <1>0, <1>2, <2>2 DEF Unserved, Live, SrqTypeOK, Over
  <1>4. ~ Live(q)
    <2> SUFFICES ASSUME Live(q) PROVE FALSE OBVIOUS
    <2>1. CASE p = "client"
      <3>1. q = "server" BY <2>1, PeerFacts
      <3>2. "client" \in known BY <1>3, <2>1 DEF Shaken, Connected
      <3>3. pc["server"] \in {"read_done"} \cup Served
        BY <1>3, <2>1 DEF Shaken, Exchanged, Served
      <3>4. pc["server"] \in {"read_done", "serve"} \cup Loop
        BY <3>1, <3>3 DEF Served, Live, Over
      <3>5. qp["server"] = "rts" BY <3>4 DEF Shaken, Connected
      <3> QED BY <1>1, <2>1, <3>1, <3>2, <3>5
    <2>2. CASE p = "server"
      <3>1. q = "client" BY <2>2, PeerFacts
      <3>2. "server" \in known BY <1>3, <2>2 DEF Shaken, Connected
      <3>3. pc["client"] \in {"connect"} \cup Served
        <4>1. pc["client"] \in Setup \cup Loop \cup Over BY <1>0, PeerFacts DEF SrqTypeOK
        <4>2. pc["server"] \notin {"start", "listen", "accept", "read_addr", "connect",
                                   "write_addr", "read_done"} BY <1>3, <2>2 DEF Loop
        <4> QED BY <4>1, <4>2 DEF Shaken, Exchanged, Served, Setup, Exchange
      <3>4. ~ Held(q, i)
        <4>1. Coming(q, i) BY <1>0, <1>1 DEF Coming
        <4> QED BY <4>1, <1>0 DEF OneBall
      <3>5. ~ Unserved(q)
        <4>1. Unserved(q) => "RECV" \notin pending[q][i] BY <1>0 DEF Queues
        <4> QED BY <4>1, <3>1, <3>4 DEF Held
      <3>6. pc["client"] \in Loop BY <3>1, <3>3, <3>5 DEF Served, Unserved, Live, Over, Setup
      <3>7. qp["client"] = "rts" BY <3>6 DEF Shaken, Connected
      <3> QED BY <1>1, <2>2, <3>1, <3>2, <3>7
    <2> QED BY <2>1, <2>2 DEF Peers
  <1>5. ~ Live(q)' /\ \A r \in Peers : Live(r)' <=> Live(r) BY <1>1, <1>4 DEF Live
  <1>6. \A r \in Peers : ~ Live(r)' => got'[r] >= Iters /\ got'[Other(r)] >= Iters
    BY <1>1, <1>5 DEF Ending
  <1>7. \A r \in Peers : Live(r)' => ~ Live(Other(r))'
    BY <1>0, <1>5
  <1>8. \A r \in Peers : pc'[r] = "finish" => scnt'[r] >= Iters /\ rcnt'[r] >= Iters
    BY <1>1 DEF Ending
  <1> QED BY <1>0, <1>5, <1>6, <1>7, <1>8 DEF Ending

LEMMA Another == \A a, b \in Nat : (a + b) + 1 = a + (b + 1)
  OBVIOUS

\* A delivered message is counted on both sides.
LEMMA DeliverEnding ==
  ASSUME BallInv, Ending, NEW p \in Peers, NEW i \in Qps, Deliver(p, i) PROVE Ending'
  <1> DEFINE q == Other(p)  c == Entry("RECV", TRUE, i)
  <1>0. /\ SrqTypeOK /\ Queues(p) /\ Queues(q) /\ q \in Peers /\ q # p /\ Other(q) = p
        /\ (Other(p))' = q /\ (Other(q))' = p
        /\ (\A r \in Peers : r = p \/ r = q) /\ OneBall(q, i)
    BY PeerFacts DEF BallInv, Other
  <1>1. /\ sq[p][i] = "posted" /\ qp[q] = "rts" /\ sq' = [sq EXCEPT ![p][i] = "acking"]
        /\ Completed(q, c) /\ got' = [got EXCEPT ![q] = @ + 1]
        /\ UNCHANGED <<pc, wc, scnt, rcnt>>
    BY DEF Deliver, Ready, program, proc
  <1>2. /\ sq'[q] = sq[q] /\ sq'[p][i] = "acking" /\ \A j \in Qps : j # i => sq'[p][j] = sq[p][j]
    BY <1>0, <1>1 DEF SrqTypeOK
  <1>3. /\ got'[q] = got[q] + 1 /\ got'[p] = got[p]
        /\ scnt[p] \in Nat /\ rcnt[q] \in Nat
    BY <1>0, <1>1 DEF SrqTypeOK
  <1>4. c \in Entries /\ c.op = "RECV" /\ c.qp = i /\ c.ok BY EntryType DEF Ops, Entry
  <1> HIDE DEF c, q
  <1>5. Line(q)' = Append(Line(q), c) /\ Line(p)' = Line(p)
    BY <1>0, <1>1, <1>4, LineAppended
  <1>6. Live(p) /\ Live(q)
    BY <1>0, <1>1 DEF Queues, Idle
  <1>7. \A r \in Peers : Live(r) /\ Live(r)' BY <1>0, <1>1, <1>6 DEF Live
  <1>8. Distinct(Line(q)) /\ Sends(p) BY <1>0, <1>6 DEF Queues, Ordered
  <1>9. i \notin In(Line(q), "RECV")
    <2>1. Coming(q, i) BY <1>0, <1>1 DEF Coming
    <2>2. ~ Arrived(q, i) BY <2>1, <1>0 DEF OneBall
    <2> QED BY <2>2, <1>6 DEF Arrived
  <1>10. /\ Cardinality(In(Line(q)', "RECV")) = Cardinality(In(Line(q), "RECV")) + 1
         /\ In(Line(q)', "SEND") = In(Line(q), "SEND")
         /\ AllOk(Line(q)) => AllOk(Line(q)')
    <2> DEFINE l == Line(q)
    <2>1. l \in Seq(Entries) BY <1>0, LineType
    <2>2. /\ Cardinality(In(Append(l, c), "RECV")) = Cardinality(In(l, "RECV")) + 1
          /\ In(Append(l, c), "SEND") = In(l, "SEND")
          /\ AllOk(l) => AllOk(Append(l, c))
      BY <2>1, <1>4, <1>8, <1>9, LineGrows DEF Ops
    <2> QED BY <2>2, <1>5
  <1>11. i \notin Delivered(p) /\ Delivered(p)' = Delivered(p) \cup {i}
    <2>1. i \notin In(Line(p), "SEND") BY <1>1, <1>8 DEF Sends
    <2> QED BY <2>1, <1>1, <1>2, <1>5 DEF Delivered
  <1>12. Cardinality(Delivered(p)') = Cardinality(Delivered(p)) + 1
    BY <1>11, DeliveredFinite, CardPlus
  <1>13. Delivered(q)' = Delivered(q) BY <1>2, <1>10 DEF Delivered
  <1>14. Counted(p) /\ Counted(q) BY <1>0, <1>7 DEF Ending
  <1>15. Counted(q)'
    <2> DEFINE k == Cardinality(In(Line(q), "RECV"))
    <2>1. got[q] = rcnt[q] + k /\ k \in Nat BY <1>14, InFinite DEF Counted
    <2>2. Cardinality(In(Line(q)', "RECV")) = k + 1 BY <1>10
    <2>3. got'[p] = scnt'[q] + Cardinality(Delivered(q)')
      BY <1>0, <1>1, <1>3, <1>13, <1>14 DEF Counted
    <2> HIDE DEF k
    <2>4. got[q] + 1 = rcnt[q] + (k + 1) BY <2>1, <1>3, Another
    <2>5. got'[q] = rcnt'[q] + Cardinality(In(Line(q)', "RECV")) BY <2>2, <2>4, <1>1, <1>3
    <2> QED BY <2>3, <2>5, <1>0 DEF Counted
  <1>16. Counted(p)'
    <2> DEFINE k == Cardinality(Delivered(p))
    <2>1. got[q] = scnt[p] + k /\ k \in Nat BY <1>14, <1>0, DeliveredFinite DEF Counted, q
    <2>2. Cardinality(Delivered(p)') = k + 1 BY <1>12
    <2>3. got'[p] = rcnt'[p] + Cardinality(In(Line(p)', "RECV"))
      BY <1>1, <1>3, <1>5, <1>14 DEF Counted
    <2> HIDE DEF k
    <2>4. got[q] + 1 = scnt[p] + (k + 1) BY <2>1, <1>3, Another
    <2>5. got'[q] = scnt'[p] + Cardinality(Delivered(p)') BY <2>2, <2>4, <1>1, <1>3
    <2> QED BY <2>3, <2>5, <1>0 DEF Counted
  <1>17. \A r \in Peers : AllOk(Line(r)')
    <2>1. AllOk(Line(p)) /\ AllOk(Line(q)) BY <1>0, <1>7 DEF Ending
    <2> QED BY <2>1, <1>0, <1>5, <1>10
  <1>18. \A r \in Peers : AllOk(Line(r))' BY <1>17 DEF AllOk
  <1>19. \A r \in Peers : pc'[r] = "finish" => scnt'[r] >= Iters /\ rcnt'[r] >= Iters
    BY <1>1 DEF Ending
  <1>20. \A r \in Peers : Counted(r)' BY <1>0, <1>15, <1>16
  <1> QED BY <1>7, <1>18, <1>19, <1>20 DEF Ending

\* A side that finishes has counted what both have got, or the other one has.
LEMMA FinishEnding ==
  ASSUME BallInv, Ending, NEW p \in Peers, Finish(p) PROVE Ending'
  <1> DEFINE q == Other(p)
  <1>0. /\ SrqTypeOK /\ q \in Peers /\ Other(q) = p /\ (\A r \in Peers : r = p \/ r = q)
        /\ pc[p] = "finish" /\ Leave(p, "ok")
    BY PeerFacts DEF BallInv, Finish
  <1>1. scnt[p] >= Iters /\ rcnt[p] >= Iters /\ Live(p) BY <1>0 DEF Ending, Live
  <1>2. got[p] >= Iters /\ got[q] >= Iters
    <2>1. CASE ~ Live(q) BY <1>0, <2>1 DEF Ending
    <2>2. CASE Live(q)
      <3>1. Counted(p) BY <1>0, <1>1, <2>2 DEF Ending
      <3>2. scnt[p] \in Nat /\ rcnt[p] \in Nat BY <1>0 DEF SrqTypeOK
      <3>3. \A a, b, n \in Nat : a >= n => a + b >= n OBVIOUS
      <3> QED BY <1>1, <3>1, <3>2, <3>3, InFinite, DeliveredFinite, QpsFinite DEF Counted
    <2> QED BY <2>1, <2>2
  <1> QED BY <1>0, <1>2, LeaveEnding DEF Over

LEMMA EndInit == SrqInit => EndInv
  <1> SUFFICES ASSUME SrqInit PROVE Shaken /\ Ending BY DEF EndInv
  <1>1. Shaken BY ShakenInit
  <1>2. ASSUME NEW p \in Peers
        PROVE  /\ pc[p] = "start" /\ sq[p] = Idle /\ Line(p) = <<>>
               /\ scnt[p] = 0 /\ rcnt[p] = 0 /\ got[p] = 0 /\ got[Other(p)] = 0
    <2>1. <<>> \o <<>> = <<>> OBVIOUS
    <2> QED BY <1>2, <2>1, PeerFacts DEF SrqInit, Zero, Line
  <1>3. ASSUME NEW p \in Peers PROVE Counted(p)
    <2>1. Delivered(p) = {} BY <1>2, NothingIn DEF Delivered, Idle
    <2>2. Cardinality({}) = 0 BY FS_EmptySet
    <2> QED BY <1>2, <2>1, <2>2, NothingIn DEF Counted
  <1>4. Ending BY <1>2, <1>3, NothingIn DEF Ending, Live
  <1> QED BY <1>1, <1>4

LEMMA EndingStep ==
  ASSUME BallInv, Shaken, Ending, faults = {}, [Next]_srqVars PROVE Ending'
  <1>0. SrqTypeOK BY DEF BallInv
  <1>1. CASE UNCHANGED srqVars
    BY <1>1 DEF srqVars, vars, proc, nic, Ending, Counted, Delivered, Line, Live, AllOk, Other
  <1>2. ASSUME NEW p \in Peers, Program(p) PROVE Ending'
    <2>1. CASE Prepare(p) BY <2>1, PrepareEnding
    <2>2. CASE \/ p = "server" /\ ServerExchDest(p)
               \/ p = "client" /\ ClientExchDest(p)
      BY <1>0, <2>2, QuietEnding
    <2>3. CASE ConnectCtx(p) \/ GetCqEvent(p) \/ ReqNotify(p) BY <1>0, <2>3, QuietEnding
    <2>4. CASE Serve(p) BY <2>4, ServeEnding
    <2>5. CASE PollCq(p) BY <2>5, PollEnding
    <2>6. CASE ParseWc(p) BY <2>6, ParseEnding
    <2>7. CASE Finish(p) BY <2>7, FinishEnding
    <2> QED BY <1>2, <2>1, <2>2, <2>3, <2>4, <2>5, <2>6, <2>7 DEF Program
  <1>3. ASSUME NEW p \in Peers, Adapter(p) PROVE Ending'
    BY <1>3, DeliverEnding, AcknowledgeEnding, RetryEnding DEF Adapter
  <1>4. ASSUME NEW p \in Peers, GoesOn(p) \/ TcpFails(p) \/ CallFails(p) PROVE FALSE
    BY <1>4, NoneFails
  <1>5. CASE Done BY <1>1, <1>5 DEF Done
  <1> QED BY <1>1, <1>2, <1>3, <1>4, <1>5 DEF Next

LEMMA FaultsKept == [Next]_srqVars => faults' = faults
  <1>1. UNCHANGED options => faults' = faults BY DEF options
  <1>2. \A p \in Peers : Program(p) => UNCHANGED options
    BY DEF Program, Prepare, ServerExchDest, ClientExchDest, ReadAddr, Exchanging, ConnectCtx,
       Serve, GetCqEvent, ReqNotify, PollCq, ParseWc, Parsed, Finish, Leave
  <1>3. \A p \in Peers : Adapter(p) => UNCHANGED options
    BY DEF Adapter, Deliver, Acknowledge, RetryExceeded, program
  <1>4. \A p \in Peers : GoesOn(p) \/ TcpFails(p) \/ CallFails(p) => UNCHANGED options
    BY DEF GoesOn, TcpFails, CallFails, Exchanging, Leave
  <1>5. UNCHANGED srqVars => UNCHANGED options BY DEF srqVars, vars
  <1> QED BY <1>1, <1>2, <1>3, <1>4, <1>5 DEF Next, Done

\* The invariant of the second part.
LEMMA EndHolds == Spec => []EndInv
  <1>1. BallInv /\ EndInv /\ [Next]_srqVars => EndInv'
    <2> SUFFICES ASSUME BallInv, EndInv, [Next]_srqVars, faults' = {} PROVE Shaken' /\ Ending'
      BY DEF EndInv
    <2>1. faults = {} BY FaultsKept
    <2>2. Shaken /\ Ending BY <2>1 DEF EndInv
    <2>3. SrqTypeOK BY DEF BallInv
    <2> QED BY <2>1, <2>2, <2>3, ShakenStep, EndingStep
  <1> QED BY <1>1, EndInit, BallHolds, PTL DEF Spec

\* Without a failing call a side that has ended has got Iters messages and had
\* Iters delivered, also when it ended because a send of one too many failed.
THEOREM EndedGotAllHolds == Spec => []EndedGotAll
  <1>1. EndInv => EndedGotAll BY DEF EndInv, Ending, EndedGotAll
  <1> QED BY <1>1, EndHolds, PTL
=============================================================================
