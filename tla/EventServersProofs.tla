------------------------- MODULE EventServersProofs -------------------------
(***************************************************************************)
(* Theorems about EventServers, for every finite set of clients, any size  *)
(* of the buffer, any limits and any faults.                               *)
(***************************************************************************)
EXTENDS EventServers, SequenceTheorems, WellFoundedInduction, TLAPS

-----------------------------------------------------------------------------
(* Lemmas about the operators of the model.                                *)

\* The greatest element of a set of positions.
LEMMA Greatest ==
  ASSUME NEW n \in Nat, NEW L \in SUBSET (1..n), L # {}
  PROVE  Max(L) \in L /\ \A y \in L : y <= Max(L)
<1> DEFINE T == {n - y : y \in L}
           R == OpToRel(<, Nat)
<1>1. T \subseteq Nat /\ T # {}
  OBVIOUS
<1>2. PICK t \in T : \A y \in T : ~(<<y, t>> \in R)
  <2> HIDE DEF T, R
  <2>1. IsWellFoundedOn(R, Nat)
    BY NatLessThanWellFounded DEF R
  <2> QED  BY <1>1, <2>1, WFMin
<1>3. PICK m \in L : t = n - m
  OBVIOUS
<1>4. ASSUME NEW y \in L PROVE y <= m
  <2>1. n - y \in T /\ n - y \in Nat /\ t \in Nat
    BY <1>1
  <2>2. ~(n - y < t)
    BY <2>1, <1>2 DEF OpToRel
  <2> QED  BY <2>2, <1>3
<1>5. \E x \in L : \A y \in L : x >= y
  BY <1>4
<1> QED  BY <1>5 DEF Max

\* What do_read and do_write keep true of the memory of a connection, whoever
\* has had it before: the indices are in order, there is room for the next line
\* (or its end), the write event is set only when there is something to send,
\* and everything up to used has been typed by somebody.
Memory(s) == /\ s.written <= s.upto /\ s.upto <= s.used /\ s.written < MaxLine
             /\ s.pending => s.written < s.upto
             /\ \A k \in 0..(s.used - 1) : s.buffer[k] \in Texts

LEMMA FreshMemory == Fresh \in FdState /\ Memory(Fresh)
<1>1. Fresh.buffer \in [0..(MaxLine - 1) -> Texts \cup {Zero}]
  BY DEF Fresh
<1>2. Fresh \in FdState
  BY <1>1, Rot13Assumption DEF Fresh, FdState
<1> QED  BY <1>2, Rot13Assumption DEF Fresh, Memory

LEMMA CharType == ASSUME NEW ch \in Texts PROVE Rot13Char(ch) \in Texts
BY DEF Texts, Typed, Rot13Char

\* do_read: the new indices.
LEMMA PutIndices ==
  ASSUME NEW s \in FdState, Memory(s), NEW text \in Seq(Texts)
  PROVE  LET t == Put(s, text)
             lines == {n \in DOMAIN text : text[n][2] = "nl"} IN
         /\ t \in FdState
         /\ Memory(t)
         /\ t.written = s.written
         /\ t.used = IF s.used + Len(text) <= MaxLine THEN s.used + Len(text)
                                                      ELSE MaxLine
         /\ t.buffer = [k \in 0..(MaxLine - 1) |->
                          IF s.used <= k /\ k < s.used + Len(text)
                            THEN Rot13Char(text[k - s.used + 1]) ELSE s.buffer[k]]
<1> DEFINE lines == {n \in DOMAIN text : text[n][2] = "nl"}
           Upto(n) == IF s.used + n <= MaxLine THEN s.used + n ELSE MaxLine
           b == [k \in 0..(MaxLine - 1) |->
                   IF s.used <= k /\ k < s.used + Len(text)
                     THEN Rot13Char(text[k - s.used + 1]) ELSE s.buffer[k]]
           u == IF lines = {} THEN s.upto ELSE Upto(Max(lines))
           t == [s EXCEPT !.buffer = b, !.used = Upto(Len(text)), !.upto = u,
                          !.pending = @ \/ lines # {}]
<1>1. /\ s.buffer \in [0..(MaxLine - 1) -> Texts \cup {Zero}]
      /\ s.used \in 0..MaxLine /\ s.written \in 0..MaxLine
      /\ s.upto \in 0..MaxLine /\ s.pending \in BOOLEAN
  BY DEF FdState
<1>2. Put(s, text) = t
  BY <1>1 DEF Put
<1>3. Len(text) \in Nat /\ DOMAIN text = 1..Len(text)
  OBVIOUS
<1>4. lines # {} => Max(lines) \in 1..Len(text)
  BY <1>3, Greatest
<1>5. \A k \in 0..(MaxLine - 1) :
        s.used <= k /\ k < s.used + Len(text) => Rot13Char(text[k - s.used + 1]) \in Texts
  BY <1>1, <1>3, CharType, Rot13Assumption
<1>6. b \in [0..(MaxLine - 1) -> Texts \cup {Zero}]
  BY <1>1, <1>5
<1>7. Upto(Len(text)) \in 0..MaxLine /\ u \in 0..MaxLine
  BY <1>1, <1>3, <1>4, Rot13Assumption
<1>8. (s.pending \/ lines # {}) \in BOOLEAN
  OBVIOUS
<1> HIDE DEF b, u
<1>9. /\ t.buffer = b /\ t.used = Upto(Len(text)) /\ t.upto = u
      /\ t.written = s.written /\ t.pending = (s.pending \/ lines # {})
  BY DEF FdState
<1>10. t \in FdState
  BY <1>1, <1>6, <1>7, <1>8 DEF FdState
<1>11. t.written <= t.upto /\ t.upto <= t.used /\ t.written < MaxLine
       /\ (t.pending => t.written < t.upto)
  BY <1>1, <1>3, <1>4, <1>9, Rot13Assumption, SMTT(20) DEF Memory, u
<1>12. \A k \in 0..(t.used - 1) : t.buffer[k] \in Texts
  BY <1>1, <1>3, <1>5, <1>9, Rot13Assumption DEF Memory, b
<1> QED  BY <1>2, <1>9, <1>10, <1>11, <1>12 DEF Memory, b

\* do_write: the indices after k characters.
LEMMA WroteIndices ==
  ASSUME NEW s \in FdState, Memory(s), NEW k \in 1..(s.upto - s.written)
  PROVE  LET t == Wrote(s, k) IN
         /\ t \in FdState
         /\ Memory(t)
         /\ t.buffer = s.buffer
         /\ \/ /\ k < s.upto - s.written /\ t.pending = s.pending
               /\ t.written = s.written + k /\ t.used = s.used
            \/ /\ k = s.upto - s.written /\ t.pending = FALSE
               /\ \/ t.written = s.written + k /\ t.used = s.used
                  \/ s.written + k = s.used /\ t.written = t.used /\ t.used <= s.used
<1>1. /\ s.buffer \in [0..(MaxLine - 1) -> Texts \cup {Zero}]
      /\ s.used \in 0..MaxLine /\ s.written \in 0..MaxLine
      /\ s.upto \in 0..MaxLine /\ s.pending \in BOOLEAN
  BY DEF FdState
<1>2. CASE k < s.upto - s.written
  <2>1. Wrote(s, k) = [s EXCEPT !.written = @ + k]
    BY <1>1, <1>2 DEF Wrote
  <2>2. s.written + k \in 0..MaxLine
    BY <1>1, <1>2, Rot13Assumption
  <2> DEFINE t == [s EXCEPT !.written = @ + k]
  <2>3. t \in FdState
    BY <2>2 DEF FdState
  <2>4. /\ t.buffer = s.buffer /\ t.used = s.used /\ t.upto = s.upto
        /\ t.written = s.written + k /\ t.pending = s.pending
    BY DEF FdState
  <2> HIDE DEF t
  <2>5. Memory(t)
    BY <1>1, <1>2, <2>4, Rot13Assumption DEF Memory
  <2> QED  BY <1>2, <2>1, <2>3, <2>4, <2>5 DEF t
<1>3. CASE k = s.upto - s.written /\ s.upto # s.used
  <2> DEFINE t == [s EXCEPT !.written = s.upto, !.pending = FALSE]
  <2>1. Wrote(s, k) = t
    BY <1>1, <1>3 DEF Wrote, Drained
  <2>3. t \in FdState
    BY <1>1 DEF FdState
  <2>4. /\ t.buffer = s.buffer /\ t.used = s.used /\ t.upto = s.upto
        /\ t.written = s.upto /\ t.pending = FALSE
    BY DEF FdState
  <2> HIDE DEF t
  <2>5. Memory(t)
    BY <1>1, <1>3, <2>4, Rot13Assumption DEF Memory
  <2>6. t.written = s.written + k
    BY <1>1, <1>3, <2>4
  <2> QED  BY <1>3, <2>1, <2>3, <2>4, <2>5, <2>6
<1>4. CASE k = s.upto - s.written /\ s.upto = s.used
  <2> DEFINE t == [s EXCEPT !.written = 1, !.upto = 1, !.used = 1, !.pending = FALSE]
  <2>1. Wrote(s, k) = t
    BY <1>1, <1>4 DEF Wrote, Drained
  <2>2. 1 \in 0..MaxLine /\ 1 < MaxLine
    BY Rot13Assumption
  <2>3. t \in FdState
    BY <2>2 DEF FdState
  <2>4. /\ t.buffer = s.buffer /\ t.used = 1 /\ t.upto = 1
        /\ t.written = 1 /\ t.pending = FALSE
    BY DEF FdState
  <2> HIDE DEF t
  <2>5. 1 <= s.used /\ s.written + k = s.used
    BY <1>1, <1>4 DEF Memory
  <2>6. Memory(t)
    BY <1>1, <2>2, <2>4, <2>5 DEF Memory
  <2> QED  BY <1>4, <2>1, <2>3, <2>4, <2>5, <2>6
<1>5. k < s.upto - s.written \/ k = s.upto - s.written
  BY <1>1
<1> HIDE DEF Memory
<1> QED  BY <1>2, <1>3, <1>4, <1>5

\* What do_write has to send.
LEMMA TextToSend ==
  ASSUME NEW s \in FdState, Memory(s), NEW from \in Nat, NEW to \in Nat,
         from <= to, to <= s.used
  PROVE  /\ Text(s, from, to) \in Seq(Texts)
         /\ Len(Text(s, from, to)) = to - from
         /\ \A n \in 1..(to - from) : Text(s, from, to)[n] = s.buffer[from + n - 1]
<1>1. s.used \in 0..MaxLine
  BY DEF FdState
<1>2. \A n \in 1..(to - from) : s.buffer[from + n - 1] \in Texts
  BY <1>1, Rot13Assumption DEF Memory
<1> QED  BY <1>2, IsASeq DEF Text

-----------------------------------------------------------------------------
(* Types.                                                                  *)

\* The clients of each program, and what the rot13 server reads.
Places(c) ==
  /\ server = "epoll" => cpc[c] \in {"start", "send", "read", "sleep", "done",
                                     "killed"}
  /\ server = "rot13" => /\ cpc[c] \in {"start", "on", "half", "done"}
                         /\ toServer[c] \in Seq(Texts)

Base == /\ TypeOK
        /\ \A c \in Clients : Places(c) /\ Memory(state[c]) /\ Memory(start[c])

LEMMA EmptySeqs == <<>> \in Seq(Texts) /\ <<>> \in Seq(Texts \cup {Ack})
                   /\ <<>> \in Seq(Texts \cup {Hello})
OBVIOUS

LEMMA InitBase == Init => Base
<1> SUFFICES ASSUME Init PROVE Base
  OBVIOUS
<1> USE DEF Init, SocketsInit, Rot13Init
<1>1. SocketsTypeOK
  BY EmptySeqs DEF SocketsTypeOK
<1>2. Rot13TypeOK
  BY FreshMemory DEF Rot13TypeOK
<1>3. \A c \in Clients : Memory(state[c]) /\ Memory(start[c])
  BY FreshMemory
<1>4. \A c \in Clients : Places(c)
  BY EmptySeqs DEF Places
<1>5. batch \subseteq Clients \cup {Listener}
  OBVIOUS
<1> QED  BY <1>1, <1>2, <1>3, <1>4, <1>5 DEF Base, TypeOK

\* The variables of the two servers in a step of a client.
ServersRest == UNCHANGED <<batch, rot13>>

LEMMA CloseEndBase ==
  ASSUME Base, NEW c \in Clients, NEW step \in {"done", "killed"},
         CloseEnd(c, step), ServersRest, step = "killed" => server = "epoll"
  PROVE  Base'
<1>1. SocketsTypeOK /\ Rot13TypeOK
  BY DEF Base, TypeOK
<1>2. /\ cpc' = [cpc EXCEPT ![c] = step]
      /\ toClient' = [toClient EXCEPT ![c] = <<>>]
      /\ ready' = (IF c \in watched THEN ready \cup {c} ELSE ready)
      /\ UNCHANGED <<setting, srv, sent, got, toServer, conn, watched, batch, rot13>>
  BY DEF CloseEnd, At, Edge, ServersRest
<1>3. end' \in [Clients -> {"up", "fin", "rst", "finrst", "shut"}]
  BY <1>1 DEF CloseEnd, SocketsTypeOK
<1>4. SocketsTypeOK'
  BY <1>1, <1>2, <1>3, EmptySeqs DEF SocketsTypeOK, setting
<1>5. Rot13TypeOK' /\ (batch \subseteq Clients \cup {Listener})'
  BY <1>1, <1>2 DEF Rot13TypeOK, rot13, Base, TypeOK
<1>6. \A d \in Clients : Places(d)'
  BY <1>1, <1>2 DEF Base, Places, setting, SocketsTypeOK
<1>7. \A d \in Clients : Memory(state[d])' /\ Memory(start[d])'
  BY <1>2 DEF Base, rot13, Memory
<1> QED  BY <1>4, <1>5, <1>6, <1>7 DEF Base, TypeOK

LEMMA ClientBase ==
  ASSUME Base, NEW c \in Clients, ClientStep(c) \/ UserStep(c), ServersRest
  PROVE  Base'
<1> DEFINE Types == /\ cpc' \in [Clients -> {"start", "send", "read", "sleep", "on",
                                    "half", "done", "killed"}]
                    /\ sent' \in [Clients -> Seq(Texts)]
                    /\ got' \in [Clients -> Seq(Texts \cup {Ack})]
                    /\ toServer' \in [Clients -> Seq(Texts \cup {Hello})]
                    /\ toClient' \in [Clients -> Seq(Texts \cup {Ack})]
                    /\ conn' \in [Clients -> {"none", "backlog", "open", "closed"}]
                    /\ end' \in [Clients -> {"up", "fin", "rst", "finrst", "shut"}]
                    /\ ready' \subseteq watched
           Same  == UNCHANGED <<setting, srv, watched>>
<1>1. SocketsTypeOK /\ Rot13TypeOK
  BY DEF Base, TypeOK
<1>2. ASSUME Types, Same, \A d \in Clients : Places(d)' PROVE Base'
  <2>1. SocketsTypeOK'
    BY <1>1, <1>2 DEF SocketsTypeOK, setting
  <2>2. Rot13TypeOK' /\ (batch \subseteq Clients \cup {Listener})'
    BY <1>1 DEF Rot13TypeOK, rot13, Base, TypeOK, ServersRest
  <2>3. \A d \in Clients : Memory(state[d])' /\ Memory(start[d])'
    BY DEF Base, rot13, Memory, ServersRest
  <2> QED  BY <1>2, <2>1, <2>2, <2>3 DEF Base, TypeOK
<1>3. \A d \in Clients : Places(d)
  BY DEF Base
<1>4. CASE Dial(c)
  <2>1. Types /\ Same
    BY <1>1, <1>4 DEF Dial, At, SocketsTypeOK, epoll
  <2>2. \A d \in Clients : Places(d)'
    BY <1>1, <1>3, <1>4 DEF Dial, At, Places, setting, SocketsTypeOK
  <2> QED  BY <1>2, <2>1, <2>2
<1>5. CASE SendHello(c)
  <2>1. server # "rot13"
    BY <1>3, <1>5 DEF Places, SendHello
  <2>2. Append(toServer[c], Hello) \in Seq(Texts \cup {Hello})
    BY <1>1 DEF SocketsTypeOK
  <2>5. /\ toServer' \in [Clients -> Seq(Texts \cup {Hello})]
        /\ ready' \subseteq watched /\ UNCHANGED watched
    <3>1. CASE conn[c] = "closed"
      BY <1>1, <1>5, <3>1 DEF SendHello, SocketsTypeOK
    <3>2. CASE conn[c] # "closed"
      <4>1. /\ toServer' = [toServer EXCEPT ![c] = Append(@, Hello)]
            /\ ready' = IF c \in watched THEN ready \cup {c} ELSE ready
            /\ UNCHANGED watched
        BY <1>5, <3>2 DEF SendHello, Edge
      <4>2. toServer' \in [Clients -> Seq(Texts \cup {Hello})]
        BY <1>1, <2>2, <4>1 DEF SocketsTypeOK
      <4> QED  BY <1>1, <4>1, <4>2 DEF SocketsTypeOK
    <3> QED  BY <3>1, <3>2
  <2>6. cpc' = [cpc EXCEPT ![c] = "read"] \/ cpc' = [cpc EXCEPT ![c] = "killed"]
    BY <1>5 DEF SendHello, At
  <2>7. UNCHANGED <<setting, srv, sent, got, toClient, conn, end>>
    BY <1>5 DEF SendHello
  <2>3. Types /\ Same
    BY <1>1, <2>5, <2>6, <2>7 DEF SocketsTypeOK
  <2>4. \A d \in Clients : Places(d)'
    BY <1>1, <1>3, <1>5, <2>1 DEF SendHello, At, Places, setting, SocketsTypeOK
  <2> QED  BY <1>2, <2>3, <2>4
<1>6. CASE ReadAck(c)
  <2>1. got[c] \o toClient[c] \in Seq(Texts \cup {Ack})
    BY <1>1 DEF SocketsTypeOK
  <2>2. got' \in [Clients -> Seq(Texts \cup {Ack})]
        /\ toClient' \in [Clients -> Seq(Texts \cup {Ack})]
    <3>1. CASE conn[c] = "closed" /\ UNCHANGED <<got, toClient>>
      BY <1>1, <3>1 DEF SocketsTypeOK
    <3>2. CASE /\ got' = [got EXCEPT ![c] = @ \o toClient[c]]
               /\ toClient' = [toClient EXCEPT ![c] = <<>>]
      BY <1>1, <2>1, <3>2, EmptySeqs DEF SocketsTypeOK
    <3> QED  BY <1>6, <3>1, <3>2 DEF ReadAck
  <2>3. Types /\ Same
    BY <1>1, <1>6, <2>2 DEF ReadAck, At, SocketsTypeOK, epoll
  <2>4. \A d \in Clients : Places(d)'
    BY <1>1, <1>3, <1>6 DEF ReadAck, At, Places, setting, SocketsTypeOK
  <2> QED  BY <1>2, <2>3, <2>4
<1>7. CASE Type(c)
  <2>1. PICK ch \in Typed(c) :
          /\ cpc[c] = "on"
          /\ sent' = [sent EXCEPT ![c] = Append(@, ch)]
          /\ toServer' = [toServer EXCEPT ![c] = Append(@, ch)]
          /\ UNCHANGED <<setting, srv, cpc, got, toClient, conn, end, epoll>>
    BY <1>7 DEF Type
  <2>2. ch \in Texts
    BY DEF Texts
  <2>3. /\ Append(sent[c], ch) \in Seq(Texts)
        /\ Append(toServer[c], ch) \in Seq(Texts \cup {Hello})
        /\ server = "rot13" => Append(toServer[c], ch) \in Seq(Texts)
    BY <1>1, <1>3, <2>2 DEF SocketsTypeOK, Places
  <2>4. Types /\ Same
    BY <1>1, <2>1, <2>3 DEF SocketsTypeOK, epoll
  <2>5. \A d \in Clients : Places(d)'
    BY <1>1, <1>3, <2>1, <2>3 DEF Places, setting, SocketsTypeOK
  <2> QED  BY <1>2, <2>4, <2>5
<1>8. CASE ReadText(c)
  <2>1. toClient[c] \in Seq(Texts \cup {Ack}) /\ toClient[c] # <<>>
    BY <1>1, <1>8 DEF SocketsTypeOK, ReadText
  <2>2. Tail(toClient[c]) \in Seq(Texts \cup {Ack}) /\ Head(toClient[c]) \in Texts \cup {Ack}
    BY <2>1
  <2>3. Append(got[c], Head(toClient[c])) \in Seq(Texts \cup {Ack})
    BY <1>1, <2>2 DEF SocketsTypeOK
  <2>4. Types /\ Same
    BY <1>1, <1>8, <2>2, <2>3 DEF ReadText, SocketsTypeOK, epoll
  <2>5. \A d \in Clients : Places(d)'
    BY <1>1, <1>3, <1>8 DEF ReadText, Places, setting, SocketsTypeOK
  <2> QED  BY <1>2, <2>4, <2>5
<1>9. CASE EndInput(c)
  <2>1. Types /\ Same
    BY <1>1, <1>9 DEF EndInput, At, SocketsTypeOK, epoll
  <2>2. \A d \in Clients : Places(d)'
    BY <1>1, <1>3, <1>9 DEF EndInput, At, Places, setting, SocketsTypeOK
  <2> QED  BY <1>2, <2>1, <2>2
<1>10. CASE Close(c) \/ Leave(c)
  BY <1>10, CloseEndBase DEF Close, Leave
<1>11. CASE Kill(c)
  <2>1. cpc[c] \in {"send", "read", "sleep"} /\ CloseEnd(c, "killed")
    BY <1>11 DEF Kill
  <2>2. server = "epoll"
    BY <1>1, <1>3, <2>1 DEF Places, SocketsTypeOK
  <2> QED  BY <2>1, <2>2, CloseEndBase
<1> QED  BY <1>4, <1>5, <1>6, <1>7, <1>8, <1>9, <1>10, <1>11 DEF ClientStep, UserStep

\* What the end of the process does to the connections.
LEMMA EndProcessType ==
  ASSUME TypeOK, NEW how \in {"limit", "sigpipe"}, EndProcess(how)
  PROVE  /\ srv' \in {"run", "limit", "sigpipe"}
         /\ conn' \in [Clients -> {"none", "backlog", "open", "closed"}]
BY DEF EndProcess, TypeOK, SocketsTypeOK

LEMMA WriteType ==
  ASSUME TypeOK, NEW c \in Clients, NEW text \in Seq(Texts \cup {Ack}), Write(c, text)
  PROVE  /\ toClient' \in [Clients -> Seq(Texts \cup {Ack})]
         /\ end' \in [Clients -> {"up", "fin", "rst", "finrst", "shut"}]
<1>1. toClient[c] \o text \in Seq(Texts \cup {Ack})
  BY DEF TypeOK, SocketsTypeOK
<1> QED  BY <1>1 DEF Write, TypeOK, SocketsTypeOK

LEMMA EpollBase ==
  ASSUME Base, EpollStep, UNCHANGED rot13
  PROVE  Base'
<1> DEFINE Types == /\ srv' \in {"run", "limit", "sigpipe"}
                    /\ toServer' \in [Clients -> Seq(Texts \cup {Hello})]
                    /\ toClient' \in [Clients -> Seq(Texts \cup {Ack})]
                    /\ conn' \in [Clients -> {"none", "backlog", "open", "closed"}]
                    /\ end' \in [Clients -> {"up", "fin", "rst", "finrst", "shut"}]
                    /\ watched' \subseteq Clients /\ ready' \subseteq watched'
                    /\ batch' \subseteq Clients \cup {Listener}
           Same  == UNCHANGED <<setting, client>>
<1>1. SocketsTypeOK /\ Rot13TypeOK /\ batch \subseteq Clients \cup {Listener}
  BY DEF Base, TypeOK
<1>2. ASSUME Types, Same PROVE Base'
  <2>1. SocketsTypeOK'
    BY <1>1, <1>2 DEF SocketsTypeOK, setting, client
  <2>2. Rot13TypeOK'
    BY <1>1 DEF Rot13TypeOK, rot13
  <2>3. \A d \in Clients : Memory(state[d])' /\ Memory(start[d])'
    BY DEF Base, rot13, Memory
  <2>4. server = "epoll"
    BY DEF EpollStep, EpollWait, AcceptClient, Forget, Answer, EpollRun
  <2>5. \A d \in Clients : Places(d)'
    BY <1>2, <2>4 DEF Base, Places, setting, client
  <2> QED  BY <1>2, <2>1, <2>2, <2>3, <2>5 DEF Base, TypeOK
<1>3. CASE EpollWait
  <2>1. Types /\ Same
    BY <1>1, <1>3 DEF EpollWait, SocketsTypeOK, net
  <2> QED  BY <1>2, <2>1
<1>4. CASE AcceptClient
  <2>1. CASE Cardinality(Opened) = limit
    <3>1. EndProcess("limit") /\ UNCHANGED <<epoll, setting, client, toServer, toClient, end>>
      BY <1>4, <2>1 DEF AcceptClient
    <3>2. batch' \subseteq Clients \cup {Listener}
      BY <1>1, <1>4 DEF AcceptClient, Served
    <3>3. Types /\ Same
      BY <1>1, <3>1, <3>2, EndProcessType DEF SocketsTypeOK, epoll, Base
    <3> QED  BY <1>2, <3>3
  <2>2. CASE Cardinality(Opened) # limit
    <3>1. PICK c \in Backlog :
            /\ conn' = [conn EXCEPT ![c] = "open"]
            /\ watched' = watched \cup {c}
            /\ ready' = IF Readable(c) THEN ready \cup {c} ELSE ready
            /\ UNCHANGED srv
      BY <1>4, <2>2 DEF AcceptClient
    <3>2. batch' \subseteq Clients \cup {Listener} /\ c \in Clients
      BY <1>1, <1>4 DEF AcceptClient, Served, Backlog
    <3>3. UNCHANGED <<setting, client, toServer, toClient, end>>
      BY <1>4 DEF AcceptClient
    <3>4. Types /\ Same
      BY <1>1, <3>1, <3>2, <3>3 DEF SocketsTypeOK
    <3> QED  BY <1>2, <3>4
  <2> QED  BY <2>1, <2>2
<1>5. ASSUME NEW c \in Clients, Forget(c) PROVE Base'
  <2>1. Types /\ Same
    BY <1>1, <1>5 DEF Forget, Served, SocketsTypeOK, net
  <2> QED  BY <1>2, <2>1
<1>6. ASSUME NEW c \in Clients, Answer(c) PROVE Base'
  <2>1. /\ toServer' \in [Clients -> Seq(Texts \cup {Hello})]
        /\ batch' \subseteq Clients \cup {Listener}
        /\ UNCHANGED <<setting, client, watched>>
    BY <1>1, <1>6, EmptySeqs DEF Answer, Served, SocketsTypeOK
  <2>2. CASE (toServer[c] = <<>> /\ end[c] = "rst") \/ Fatal(c)
    <3>1. EndProcess("sigpipe") /\ UNCHANGED <<toClient, end, ready>>
      BY <1>6, <2>2 DEF Answer
    <3>2. Types /\ Same
      BY <1>1, <2>1, <3>1, EndProcessType DEF SocketsTypeOK, Base
    <3> QED  BY <1>2, <3>2
  <2>3. CASE ~((toServer[c] = <<>> /\ end[c] = "rst") \/ Fatal(c))
    <3>1. /\ Write(c, <<Ack>>)
          /\ IF end[c] = "fin" THEN Edge(c) ELSE UNCHANGED ready
          /\ UNCHANGED <<srv, conn>>
      BY <1>6, <2>3 DEF Answer
    <3>2. <<Ack>> \in Seq(Texts \cup {Ack})
      OBVIOUS
    <3>3. ready' \subseteq watched
      BY <1>1, <3>1 DEF Edge, SocketsTypeOK
    <3>4. Types /\ Same
      BY <1>1, <2>1, <3>1, <3>2, <3>3, WriteType DEF SocketsTypeOK, Base
    <3> QED  BY <1>2, <3>4
  <2> QED  BY <2>2, <2>3
<1> QED  BY <1>3, <1>4, <1>5, <1>6 DEF EpollStep

LEMMA Rot13Base ==
  ASSUME Base, Rot13Step, UNCHANGED batch
  PROVE  Base'
<1> DEFINE Types == /\ srv' \in {"run", "limit", "sigpipe"}
                    /\ toClient' \in [Clients -> Seq(Texts \cup {Ack})]
                    /\ conn' \in [Clients -> {"none", "backlog", "open", "closed"}]
                    /\ end' \in [Clients -> {"up", "fin", "rst", "finrst", "shut"}]
                    /\ mem' \in [Clients -> {"none", "live", "freed", "reused"}]
           Read  == \A d \in Clients : toServer'[d] = toServer[d] \/ toServer'[d] = <<>>
           State == /\ state' \in [Clients -> FdState] /\ start' \in [Clients -> FdState]
                    /\ \A d \in Clients : Memory(state'[d]) /\ Memory(start'[d])
           Same  == UNCHANGED <<setting, client, epoll>>
<1>1. SocketsTypeOK /\ Rot13TypeOK /\ server = "rot13" /\ TypeOK
  BY DEF Base, TypeOK, Rot13Step, DoAccept, DoRead, DoWrite, Rot13Run
<1>2. ASSUME Types, Read, State, Same, toServer' \in [Clients -> Seq(Texts \cup {Hello})]
      PROVE  Base'
  <2>1. SocketsTypeOK'
    BY <1>1, <1>2 DEF SocketsTypeOK, setting, client, epoll
  <2>2. Rot13TypeOK' /\ batch' \subseteq Clients \cup {Listener}
    BY <1>1, <1>2 DEF Rot13TypeOK, Base, TypeOK
  <2>3. \A d \in Clients : Memory(state[d])' /\ Memory(start[d])'
    BY <1>2
  <2>4. \A d \in Clients : Places(d)'
    BY <1>1, <1>2, EmptySeqs DEF Base, Places, setting, client
  <2> QED  BY <2>1, <2>2, <2>3, <2>4 DEF Base, TypeOK
<1>3. UNCHANGED <<state, start>> => State
  BY <1>1 DEF Base, Rot13TypeOK
<1>4. toServer \in [Clients -> Seq(Texts \cup {Hello})]
  BY <1>1 DEF SocketsTypeOK
<1>5. CASE DoAccept
  <2>1. PICK c \in Backlog :
       \/ EndProcess("limit") /\ UNCHANGED rot13
       \/ conn' = [conn EXCEPT ![c] = "closed"] /\ UNCHANGED <<srv, rot13>>
       \/ \E d \in {c} \cup {x \in Clients : mem[x] = "freed"} :
            /\ conn' = [conn EXCEPT ![c] = "open"]
            /\ mem' = [mem EXCEPT ![d] = "reused", ![c] = "live"]
            /\ LET s == [state[d] EXCEPT !.pending = FALSE] IN
                 /\ state' = [state EXCEPT ![c] = s]
                 /\ start' = [start EXCEPT ![c] = s]
            /\ UNCHANGED srv
    BY <1>5 DEF DoAccept
  <2>2. c \in Clients /\ UNCHANGED <<setting, client, toServer, toClient, end, epoll>>
    BY <1>5 DEF DoAccept, Backlog
  <2>3. CASE EndProcess("limit") /\ UNCHANGED rot13
    <3>1. Types
      BY <1>1, <2>2, <2>3, EndProcessType DEF SocketsTypeOK, Rot13TypeOK, rot13
    <3> QED  BY <1>2, <1>3, <1>4, <2>2, <2>3, <3>1 DEF rot13
  <2>4. CASE conn' = [conn EXCEPT ![c] = "closed"] /\ UNCHANGED <<srv, rot13>>
    <3>1. Types
      BY <1>1, <2>2, <2>4 DEF SocketsTypeOK, Rot13TypeOK, rot13
    <3> QED  BY <1>2, <1>3, <1>4, <2>2, <2>4, <3>1 DEF rot13
  <2>5. ASSUME NEW d \in {c} \cup {x \in Clients : mem[x] = "freed"},
            conn' = [conn EXCEPT ![c] = "open"],
            mem' = [mem EXCEPT ![d] = "reused", ![c] = "live"],
            state' = [state EXCEPT ![c] = [state[d] EXCEPT !.pending = FALSE]],
            start' = [start EXCEPT ![c] = [state[d] EXCEPT !.pending = FALSE]],
            UNCHANGED srv
        PROVE Base'
    <3>1. d \in Clients /\ state[d] \in FdState /\ Memory(state[d])
      BY <1>1, <2>2 DEF Rot13TypeOK, Base
    <3> DEFINE s == [state[d] EXCEPT !.pending = FALSE]
    <3>2. s \in FdState /\ Memory(s)
      <4>1. s \in FdState
        BY <3>1 DEF FdState
      <4>2. /\ s.buffer = state[d].buffer /\ s.used = state[d].used
            /\ s.upto = state[d].upto /\ s.written = state[d].written
            /\ s.pending = FALSE
        BY <3>1 DEF FdState
      <4> QED  BY <3>1, <4>1, <4>2 DEF Memory
    <3> HIDE DEF s
    <3>3. State
      BY <1>1, <2>2, <2>5, <3>2 DEF Rot13TypeOK, Base, s
    <3>4. Types
      BY <1>1, <2>2, <2>5, <3>1 DEF SocketsTypeOK, Rot13TypeOK
    <3> QED  BY <1>2, <1>4, <2>2, <3>3, <3>4
  <2> QED  BY <2>1, <2>3, <2>4, <2>5
<1>6. ASSUME NEW c \in Clients, DoRead(c) PROVE Base'
  <2>1. toServer[c] \in Seq(Texts) /\ state[c] \in FdState /\ Memory(state[c])
    BY <1>1 DEF Base, Places, Rot13TypeOK
  <2>2. Put(state[c], toServer[c]) \in FdState /\ Memory(Put(state[c], toServer[c]))
    BY <2>1, PutIndices
  <2>3. State
    BY <1>1, <1>6, <2>2 DEF DoRead, Rot13TypeOK, Base
  <2>4. Types /\ Same
    BY <1>1, <1>6 DEF DoRead, Free, SocketsTypeOK, Rot13TypeOK
  <2>5. Read /\ toServer' \in [Clients -> Seq(Texts \cup {Hello})]
    BY <1>4, <1>6, EmptySeqs DEF DoRead
  <2> QED  BY <1>2, <2>3, <2>4, <2>5
<1>7. ASSUME NEW c \in Clients, DoWrite(c) PROVE Base'
  <2>1. UNCHANGED <<setting, client, toServer, epoll, start>>
    BY <1>7 DEF DoWrite
  <2>2. CASE SendText(c)
    <3>1. PICK k \in 1..Len(Todo(c)) :
            /\ Write(c, SubSeq(Todo(c), 1, k))
            /\ state' = [state EXCEPT ![c] = Wrote(@, k)]
            /\ UNCHANGED <<srv, conn, mem>>
      BY <2>2 DEF SendText
    <3>2. state[c] \in FdState /\ Memory(state[c])
      BY <1>1 DEF Base, Rot13TypeOK
    <3>3. /\ state[c].used \in Nat /\ state[c].upto \in Nat /\ state[c].written \in Nat
      BY <3>2 DEF FdState
    <3>4. Todo(c) \in Seq(Texts) /\ Len(Todo(c)) = state[c].upto - state[c].written
      BY <3>2, <3>3, TextToSend DEF Todo, Memory
    <3>5. Wrote(state[c], k) \in FdState /\ Memory(Wrote(state[c], k))
      BY <3>2, <3>4, WroteIndices
    <3>6. SubSeq(Todo(c), 1, k) \in Seq(Texts \cup {Ack})
      BY <3>4
    <3>7. State
      BY <1>1, <2>1, <3>1, <3>5 DEF Rot13TypeOK, Base
    <3>8. Types
      BY <1>1, <3>1, <3>6, WriteType DEF SocketsTypeOK, Rot13TypeOK
    <3> QED  BY <1>2, <1>4, <2>1, <3>7, <3>8
  <2>3. CASE SendError(c)
    <3>1. Types
      BY <1>1, <2>3, EmptySeqs, WriteType DEF SendError, Free, SocketsTypeOK, Rot13TypeOK
    <3> QED  BY <1>2, <1>3, <1>4, <2>1, <2>3, <3>1 DEF SendError
  <2>4. CASE SendFatal(c)
    <3>1. Types
      BY <1>1, <2>4, EndProcessType DEF SendFatal, SocketsTypeOK, Rot13TypeOK
    <3> QED  BY <1>2, <1>3, <1>4, <2>1, <2>4, <3>1 DEF SendFatal
  <2> QED  BY <1>7, <2>2, <2>3, <2>4 DEF DoWrite
<1> QED  BY <1>5, <1>6, <1>7 DEF Rot13Step

LEMMA NextBase == Base /\ [Next]_vars => Base'
<1> SUFFICES ASSUME Base, [Next]_vars PROVE Base'
  OBVIOUS
<1>1. CASE UNCHANGED vars
  BY <1>1 DEF vars, sockVars, setting, client, net, epoll, rot13, Base, TypeOK,
              SocketsTypeOK, Rot13TypeOK, Places
<1>2. CASE ServerStep
  BY <1>2, EpollBase, Rot13Base DEF ServerStep
<1>3. ASSUME NEW c \in Clients, ClientStep(c) \/ UserStep(c), ServersRest PROVE Base'
  BY <1>3, ClientBase
<1> QED  BY <1>1, <1>2, <1>3 DEF Next, ServersRest

LEMMA BaseHolds == Spec => []Base
BY InitBase, NextBase, PTL DEF Spec

\* Every variable of the clients, the connections and the two servers keeps its
\* type: for any number of clients and any size of the buffer.
THEOREM TypeCorrect == Spec => []TypeOK
<1>1. Base => TypeOK
  BY DEF Base
<1> QED  BY <1>1, BaseHolds, PTL

\* The indices of every fd_state, used and unused memory alike.
IndicesInOrder == \A c \in Clients : Memory(state[c])

\* do_read never stores outside the buffer, do_write never sends outside what
\* has been read, and is called only when there is something to send, although
\* alloc_fd_state sets none of the three indices.
THEOREM IndicesHold == Spec => []IndicesInOrder
<1>1. Base => IndicesInOrder
  BY DEF Base, IndicesInOrder
<1> QED  BY <1>1, BaseHolds, PTL

-----------------------------------------------------------------------------
(* ClosingIsSafe, in the world in which nothing but an orderly close       *)
(* happens.                                                                *)

\* The edge of c that has not been served: not yet reported, or in the batch.
NoEdge(c)  == c \notin ready /\ c \notin batch
OneEdge(c) == /\ c \in watched
              /\ c \in ready \/ c \in batch
              /\ ~(c \in ready /\ c \in batch)

Silent(c) == toServer[c] = <<>> /\ toClient[c] = <<>>
Asked(c)  == toServer[c] = <<Hello>> /\ toClient[c] = <<>>

\* A client of test3 and its connection while the server runs: it asks once,
\* gets one answer, and closes with nothing unread.
Stage(c) ==
  \/ /\ cpc[c] = "start" /\ conn[c] = "none" /\ c \notin watched /\ NoEdge(c)
     /\ Silent(c) /\ end[c] = "up" /\ got[c] = <<>>
  \/ /\ cpc[c] = "send" /\ end[c] = "up" /\ got[c] = <<>>
     /\ Silent(c) /\ NoEdge(c)
     /\ \/ conn[c] = "backlog" /\ c \notin watched
        \/ conn[c] = "open" /\ c \in watched
  \/ /\ cpc[c] = "read" /\ end[c] = "up" /\ got[c] = <<>>
     /\ \/ conn[c] = "backlog" /\ c \notin watched /\ NoEdge(c) /\ Asked(c)
        \/ conn[c] = "open" /\ OneEdge(c) /\ Asked(c)
        \/ /\ conn[c] = "open" /\ c \in watched /\ NoEdge(c)
           /\ toServer[c] = <<>> /\ toClient[c] = <<Ack>>
  \/ /\ cpc[c] = "sleep" /\ conn[c] = "open" /\ c \in watched /\ NoEdge(c)
     /\ Silent(c) /\ end[c] = "up" /\ got[c] = <<Ack>>
  \/ /\ cpc[c] = "done" /\ conn[c] = "open" /\ Silent(c)
     /\ end[c] = "fin" /\ got[c] = <<Ack>>
     /\ OneEdge(c) \/ (c \notin watched /\ NoEdge(c))

\* A connection of the rot13 server and its memory, whatever the client does.
Link(c) ==
  /\ cpc[c] = "start" => conn[c] = "none"
  /\ conn[c] \in {"none", "backlog"} => mem[c] = "none"
  /\ Left(c) => toClient[c] = <<>>
  /\ mem[c] = "none" => toClient[c] = <<>> /\ got[c] = <<>> /\ end[c] \in {"up", "fin"}

\* The connection of a client that only closes: a second write after the first
\* error, or to an end that had been closed, is never asked for.
Safe(c) ==
  /\ cpc[c] # "half"
  /\ end[c] # "up" => Left(c)
  /\ mem[c] = "live" => /\ end[c] # "shut"
                        /\ end[c] = "finrst" => ~state[c].pending

Visits(c) ==
  /\ faults = {} /\ server = "epoll" /\ srv = "run" => Stage(c)
  /\ server = "rot13" => Link(c)
  /\ faults = {} /\ server = "rot13" => Safe(c)

ClosingInv == Base /\ ClosingIsSafe /\ \A c \in Clients : Visits(c)

\* What the model says of one client.
Untouched(d) ==
  /\ cpc'[d] = cpc[d] /\ got'[d] = got[d]
  /\ toServer'[d] = toServer[d] /\ toClient'[d] = toClient[d]
  /\ conn'[d] = conn[d] /\ end'[d] = end[d]
  /\ d \in watched' <=> d \in watched
  /\ d \in ready' <=> d \in ready
  /\ d \in batch' <=> d \in batch
  /\ mem'[d] = mem[d] /\ state'[d] = state[d]

LEMMA VisitsFrame ==
  ASSUME NEW d \in Clients, Visits(d), Untouched(d), UNCHANGED <<setting, srv>>
  PROVE  Visits(d)'
BY DEF Visits, Untouched, Stage, Link, Safe, NoEdge, OneEdge, Silent, Asked, Left,
       setting

LEMMA InitVisits == Init => \A c \in Clients : Visits(c)
<1> SUFFICES ASSUME Init, NEW c \in Clients PROVE Visits(c)
  OBVIOUS
<1> QED
  BY EpollAssumption DEF Init, SocketsInit, Rot13Init, Visits, Stage, Link, Safe, NoEdge,
     Silent, Left

\* A step of client c leaves the others alone.
LEMMA OthersInClientStep ==
  ASSUME Base, NEW c \in Clients, ClientStep(c) \/ UserStep(c), ServersRest,
         NEW d \in Clients, d # c
  PROVE  Untouched(d) /\ UNCHANGED <<setting, srv>>
<1>1. SocketsTypeOK /\ Rot13TypeOK
  BY DEF Base, TypeOK
<1> USE <1>1 DEF SocketsTypeOK, Rot13TypeOK, Untouched, ServersRest, rot13, At, Edge, epoll
<1>2. CASE Dial(c)
  BY <1>2 DEF Dial
<1>3. CASE SendHello(c)
  <2>1. (d \in ready' <=> d \in ready) /\ toServer'[d] = toServer[d]
    <3>1. CASE conn[c] = "closed"
      BY <1>3, <3>1 DEF SendHello
    <3>2. CASE conn[c] # "closed"
      BY <1>3, <3>2 DEF SendHello
    <3> QED  BY <3>1, <3>2
  <2>2. cpc'[d] = cpc[d]
    BY <1>3 DEF SendHello
  <2> QED  BY <1>3, <2>1, <2>2 DEF SendHello
<1>4. CASE ReadAck(c)
  BY <1>4 DEF ReadAck
<1>5. ASSUME NEW step, CloseEnd(c, step)
      PROVE  Untouched(d) /\ UNCHANGED <<setting, srv>>
  <2>1. end'[d] = end[d]
    BY <1>5 DEF CloseEnd
  <2> QED  BY <1>5, <2>1 DEF CloseEnd
<1>6. CASE Type(c)
  BY <1>6 DEF Type
<1>7. CASE ReadText(c)
  BY <1>7 DEF ReadText
<1>8. CASE EndInput(c)
  BY <1>8 DEF EndInput
<1>9. CASE Close(c) \/ Kill(c) \/ Leave(c)
  BY <1>5, <1>9 DEF Close, Kill, Leave
<1> QED  BY <1>2, <1>3, <1>4, <1>6, <1>7, <1>8, <1>9 DEF ClientStep, UserStep

LEMMA ClientVisits ==
  ASSUME Base, NEW c \in Clients, Visits(c), ClientStep(c) \/ UserStep(c), ServersRest
  PROVE  Visits(c)'
<1>1. SocketsTypeOK /\ Rot13TypeOK /\ Places(c)
  BY DEF Base, TypeOK
<1>2. toClient[c] \in Seq(Texts \cup {Ack}) /\ toServer[c] \in Seq(Texts \cup {Hello})
  BY <1>1 DEF SocketsTypeOK
<1> USE <1>1 DEF SocketsTypeOK, Rot13TypeOK, ServersRest, rot13, At, Edge, epoll, setting,
        Visits, Left
<1>3. CASE Dial(c)
  BY <1>3 DEF Dial, Stage, Link, Safe, NoEdge, OneEdge, Silent, Asked, Places
<1>4. CASE SendHello(c)
  <2>1. server = "epoll"
    BY <1>4 DEF SendHello, Places
  <2>2. Stage(c) => Stage(c)'
    <3>1. SUFFICES ASSUME Stage(c) PROVE Stage(c)'
      OBVIOUS
    <3>2. conn[c] # "closed" /\ cpc[c] = "send" /\ Silent(c) /\ NoEdge(c)
          /\ end[c] = "up" /\ got[c] = <<>>
      BY <1>4, <3>1 DEF SendHello, Stage
    <3>3. toServer'[c] = <<Hello>> /\ cpc'[c] = "read"
          /\ ready' = (IF c \in watched THEN ready \cup {c} ELSE ready)
      BY <1>4, <3>2 DEF SendHello, Silent
    <3>4. UNCHANGED <<got, toClient, conn, end, watched, batch>>
      BY <1>4 DEF SendHello
    <3> QED  BY <3>1, <3>2, <3>3, <3>4 DEF Stage, Silent, Asked, NoEdge, OneEdge
  <2> QED  BY <1>4, <2>1, <2>2 DEF SendHello
<1>5. CASE ReadAck(c)
  <2>1. server = "epoll"
    BY <1>5 DEF ReadAck, Places
  <2>2. Stage(c) => Stage(c)'
    <3>1. SUFFICES ASSUME Stage(c) PROVE Stage(c)'
      OBVIOUS
    <3>2. conn[c] # "closed" /\ cpc[c] = "read"
      BY <1>5, <3>1 DEF ReadAck, Stage
    <3>3. /\ toClient[c] # <<>>
          /\ got' = [got EXCEPT ![c] = @ \o toClient[c]]
          /\ toClient' = [toClient EXCEPT ![c] = <<>>]
      BY <1>5, <3>2 DEF ReadAck
    <3>4. /\ toClient[c] = <<Ack>> /\ got[c] = <<>> /\ end[c] = "up"
          /\ conn[c] = "open" /\ c \in watched /\ NoEdge(c) /\ toServer[c] = <<>>
      BY <3>1, <3>2, <3>3 DEF Stage, Asked
    <3>5. got'[c] = <<Ack>> /\ toClient'[c] = <<>> /\ cpc'[c] = "sleep"
      BY <1>5, <3>3, <3>4 DEF ReadAck
    <3> QED  BY <1>5, <3>4, <3>5 DEF ReadAck, Stage, Silent, NoEdge
  <2> QED  BY <1>5, <2>1, <2>2 DEF ReadAck
<1>6. CASE Close(c) \/ Kill(c)
  <2>1. server = "epoll" /\ UNCHANGED <<setting, srv>>
    BY <1>6 DEF Close, Kill, CloseEnd, Places
  <2>2. faults = {} => Close(c)
    BY <1>6 DEF Kill
  <2>3. Stage(c) /\ Close(c) => Stage(c)'
    <3>1. SUFFICES ASSUME Stage(c), Close(c) PROVE Stage(c)'
      OBVIOUS
    <3>2. /\ cpc[c] = "sleep" /\ conn[c] = "open" /\ c \in watched /\ NoEdge(c)
          /\ Silent(c) /\ end[c] = "up" /\ got[c] = <<Ack>>
      BY <3>1 DEF Close, Stage
    <3>3. cpc'[c] = "done" /\ end'[c] = "fin" /\ toClient'[c] = <<>>
      BY <3>1, <3>2 DEF Close, CloseEnd, Silent
    <3>4. /\ ready' = ready \cup {c}
          /\ UNCHANGED <<got, toServer, conn, watched, batch>>
      BY <3>1, <3>2 DEF Close, CloseEnd
    <3>5. Silent(c)' /\ OneEdge(c)'
      BY <3>2, <3>3, <3>4 DEF Silent, NoEdge, OneEdge
    <3> QED  BY <3>2, <3>3, <3>4, <3>5 DEF Stage
  <2> QED  BY <2>1, <2>2, <2>3
<1>7. CASE Type(c)
  <2>1. server = "rot13"
    BY <1>7 DEF Type, Places
  <2>2. UNCHANGED <<setting, srv, cpc, got, toClient, conn, end, mem, state>>
    BY <1>7 DEF Type
  <2> QED  BY <2>1, <2>2 DEF Link, Safe
<1>8. CASE ReadText(c)
  <2>1. server = "rot13"
    BY <1>8 DEF ReadText, Places
  <2>2. UNCHANGED <<setting, srv, cpc, conn, end, mem, state>> /\ toClient[c] # <<>>
    BY <1>8 DEF ReadText
  <2> QED  BY <2>1, <2>2 DEF Link, Safe
<1>9. CASE EndInput(c)
  <2>1. server = "rot13" /\ faults # {}
    BY <1>9 DEF EndInput, Places
  <2>2. cpc'[c] = "half" /\ end'[c] = "fin"
        /\ UNCHANGED <<setting, srv, got, toClient, conn, mem>>
    BY <1>9 DEF EndInput
  <2> QED  BY <2>1, <2>2 DEF Link
<1>10. CASE Leave(c)
  <2>1. server = "rot13" /\ cpc[c] \in {"on", "half"}
    BY <1>10 DEF Leave, Places
  <2>2. /\ cpc'[c] = "done" /\ toClient'[c] = <<>>
        /\ UNCHANGED <<setting, srv, got, conn, mem, state>>
    BY <1>10 DEF Leave, CloseEnd
  <2>3. /\ toClient[c] = <<>> /\ end[c] \in {"up", "fin"} => end'[c] \in {"up", "fin"}
        /\ end[c] = "up" => end'[c] \in {"fin", "rst"}
    BY <1>10 DEF Leave, CloseEnd
  <2> QED  BY <2>1, <2>2, <2>3 DEF Link, Safe
<1> QED  BY <1>3, <1>4, <1>5, <1>6, <1>7, <1>8, <1>9, <1>10 DEF ClientStep, UserStep

\* A step of the loop of test3.cpp: with clients that only close it is never
\* about to write to a connection that is over.
LEMMA EpollVisits ==
  ASSUME Base, ClosingIsSafe, \A x \in Clients : Visits(x), EpollStep, UNCHANGED rot13,
         NEW d \in Clients
  PROVE  Visits(d)' /\ ClosingIsSafe'
<1>1. SocketsTypeOK /\ Rot13TypeOK
  BY DEF Base, TypeOK
<1>2. server = "epoll" /\ srv = "run" /\ UNCHANGED <<setting, client>>
  BY DEF EpollStep, EpollWait, AcceptClient, Forget, Answer, EpollRun
<1>3. SUFFICES ASSUME faults = {}
               PROVE  srv' # "sigpipe" /\ (srv' = "run" => Stage(d)')
  BY <1>2 DEF Visits, ClosingIsSafe, setting
<1>4. Stage(d) /\ \A x \in Clients : Stage(x)
  BY <1>2, <1>3 DEF Visits
<1> USE <1>1, <1>2 DEF client, SocketsTypeOK, net, setting
<1>5. ASSUME UNCHANGED <<srv, conn, toServer, toClient, end>>,
             (d \in watched') <=> (d \in watched),
             (d \in ready') <=> (d \in ready),
             (d \in batch') <=> (d \in batch)
      PROVE  srv' # "sigpipe" /\ (srv' = "run" => Stage(d)')
  BY <1>4, <1>5 DEF Stage, Silent, Asked, NoEdge, OneEdge
<1>6. CASE EpollWait
  <2>1. /\ batch = {} /\ ready' = {} /\ UNCHANGED <<srv, client, net, watched>>
        /\ (d \in batch') <=> (d \in ready)
    BY <1>6, EpollAssumption DEF EpollWait
  <2>2. NoEdge(d) => NoEdge(d)'
    BY <2>1 DEF NoEdge
  <2>3. OneEdge(d) => OneEdge(d)'
    BY <2>1 DEF OneEdge
  <2> QED  BY <1>4, <2>1, <2>2, <2>3 DEF Stage, Silent, Asked
<1>7. CASE AcceptClient
  <2>1. CASE Cardinality(Opened) = limit
    BY <1>7, <2>1 DEF AcceptClient, EndProcess
  <2>2. CASE Cardinality(Opened) # limit
    <3>1. PICK c \in Backlog :
            /\ conn' = [conn EXCEPT ![c] = "open"]
            /\ watched' = watched \cup {c}
            /\ ready' = IF Readable(c) THEN ready \cup {c} ELSE ready
            /\ UNCHANGED srv
      BY <1>7, <2>2 DEF AcceptClient
    <3>2. /\ UNCHANGED <<toServer, toClient, end>> /\ c \in Clients /\ conn[c] = "backlog"
          /\ (d \in batch') <=> (d \in batch)
      BY <1>7, EpollAssumption DEF AcceptClient, Served, Backlog
    <3>3. CASE d = c
      <4>1. /\ end[d] = "up" /\ got[d] = <<>> /\ toClient[d] = <<>> /\ NoEdge(d)
            /\ \/ cpc[d] = "send" /\ toServer[d] = <<>>
               \/ cpc[d] = "read" /\ toServer[d] = <<Hello>>
        BY <1>4, <3>2, <3>3 DEF Stage, Silent, Asked
      <4>2. conn'[d] = "open" /\ d \in watched'
        BY <3>1, <3>2, <3>3
      <4>3. CASE cpc[d] = "send" /\ toServer[d] = <<>>
        <5>1. ready' = ready
          BY <3>1, <3>3, <4>1, <4>3 DEF Readable
        <5> QED  BY <3>1, <3>2, <4>1, <4>2, <4>3, <5>1 DEF Stage, Silent, NoEdge
      <4>4. CASE cpc[d] = "read" /\ toServer[d] = <<Hello>>
        <5>1. ready' = ready \cup {d}
          BY <3>1, <3>3, <4>4 DEF Readable
        <5>2. OneEdge(d)'
          BY <3>2, <4>1, <4>2, <5>1 DEF OneEdge, NoEdge
        <5> QED  BY <3>1, <3>2, <4>1, <4>2, <4>4, <5>2 DEF Stage, Asked
      <4> QED  BY <4>1, <4>3, <4>4
    <3>4. CASE d # c
      <4>1. /\ conn'[d] = conn[d]
            /\ (d \in watched') <=> (d \in watched)
            /\ (d \in ready') <=> (d \in ready)
        BY <3>1, <3>2, <3>4
      <4> QED  BY <1>4, <3>1, <3>2, <4>1 DEF Stage, Silent, Asked, NoEdge, OneEdge
    <3> QED  BY <3>3, <3>4
  <2> QED  BY <2>1, <2>2
<1>8. ASSUME NEW c \in Clients, Forget(c)
      PROVE  srv' # "sigpipe" /\ (srv' = "run" => Stage(d)')
  <2>1. /\ c \in batch /\ AtEnd(c) /\ batch' = batch \ {c} /\ watched' = watched \ {c}
        /\ ready' = ready \ {c} /\ UNCHANGED <<srv, client, net>>
    BY <1>8 DEF Forget, Served
  <2>2. CASE d = c
    <3>1. /\ cpc[d] = "done" /\ conn[d] = "open" /\ Silent(d) /\ end[d] = "fin"
          /\ got[d] = <<Ack>>
      BY <1>4, <2>1, <2>2 DEF Stage, AtEnd, NoEdge
    <3>2. d \notin watched' /\ NoEdge(d)'
      BY <2>1, <2>2 DEF NoEdge
    <3> QED  BY <2>1, <3>1, <3>2 DEF Stage, Silent
  <2>3. CASE d # c
    BY <1>5, <2>1, <2>3
  <2> QED  BY <2>2, <2>3
<1>9. ASSUME NEW c \in Clients, Answer(c)
      PROVE  srv' # "sigpipe" /\ (srv' = "run" => Stage(d)')
  <2>1. /\ c \in batch /\ ~AtEnd(c) /\ batch' = batch \ {c} /\ UNCHANGED <<client, watched>>
        /\ toServer' = [toServer EXCEPT ![c] = <<>>]
    BY <1>9 DEF Answer, Served
  <2>2. /\ cpc[c] = "read" /\ end[c] = "up" /\ got[c] = <<>> /\ conn[c] = "open"
        /\ OneEdge(c) /\ Asked(c)
    <3>1. Stage(c) /\ ~NoEdge(c)
      BY <1>4, <2>1 DEF NoEdge
    <3>2. ~(Silent(c) /\ end[c] = "fin")
      BY <2>1 DEF AtEnd, Silent
    <3> QED  BY <3>1, <3>2 DEF Stage
  <2>3. Write(c, <<Ack>>) /\ UNCHANGED <<ready, srv, conn>>
    BY <1>9, <2>2 DEF Answer, Fatal
  <2>4. toClient' = [toClient EXCEPT ![c] = @ \o <<Ack>>] /\ end'[c] = end[c]
        /\ (d # c => end'[d] = end[d])
    BY <2>2, <2>3 DEF Write, Left
  <2>5. CASE d = c
    <3>1. toServer'[d] = <<>> /\ toClient'[d] = <<Ack>>
      BY <2>1, <2>2, <2>4, <2>5 DEF Asked
    <3>2. d \in watched' /\ NoEdge(d)'
      BY <2>1, <2>2, <2>3, <2>5 DEF NoEdge, OneEdge
    <3> QED  BY <2>1, <2>2, <2>3, <2>4, <2>5, <3>1, <3>2 DEF Stage
  <2>6. CASE d # c
    <3>1. toClient'[d] = toClient[d] /\ toServer'[d] = toServer[d] /\ end'[d] = end[d]
          /\ ((d \in batch') <=> (d \in batch))
      BY <2>1, <2>4, <2>6
    <3> QED  BY <1>4, <2>1, <2>3, <3>1 DEF Stage, Silent, Asked, NoEdge, OneEdge
  <2> QED  BY <2>5, <2>6
<1> QED  BY <1>6, <1>7, <1>8, <1>9 DEF EpollStep

\* A step of a handler of the rot13 server.
LEMMA Rot13Visits ==
  ASSUME Base, ClosingIsSafe, \A x \in Clients : Visits(x), Rot13Step, UNCHANGED batch,
         NEW d \in Clients
  PROVE  Visits(d)' /\ ClosingIsSafe'
<1>1. SocketsTypeOK /\ Rot13TypeOK /\ server = "rot13" /\ srv = "run"
      /\ UNCHANGED <<setting, client>>
  BY DEF Base, TypeOK, Rot13Step, DoAccept, DoRead, DoWrite, Rot13Run
<1>2. SUFFICES Link(d)' /\ (faults = {} => srv' # "sigpipe" /\ Safe(d)')
  BY <1>1 DEF Visits, ClosingIsSafe, setting
<1>3. Link(d) /\ (faults = {} => Safe(d))
  BY <1>1 DEF Visits
<1> USE <1>1 DEF client, SocketsTypeOK, Rot13TypeOK, setting, Left
<1>4. CASE DoAccept
  <2>1. UNCHANGED <<toServer, toClient, end>>
    BY <1>4 DEF DoAccept
  <2>2. PICK c \in Backlog :
       \/ EndProcess("limit") /\ UNCHANGED rot13
       \/ conn' = [conn EXCEPT ![c] = "closed"] /\ UNCHANGED <<srv, rot13>>
       \/ \E x \in {c} \cup {x \in Clients : mem[x] = "freed"} :
            /\ conn' = [conn EXCEPT ![c] = "open"]
            /\ mem' = [mem EXCEPT ![x] = "reused", ![c] = "live"]
            /\ LET s == [state[x] EXCEPT !.pending = FALSE] IN
                 /\ state' = [state EXCEPT ![c] = s]
                 /\ start' = [start EXCEPT ![c] = s]
            /\ UNCHANGED srv
    BY <1>4 DEF DoAccept
  <2>3. CASE EndProcess("limit") /\ UNCHANGED rot13
    BY <1>3, <2>1, <2>3 DEF EndProcess, rot13, Link, Safe
  <2>4. CASE conn' = [conn EXCEPT ![c] = "closed"] /\ UNCHANGED <<srv, rot13>>
    BY <1>3, <2>1, <2>2, <2>4 DEF rot13, Link, Safe, Backlog
  <2>5. ASSUME NEW x \in {c} \cup {y \in Clients : mem[y] = "freed"},
            conn' = [conn EXCEPT ![c] = "open"],
            mem' = [mem EXCEPT ![x] = "reused", ![c] = "live"],
            state' = [state EXCEPT ![c] = [state[x] EXCEPT !.pending = FALSE]],
            UNCHANGED srv
        PROVE Link(d)' /\ (faults = {} => srv' # "sigpipe" /\ Safe(d)')
    <3>1. c \in Clients /\ conn[c] = "backlog" /\ x \in Clients
      BY <2>2 DEF Backlog
    <3>2. CASE d = c
      <4>1. /\ mem[d] = "none" /\ toClient[d] = <<>> /\ end[d] \in {"up", "fin"}
            /\ cpc[d] # "start" /\ got[d] = <<>>
        BY <1>3, <3>1, <3>2 DEF Link
      <4>2. mem'[d] = "live" /\ conn'[d] = "open"
        BY <2>5, <3>1, <3>2
      <4> QED  BY <1>3, <2>1, <2>5, <4>1, <4>2 DEF Link, Safe
    <3>3. CASE d # c
      <4>1. conn'[d] = conn[d] /\ state'[d] = state[d]
        BY <2>5, <3>1, <3>3
      <4>2. mem'[d] = mem[d] \/ (mem[d] = "freed" /\ mem'[d] = "reused")
        BY <2>5, <3>1, <3>3
      <4> QED  BY <1>3, <2>1, <2>5, <4>1, <4>2 DEF Link, Safe
    <3> QED  BY <3>2, <3>3
  <2> QED  BY <2>2, <2>3, <2>4, <2>5
<1>5. ASSUME NEW c \in Clients, DoRead(c)
      PROVE  Link(d)' /\ (faults = {} => srv' # "sigpipe" /\ Safe(d)')
  <2>1. /\ mem[c] = "live" /\ UNCHANGED <<srv, toClient, conn, end>>
        /\ state' = [state EXCEPT ![c] = Put(@, toServer[c])]
        /\ mem' = IF end[c] = "up" THEN mem ELSE [mem EXCEPT ![c] = "freed"]
    BY <1>5 DEF DoRead, Free
  <2>2. CASE d = c
    <3>1. mem'[d] # "none" /\ (mem'[d] = "live" => end[d] = "up")
      BY <2>1, <2>2
    <3> QED  BY <1>3, <2>1, <2>2, <3>1 DEF Link, Safe
  <2>3. CASE d # c
    <3>1. mem'[d] = mem[d] /\ state'[d] = state[d]
      BY <2>1, <2>3
    <3> QED  BY <1>3, <2>1, <3>1 DEF Link, Safe
  <2> QED  BY <2>2, <2>3
<1>6. ASSUME NEW c \in Clients, DoWrite(c)
      PROVE  Link(d)' /\ (faults = {} => srv' # "sigpipe" /\ Safe(d)')
  <2>1. mem[c] = "live" /\ state[c].pending /\ UNCHANGED start
        /\ (SendText(c) \/ SendError(c) \/ SendFatal(c))
    BY <1>6 DEF DoWrite
  <2>2. Link(c) /\ (faults = {} => Safe(c))
    BY DEF Visits
  <2>3. ASSUME NEW text, Write(c, text), UNCHANGED <<srv, conn>>, mem'[c] \in {"live", "freed"},
               \A x \in Clients : x # c => mem'[x] = mem[x] /\ state'[x] = state[x],
               mem'[c] = "live" => /\ end[c] # "rst"
                                   /\ Left(c) /\ faults = {} => ~state'[c].pending
        PROVE  Link(d)' /\ (faults = {} => srv' # "sigpipe" /\ Safe(d)')
    <3>1. CASE d = c
      <4>1. conn'[d] = conn[d] /\ (Left(d) => toClient'[d] = toClient[d])
        BY <2>3, <3>1 DEF Write
      <4>2. Link(d)'
        BY <2>1, <2>2, <2>3, <3>1, <4>1 DEF Link
      <4>3. end'[d] = IF Left(d) /\ end[d] = "fin" THEN "finrst"
                      ELSE IF end[d] = "rst" THEN "shut" ELSE end[d]
        BY <2>3, <3>1 DEF Write
      <4>4. faults = {} => Safe(d)'
        BY <2>1, <2>2, <2>3, <3>1, <4>3 DEF Safe
      <4> QED  BY <2>3, <4>2, <4>4
    <3>2. CASE d # c
      <4>1. toClient'[d] = toClient[d] /\ end'[d] = end[d]
        BY <2>3, <3>2 DEF Write
      <4> QED  BY <1>3, <2>3, <3>2, <4>1 DEF Link, Safe
    <3> QED  BY <3>1, <3>2
  <2>4. CASE SendText(c)
    <3>1. PICK k \in 1..Len(Todo(c)) :
            /\ Takes(c, k) /\ end[c] \in {"up", "fin"}
            /\ Write(c, SubSeq(Todo(c), 1, k))
            /\ state' = [state EXCEPT ![c] = Wrote(@, k)]
            /\ UNCHANGED <<srv, conn, mem>>
      BY <2>4 DEF SendText
    <3>2. state[c] \in FdState /\ Memory(state[c])
      BY DEF Base
    <3>3. /\ state[c].used \in Nat /\ state[c].upto \in Nat /\ state[c].written \in Nat
      BY <3>2 DEF FdState
    <3>4. Len(Todo(c)) = state[c].upto - state[c].written
      BY <3>2, <3>3, TextToSend DEF Todo, Memory
    <3>5. Left(c) => k = state[c].upto - state[c].written
      BY <2>2, <3>1, <3>4 DEF Takes, Link
    <3>6. Left(c) => Wrote(state[c], k).pending = FALSE
      <4>1. k \in 1..(state[c].upto - state[c].written)
        BY <3>1, <3>4
      <4> HIDE DEF Memory
      <4>2. LET t == Wrote(state[c], k) IN
            k < state[c].upto - state[c].written \/ t.pending = FALSE
        BY <3>2, <4>1, WroteIndices
      <4> QED  BY <3>3, <3>5, <4>2
    <3>7. state'[c] = Wrote(state[c], k)
      BY <3>1
    <3> QED  BY <2>1, <2>3, <3>1, <3>6, <3>7
  <2>5. CASE SendError(c)
    <3>1. /\ Write(c, <<>>) /\ mem' = [mem EXCEPT ![c] = "freed"]
          /\ UNCHANGED <<srv, conn, state>>
      BY <2>5 DEF SendError, Free
    <3> QED  BY <2>3, <3>1
  <2>6. CASE SendFatal(c)
    <3>1. Fatal(c) /\ EndProcess("sigpipe") /\ UNCHANGED <<toClient, end, mem, state>>
      BY <2>6 DEF SendFatal
    <3>2. faults # {}
      BY <2>1, <2>2, <3>1 DEF Fatal, Safe
    <3>3. Link(d)'
      BY <1>3, <3>1 DEF EndProcess, Link
    <3> QED  BY <3>2, <3>3
  <2> QED  BY <2>1, <2>4, <2>5, <2>6
<1> QED  BY <1>4, <1>5, <1>6 DEF Rot13Step

LEMMA ClosingStep == ClosingInv /\ [Next]_vars => ClosingInv'
<1> SUFFICES ASSUME ClosingInv, [Next]_vars PROVE ClosingInv'
  OBVIOUS
<1>1. Base /\ ClosingIsSafe /\ \A d \in Clients : Visits(d)
  BY DEF ClosingInv
<1>2. Base'
  BY <1>1, NextBase
<1>3. CASE UNCHANGED vars
  <2>1. \A d \in Clients : Untouched(d)
    BY <1>3 DEF vars, sockVars, setting, client, net, epoll, rot13, Untouched
  <2>2. \A d \in Clients : Visits(d)'
    BY <1>1, <1>3, <2>1, VisitsFrame DEF vars, sockVars
  <2> QED  BY <1>1, <1>2, <1>3, <2>2 DEF ClosingInv, ClosingIsSafe, vars, sockVars, setting
<1>4. CASE ServerStep
  <2>1. ASSUME NEW d \in Clients PROVE Visits(d)'
    BY <1>1, <1>4, EpollVisits, Rot13Visits DEF ServerStep
  <2>2. ClosingIsSafe'
    <3>1. CASE Clients = {}
      BY <1>1, <1>4, <3>1 DEF ServerStep, EpollStep, EpollWait, AcceptClient, Backlog, Rot13Step,
         DoAccept, ClosingIsSafe, setting, EndProcess
    <3>2. CASE Clients # {}
      BY <1>1, <1>4, <3>2, EpollVisits, Rot13Visits DEF ServerStep
    <3> QED  BY <3>1, <3>2
  <2> QED  BY <1>2, <2>1, <2>2 DEF ClosingInv
<1>5. ASSUME NEW c \in Clients, ClientStep(c) \/ UserStep(c), ServersRest PROVE ClosingInv'
  <2>1. Visits(c)'
    BY <1>1, <1>5, ClientVisits
  <2>2. ASSUME NEW d \in Clients, d # c PROVE Visits(d)'
    BY <1>1, <1>5, <2>2, OthersInClientStep, VisitsFrame
  <2>3. UNCHANGED <<setting, srv>>
    BY <1>5 DEF ClientStep, UserStep, SendHello, ReadAck, Close, ReadText, Dial, Kill, Type,
       EndInput, Leave, CloseEnd
  <2> QED  BY <1>1, <1>2, <2>1, <2>2, <2>3 DEF ClosingInv, ClosingIsSafe, setting
<1> QED  BY <1>3, <1>4, <1>5 DEF Next, ServersRest

LEMMA ClosingHolds == Spec => []ClosingInv
<1>1. Init => ClosingInv
  BY InitBase, InitVisits DEF ClosingInv, ClosingIsSafe, Init, SocketsInit
<1> QED  BY <1>1, ClosingStep, PTL DEF Spec

\* No client that does nothing worse than close its connection, at whatever
\* moment and with whatever unread, ends a server that handles no SIGPIPE: each
\* server finds out about the end before it would write to it a second time.
THEOREM ClosingIsSafeHolds == Spec => []ClosingIsSafe
<1>1. ClosingInv => ClosingIsSafe
  BY DEF ClosingInv
<1> QED  BY <1>1, ClosingHolds, PTL

\* A client of test3 that has read has read one answer, whatever edges came
\* while it was being served; and it is not watched any more once it is
\* forgotten, so that a later batch cannot name it.
AnsweredOnce ==
  \A c \in Clients :
    faults = {} /\ server = "epoll" /\ srv = "run" =>
      /\ cpc[c] \in {"sleep", "done"} => got[c] = <<Ack>> /\ toClient[c] = <<>>
      /\ c \notin watched => c \notin batch

\* One answer per client, in every order in which edges, batches and clients
\* may come.
THEOREM AnsweredOnceHolds == Spec => []AnsweredOnce
<1>1. ClosingInv => AnsweredOnce
  BY DEF ClosingInv, Visits, Stage, AnsweredOnce, Silent, NoEdge, OneEdge
<1> QED  BY <1>1, ClosingHolds, PTL

-----------------------------------------------------------------------------
(* TextInOrder.                                                            *)

Chars == Texts \cup {Ack}

\* s is the beginning of t, element by element.
Begins(s, t) == Len(s) <= Len(t) /\ \A i \in 1..Len(s) : s[i] = t[i]

LEMMA BeginsWith ==
  ASSUME NEW S, NEW s \in Seq(S), NEW u \in Seq(S)
  PROVE  Begins(s, s \o u)
BY ConcatProperties, LenProperties DEF Begins

LEMMA BeginsTrans ==
  ASSUME NEW S, NEW s \in Seq(S), NEW t \in Seq(S), NEW u \in Seq(S),
         Begins(s, t), Begins(t, u)
  PROVE  Begins(s, u)
BY LenProperties DEF Begins

LEMMA BeginsIsPrefix ==
  ASSUME NEW S, NEW s \in Seq(S), NEW t \in Seq(S), Begins(s, t)
  PROVE  IsPrefix(s, t)
<1>1. Len(s) \in Nat /\ Len(t) \in Nat /\ Len(s) <= Len(t)
  BY LenProperties DEF Begins
<1>2. \A i \in 1..Len(s) : s[i] \in S /\ t[i] \in S /\ s[i] = t[i]
  BY <1>1, ElementOfSeq DEF Begins
<1> DEFINE a == SubSeq(s, 1, Len(s))
           b == SubSeq(t, 1, Len(s))
<1>3. /\ a \in Seq(S) /\ b \in Seq(S) /\ Len(a) = Len(s) /\ Len(b) = Len(s)
      /\ \A i \in 1..Len(s) : a[i] = s[i] /\ b[i] = t[i]
  <2>1. /\ a \in Seq(S) /\ Len(a) = IF 1 <= Len(s) THEN Len(s) - 1 + 1 ELSE 0
        /\ \A i \in 1..(Len(s) - 1 + 1) : a[i] = s[1 + i - 1]
    BY <1>1, <1>2, SubSeqProperties
  <2>2. /\ b \in Seq(S) /\ Len(b) = IF 1 <= Len(s) THEN Len(s) - 1 + 1 ELSE 0
        /\ \A i \in 1..(Len(s) - 1 + 1) : b[i] = t[1 + i - 1]
    BY <1>1, <1>2, SubSeqProperties
  <2> HIDE DEF a, b
  <2> QED  BY <1>1, <2>1, <2>2
<1> HIDE DEF a, b
<1>4. a = b
  BY <1>2, <1>3, SeqEqual
<1> QED  BY <1>1, <1>4 DEF IsPrefix, a, b

\* Less of s, and more of t.
LEMMA SubsequenceCut ==
  ASSUME NEW S, NEW s \in Seq(S), NEW t \in Seq(S), NEW r \in Seq(S), NEW u \in Seq(S),
         IsSubsequence(s, t), Begins(r, s), Begins(t, u)
  PROVE  IsSubsequence(r, u)
<1>1. /\ Len(r) \in Nat /\ Len(s) \in Nat /\ Len(t) \in Nat /\ Len(u) \in Nat
      /\ DOMAIN r = 1..Len(r) /\ DOMAIN s = 1..Len(s)
      /\ DOMAIN t = 1..Len(t) /\ DOMAIN u = 1..Len(u)
  BY LenProperties
<1>2. PICK at \in [1..Len(s) -> 1..Len(t)] :
        /\ \A i, j \in 1..Len(s) : i < j => at[i] < at[j]
        /\ \A i \in 1..Len(s) : s[i] = t[at[i]]
  BY <1>1 DEF IsSubsequence
<1>3. /\ Len(r) <= Len(s) /\ \A i \in 1..Len(r) : r[i] = s[i]
      /\ Len(t) <= Len(u) /\ \A i \in 1..Len(t) : t[i] = u[i]
  BY DEF Begins
<1> DEFINE place == [i \in 1..Len(r) |-> at[i]]
<1>4. place \in [1..Len(r) -> 1..Len(u)]
  BY <1>1, <1>2, <1>3
<1>5. \A i \in 1..Len(r) : place[i] = at[i] /\ i \in 1..Len(s) /\ at[i] \in 1..Len(t)
  BY <1>1, <1>2, <1>3
<1> HIDE DEF place
<1>6. \A i, j \in 1..Len(r) : i < j => place[i] < place[j]
  BY <1>2, <1>5
<1>7. \A i \in 1..Len(r) : r[i] = u[place[i]]
  BY <1>2, <1>3, <1>5
<1> QED  BY <1>1, <1>4, <1>6, <1>7 DEF IsSubsequence

\* A piece more of both.
LEMMA SubsequenceExtended ==
  ASSUME NEW S, NEW s \in Seq(S), NEW t \in Seq(S), NEW r \in Seq(S), NEW u \in Seq(S),
         IsSubsequence(s, t), Begins(r, u)
  PROVE  IsSubsequence(s \o r, t \o u)
<1>1. /\ Len(r) \in Nat /\ Len(s) \in Nat /\ Len(t) \in Nat /\ Len(u) \in Nat
      /\ DOMAIN s = 1..Len(s) /\ DOMAIN t = 1..Len(t)
  BY LenProperties
<1>2. PICK at \in [1..Len(s) -> 1..Len(t)] :
        /\ \A i, j \in 1..Len(s) : i < j => at[i] < at[j]
        /\ \A i \in 1..Len(s) : s[i] = t[at[i]]
  BY <1>1 DEF IsSubsequence
<1>3. Len(r) <= Len(u) /\ \A i \in 1..Len(r) : r[i] = u[i]
  BY DEF Begins
<1>4. PICK a : a = s \o r
  OBVIOUS
<1>5. PICK b : b = t \o u
  OBVIOUS
<1>6. /\ Len(a) = Len(s) + Len(r) /\ DOMAIN a = 1..(Len(s) + Len(r))
      /\ \A i \in 1..(Len(s) + Len(r)) : a[i] = IF i <= Len(s) THEN s[i] ELSE r[i - Len(s)]
  BY <1>4, ConcatProperties, LenProperties
<1>7. /\ Len(b) = Len(t) + Len(u) /\ DOMAIN b = 1..(Len(t) + Len(u))
      /\ \A i \in 1..(Len(t) + Len(u)) : b[i] = IF i <= Len(t) THEN t[i] ELSE u[i - Len(t)]
  BY <1>5, ConcatProperties, LenProperties
<1>8. PICK N : N \in Nat /\ N = Len(s) + Len(r)
  BY <1>1
<1>9. PICK place \in [1..N -> 1..(Len(t) + Len(u))] :
        /\ \A i \in 1..Len(s) : place[i] = at[i]
        /\ \A i \in 1..N : i > Len(s) => place[i] = Len(t) + i - Len(s)
  <2> DEFINE f == [i \in 1..N |-> IF i <= Len(s) THEN at[i] ELSE Len(t) + i - Len(s)]
  <2>1. f \in [1..N -> 1..(Len(t) + Len(u))]
    BY <1>1, <1>2, <1>3, <1>8
  <2>2. /\ \A i \in 1..Len(s) : f[i] = at[i]
        /\ \A i \in 1..N : i > Len(s) => f[i] = Len(t) + i - Len(s)
    BY <1>1, <1>8
  <2> HIDE DEF f
  <2> QED  BY <2>1, <2>2
<1>10. \A i \in 1..Len(s) : at[i] \in 1..Len(t)
  BY <1>2
<1>11. \A i, j \in 1..N : i < j => place[i] < place[j]
  <2> SUFFICES ASSUME NEW i \in 1..N, NEW j \in 1..N, i < j PROVE place[i] < place[j]
    OBVIOUS
  <2>0. i \in Int /\ j \in Int /\ i \in 1..N /\ j \in 1..N
    BY <1>8
  <2>1. CASE j <= Len(s)
    <3>1. i \in 1..Len(s) /\ j \in 1..Len(s)
      BY <1>1, <1>8, <2>0, <2>1
    <3> QED  BY <1>2, <1>9, <3>1
  <2>2. CASE i <= Len(s) /\ j > Len(s)
    <3>1. i \in 1..Len(s)
      BY <1>1, <1>8, <2>0, <2>2
    <3>2. place[i] = at[i] /\ at[i] \in 1..Len(t)
      BY <1>9, <1>10, <3>1
    <3>3. place[j] = Len(t) + j - Len(s)
      BY <1>9, <2>2
    <3> QED  BY <1>1, <2>0, <2>2, <3>2, <3>3
  <2>3. CASE i > Len(s)
    <3>1. place[i] = Len(t) + i - Len(s) /\ place[j] = Len(t) + j - Len(s)
      BY <1>1, <1>9, <2>0, <2>3
    <3> QED  BY <1>1, <2>0, <3>1
  <2> QED  BY <1>1, <2>0, <2>1, <2>2, <2>3
<1>12. \A i \in 1..N : a[i] = b[place[i]]
  <2> TAKE i \in 1..N
  <2>0. i \in Int /\ i \in 1..N
    BY <1>8
  <2>1. CASE i <= Len(s)
    <3>1. i \in 1..Len(s)
      BY <1>1, <1>8, <2>0, <2>1
    <3>2. place[i] = at[i] /\ at[i] \in 1..Len(t) /\ s[i] = t[at[i]]
      BY <1>2, <1>9, <1>10, <3>1
    <3>3. a[i] = s[i]
      BY <1>6, <1>8, <2>0, <2>1
    <3>4. b[place[i]] = t[at[i]]
      BY <1>1, <1>7, <3>2
    <3> QED  BY <3>2, <3>3, <3>4
  <2>2. CASE i > Len(s)
    <3>1. place[i] = Len(t) + i - Len(s) /\ i - Len(s) \in 1..Len(r)
      BY <1>1, <1>8, <1>9, <2>0, <2>2
    <3>2. place[i] \in 1..(Len(t) + Len(u)) /\ ~(place[i] <= Len(t))
          /\ place[i] - Len(t) = i - Len(s)
      BY <1>1, <1>3, <3>1, <2>0
    <3>3. b[place[i]] = u[i - Len(s)]
      BY <1>7, <3>2
    <3>4. a[i] = r[i - Len(s)]
      BY <1>1, <1>6, <1>8, <2>0, <2>2
    <3> QED  BY <1>3, <3>1, <3>3, <3>4
  <2> QED  BY <1>1, <2>0, <2>1, <2>2
<1>13. IsSubsequence(a, b)
  BY <1>6, <1>7, <1>8, <1>9, <1>11, <1>12 DEF IsSubsequence
<1> QED  BY <1>4, <1>5, <1>13

\* What has no gaps has no elements left out.
LEMMA BeginsIsSubsequence ==
  ASSUME NEW S, NEW s \in Seq(S), NEW t \in Seq(S), Begins(s, t)
  PROVE  IsSubsequence(s, t)
<1>1. /\ Len(s) \in Nat /\ Len(t) \in Nat
      /\ DOMAIN s = 1..Len(s) /\ DOMAIN t = 1..Len(t)
  BY LenProperties
<1> DEFINE at == [i \in 1..Len(s) |-> i]
<1>2. at \in [1..Len(s) -> 1..Len(t)]
  BY <1>1 DEF Begins
<1>3. /\ \A i, j \in 1..Len(s) : i < j => at[i] < at[j]
      /\ \A i \in 1..Len(s) : s[i] = t[at[i]]
  BY <1>1 DEF Begins
<1> HIDE DEF at
<1> QED  BY <1>1, <1>2, <1>3 DEF IsSubsequence

\* What is still in the buffer of s.
Kept(s) == Text(s, s.written, s.used)

\* text, translated, from its position from + 1 on.
Turned(text, from, to) == [i \in 1..(to - from) |-> Rot13Char(text[from + i])]

LEMMA KeptType ==
  ASSUME NEW s \in FdState, Memory(s)
  PROVE  /\ Kept(s) \in Seq(Chars) /\ Kept(s) \in Seq(Texts)
         /\ Len(Kept(s)) = s.used - s.written
         /\ \A n \in 1..(s.used - s.written) : Kept(s)[n] = s.buffer[s.written + n - 1]
<1>1. s.used \in Nat /\ s.written \in Nat /\ s.upto \in Nat
  BY DEF FdState
<1>2. s.written <= s.used
  BY <1>1 DEF Memory
<1>3. /\ Kept(s) \in Seq(Texts) /\ Len(Kept(s)) = s.used - s.written
      /\ \A n \in 1..(s.used - s.written) : Kept(s)[n] = s.buffer[s.written + n - 1]
  <2>1. s.used <= s.used
    BY <1>1
  <2> HIDE DEF Memory, FdState, Text
  <2> QED  BY <1>1, <1>2, <2>1, TextToSend DEF Kept
<1>4. Kept(s) \in Seq(Chars)
  <2> HIDE DEF Kept
  <2> QED  BY <1>3, SeqMonotonic DEF Chars
<1> QED  BY <1>3, <1>4

LEMMA TurnedType ==
  ASSUME NEW text \in Seq(Texts), NEW to \in 0..Len(text), NEW from \in 0..to
  PROVE  /\ Turned(text, from, to) \in Seq(Chars)
         /\ Len(Turned(text, from, to)) = to - from
         /\ \A n \in 1..(to - from) : Turned(text, from, to)[n] = Rot13Char(text[from + n])
<1>1. Len(text) \in Nat /\ to - from \in Nat
  BY LenProperties
<1>2. \A n \in 1..(to - from) : Rot13Char(text[from + n]) \in Chars
  BY <1>1, ElementOfSeq, CharType DEF Chars
<1>3. PICK k : k \in Nat /\ k = to - from
  BY <1>1
<1> DEFINE f == [n \in 1..k |-> Rot13Char(text[from + n])]
<1>4. f \in [1..k -> Chars]
  BY <1>2, <1>3
<1>5. f \in Seq(Chars)
  <2> HIDE DEF f
  <2>1. Seq(Chars) = UNION {[1..n -> Chars] : n \in Nat}
    BY SeqDef
  <2> QED  BY <1>3, <1>4, <2>1
<1>6. Len(f) = k
  BY <1>3, <1>4, <1>5, LenProperties
<1>7. f = Turned(text, from, to)
  BY <1>3 DEF Turned
<1>8. \A n \in 1..k : f[n] = Rot13Char(text[from + n])
  OBVIOUS
<1> HIDE DEF f
<1> QED  BY <1>3, <1>5, <1>6, <1>7, <1>8

LEMMA TurnedMore ==
  ASSUME NEW text \in Seq(Texts), NEW to \in 0..Len(text), NEW from \in 0..to
  PROVE  Turned(text, 0, to) = Turned(text, 0, from) \o Turned(text, from, to)
<1>1. Len(text) \in Nat /\ to \in Nat /\ from \in Nat /\ from <= to /\ to <= Len(text)
  BY LenProperties
<1>2. PICK a : a = Turned(text, 0, from)
  OBVIOUS
<1>3. PICK b : b = Turned(text, from, to)
  OBVIOUS
<1>4. PICK w : w = Turned(text, 0, to)
  OBVIOUS
<1>5. a \in Seq(Chars) /\ Len(a) = from /\ \A n \in 1..from : a[n] = Rot13Char(text[n])
  <2>1. 0 \in 0..from /\ from \in 0..Len(text) /\ from - 0 = from
    BY <1>1
  <2>2. /\ a \in Seq(Chars) /\ Len(a) = from - 0
        /\ \A n \in 1..(from - 0) : a[n] = Rot13Char(text[0 + n])
    BY <1>2, <2>1, TurnedType
  <2> QED  BY <1>1, <2>2
<1>6. b \in Seq(Chars) /\ Len(b) = to - from
      /\ \A n \in 1..(to - from) : b[n] = Rot13Char(text[from + n])
  BY <1>1, <1>3, TurnedType
<1>7. w \in Seq(Chars) /\ Len(w) = to /\ \A n \in 1..to : w[n] = Rot13Char(text[n])
  <2>1. 0 \in 0..to /\ to - 0 = to
    BY <1>1
  <2>2. /\ w \in Seq(Chars) /\ Len(w) = to - 0
        /\ \A n \in 1..(to - 0) : w[n] = Rot13Char(text[0 + n])
    BY <1>4, <2>1, TurnedType
  <2> QED  BY <1>1, <2>2
<1>8. PICK ab : ab = a \o b
  OBVIOUS
<1>9. ab \in Seq(Chars) /\ Len(ab) = to
      /\ \A n \in 1..to : ab[n] = IF n <= from THEN a[n] ELSE b[n - from]
  <2>1. /\ ab \in Seq(Chars) /\ Len(ab) = Len(a) + Len(b)
        /\ \A n \in 1..(Len(a) + Len(b)) : ab[n] = IF n <= Len(a) THEN a[n] ELSE b[n - Len(a)]
    BY <1>5, <1>6, <1>8, ConcatProperties
  <2>2. Len(a) + Len(b) = to
    BY <1>1, <1>5, <1>6
  <2> QED  BY <1>5, <2>1, <2>2
<1>10. \A n \in 1..to : w[n] = ab[n]
  <2> TAKE n \in 1..to
  <2>1. CASE n <= from
    BY <1>1, <1>5, <1>7, <1>9, <2>1
  <2>2. CASE n > from
    <3>1. n - from \in 1..(to - from) /\ from + (n - from) = n
      BY <1>1, <2>2
    <3> QED  BY <1>1, <1>6, <1>7, <1>9, <2>2, <3>1, SMTT(20)
  <2> QED  BY <1>1, <2>1, <2>2
<1>11. w = ab
  BY <1>7, <1>9, <1>10, SeqEqual
<1> QED  BY <1>2, <1>3, <1>4, <1>8, <1>11

\* do_read: what is stored is the beginning of what has come, translated, and
\* all of it if there is space.
LEMMA PutText ==
  ASSUME NEW s \in FdState, Memory(s), NEW text \in Seq(Texts)
  PROVE  LET t == Put(s, text) IN
         \E n \in 0..Len(text) :
           /\ Kept(t) = Kept(s) \o Turned(text, 0, n)
           /\ t.used = s.used + n
           /\ s.used + Len(text) <= MaxLine => n = Len(text)
<1>1. PICK t : t = Put(s, text)
  OBVIOUS
<1>2. /\ t \in FdState /\ Memory(t) /\ t.written = s.written
      /\ t.used = IF s.used + Len(text) <= MaxLine THEN s.used + Len(text) ELSE MaxLine
      /\ t.buffer = [k \in 0..(MaxLine - 1) |->
                       IF s.used <= k /\ k < s.used + Len(text)
                         THEN Rot13Char(text[k - s.used + 1]) ELSE s.buffer[k]]
  BY <1>1, PutIndices
<1>3. /\ s.used \in 0..MaxLine /\ s.written \in Nat /\ s.written <= s.used
      /\ Len(text) \in Nat /\ MaxLine \in Nat
  <2>1. s.used \in 0..MaxLine /\ s.written \in Nat /\ s.upto \in Nat
    BY Rot13Assumption DEF FdState
  <2>2. Len(text) \in Nat
    BY LenProperties
  <2> QED  BY <2>1, <2>2, Rot13Assumption DEF Memory
<1>4. PICK n : n \in 0..Len(text) /\ t.used = s.used + n
              /\ (s.used + Len(text) <= MaxLine => n = Len(text))
  <2>1. CASE s.used + Len(text) <= MaxLine
    BY <1>2, <1>3, <2>1
  <2>2. CASE ~(s.used + Len(text) <= MaxLine)
    <3>1. MaxLine - s.used \in 0..Len(text) /\ MaxLine = s.used + (MaxLine - s.used)
      BY <1>3, <2>2
    <3> QED  BY <1>2, <2>2, <3>1
  <2> QED  BY <2>1, <2>2
<1>5. t.used <= MaxLine
  BY <1>2, <1>3
<1>6. PICK a : a = Kept(s)
  OBVIOUS
<1>7. PICK b : b = Turned(text, 0, n)
  OBVIOUS
<1>8. PICK w : w = Kept(t)
  OBVIOUS
<1>9. /\ a \in Seq(Chars) /\ Len(a) = s.used - s.written
      /\ \A i \in 1..(s.used - s.written) : a[i] = s.buffer[s.written + i - 1]
  BY <1>6, KeptType
<1>10. b \in Seq(Chars) /\ Len(b) = n /\ \A i \in 1..n : b[i] = Rot13Char(text[i])
  <2>1. 0 \in 0..n /\ n \in Nat /\ n - 0 = n
    BY <1>3, <1>4
  <2>2. /\ b \in Seq(Chars) /\ Len(b) = n - 0
        /\ \A i \in 1..(n - 0) : b[i] = Rot13Char(text[0 + i])
    BY <1>4, <1>7, <2>1, TurnedType
  <2> QED  BY <2>1, <2>2
<1>11. /\ w \in Seq(Chars) /\ Len(w) = t.used - t.written
       /\ \A i \in 1..(t.used - t.written) : w[i] = t.buffer[t.written + i - 1]
  BY <1>2, <1>8, KeptType
<1>12. PICK ab : ab = a \o b
  OBVIOUS
<1>13. ab \in Seq(Chars) /\ Len(ab) = s.used - s.written + n
       /\ \A i \in 1..(s.used - s.written + n) :
            ab[i] = IF i <= s.used - s.written THEN a[i] ELSE b[i - (s.used - s.written)]
  <2>1. /\ ab \in Seq(Chars) /\ Len(ab) = Len(a) + Len(b)
        /\ \A i \in 1..(Len(a) + Len(b)) : ab[i] = IF i <= Len(a) THEN a[i] ELSE b[i - Len(a)]
    BY <1>9, <1>10, <1>12, ConcatProperties
  <2> QED  BY <1>9, <1>10, <2>1
<1>14. Len(w) = Len(ab)
  BY <1>2, <1>3, <1>4, <1>11, <1>13
<1>15. \A i \in 1..(s.used - s.written + n) : w[i] = ab[i]
  <2> TAKE i \in 1..(s.used - s.written + n)
  <2>0. s.used - s.written + n = t.used - t.written /\ n \in Nat
    BY <1>2, <1>3, <1>4
  <2>1. /\ s.written + i - 1 \in 0..(MaxLine - 1)
        /\ w[i] = t.buffer[s.written + i - 1]
    <3>1. w[i] = t.buffer[t.written + i - 1]
      BY <1>11, <2>0
    <3>2. i <= s.used - s.written + n /\ i >= 1 /\ i \in Int
      BY <1>3, <2>0
    <3>3. s.written + i - 1 \in 0..(MaxLine - 1)
      BY <1>3, <1>4, <1>5, <2>0, <3>2
    <3> QED  BY <1>2, <3>1, <3>3
  <2>2. CASE i <= s.used - s.written
    <3>1. ab[i] = s.buffer[s.written + i - 1]
      BY <1>3, <1>4, <1>9, <1>13, <2>2
    <3>2. t.buffer[s.written + i - 1] = s.buffer[s.written + i - 1]
      BY <1>2, <1>3, <1>4, <2>1, <2>2
    <3> QED  BY <2>1, <3>1, <3>2
  <2>3. CASE i > s.used - s.written
    <3>1. i - (s.used - s.written) \in 1..n
      BY <1>3, <1>4, <2>3
    <3>2. ab[i] = Rot13Char(text[i - (s.used - s.written)])
      BY <1>3, <1>4, <1>10, <1>13, <2>3, <3>1
    <3>3. (s.written + i - 1) - s.used + 1 = i - (s.used - s.written)
      BY <1>3, <1>4
    <3>4. s.used <= s.written + i - 1 /\ s.written + i - 1 < s.used + Len(text)
      BY <1>3, <1>4, <2>3
    <3>5. t.buffer[s.written + i - 1] = Rot13Char(text[(s.written + i - 1) - s.used + 1])
      BY <1>2, <2>1, <3>4
    <3> QED  BY <2>1, <3>2, <3>3, <3>5
  <2> QED  BY <1>3, <1>4, <2>2, <2>3
<1>16. w = ab
  BY <1>11, <1>13, <1>14, <1>15, SeqEqual
<1>17. Kept(t) = Kept(s) \o Turned(text, 0, n)
  BY <1>6, <1>7, <1>8, <1>12, <1>16
<1> QED  BY <1>1, <1>4, <1>17

\* do_write: what has been sent and what is kept is what was kept.
LEMMA WroteText ==
  ASSUME NEW s \in FdState, Memory(s), NEW k \in 1..(s.upto - s.written)
  PROVE  LET t == Wrote(s, k)
             sending == SubSeq(Text(s, s.written, s.upto), 1, k) IN
         /\ sending \in Seq(Chars)
         /\ Kept(s) = sending \o Kept(t)
         /\ t.used <= s.used
<1>1. PICK t : t = Wrote(s, k)
  OBVIOUS
<1>2. s.upto \in Nat /\ s.written \in Nat /\ s.used \in Nat
      /\ s.written <= s.upto /\ s.upto <= s.used
  BY DEF FdState, Memory
<1>3. k \in Nat /\ 1 <= k /\ k <= s.upto - s.written
  BY <1>2
<1>4. /\ t \in FdState /\ Memory(t) /\ t.buffer = s.buffer /\ t.used <= s.used
      /\ \/ t.written = s.written + k /\ t.used = s.used
         \/ s.written + k = s.used /\ t.written = t.used
  <2>1. LET x == Wrote(s, k) IN
         /\ x \in FdState /\ Memory(x) /\ x.buffer = s.buffer
         /\ \/ x.written = s.written + k /\ x.used = s.used
            \/ s.written + k = s.used /\ x.written = x.used /\ x.used <= s.used
    BY WroteIndices
  <2> QED  BY <1>1, <1>2, <2>1
<1>5. PICK todo : todo = Text(s, s.written, s.upto)
  OBVIOUS
<1>6. /\ todo \in Seq(Texts) /\ Len(todo) = s.upto - s.written
      /\ \A n \in 1..(s.upto - s.written) : todo[n] = s.buffer[s.written + n - 1]
  BY <1>2, <1>5, TextToSend
<1>7. PICK a : a = SubSeq(todo, 1, k)
  OBVIOUS
<1>8. a \in Seq(Chars) /\ Len(a) = k /\ \A n \in 1..k : a[n] = s.buffer[s.written + n - 1]
  <2>1. \A n \in 1..k : n \in 1..(s.upto - s.written)
    BY <1>2, <1>3
  <2>2. \A n \in 1..k : todo[n] \in Chars
    BY <1>6, <2>1, ElementOfSeq DEF Chars
  <2>3. /\ a \in Seq(Chars) /\ Len(a) = IF 1 <= k THEN k - 1 + 1 ELSE 0
        /\ \A n \in 1..(k - 1 + 1) : a[n] = todo[1 + n - 1]
    BY <1>3, <1>7, <2>2, SubSeqProperties
  <2>4. Len(a) = k /\ \A n \in 1..k : a[n] = todo[n]
    BY <1>3, <2>3
  <2> QED  BY <1>6, <2>1, <2>3, <2>4
<1>9. PICK b : b = Kept(t)
  OBVIOUS
<1>10. t.used \in Nat /\ t.written \in Nat
  BY <1>4 DEF FdState
<1>11. /\ b \in Seq(Chars) /\ Len(b) = t.used - t.written
       /\ \A n \in 1..(t.used - t.written) : b[n] = s.buffer[t.written + n - 1]
  BY <1>4, <1>9, KeptType
<1>12. PICK w : w = Kept(s)
  OBVIOUS
<1>13. /\ w \in Seq(Chars) /\ Len(w) = s.used - s.written
       /\ \A n \in 1..(s.used - s.written) : w[n] = s.buffer[s.written + n - 1]
  BY <1>12, KeptType
<1>14. PICK ab : ab = a \o b
  OBVIOUS
<1>15. /\ ab \in Seq(Chars) /\ Len(ab) = s.used - s.written
       /\ \A n \in 1..(s.used - s.written) : ab[n] = IF n <= k THEN a[n] ELSE b[n - k]
  <2>1. /\ ab \in Seq(Chars) /\ Len(ab) = Len(a) + Len(b)
        /\ \A n \in 1..(Len(a) + Len(b)) : ab[n] = IF n <= Len(a) THEN a[n] ELSE b[n - Len(a)]
    BY <1>8, <1>11, <1>14, ConcatProperties
  <2>2. Len(a) + Len(b) = s.used - s.written /\ Len(a) = k
    BY <1>2, <1>3, <1>4, <1>8, <1>10, <1>11
  <2> QED  BY <2>1, <2>2
<1>16. \A n \in 1..(s.used - s.written) : w[n] = ab[n]
  <2> TAKE n \in 1..(s.used - s.written)
  <2>1. CASE n <= k
    <3>1. n \in 1..k
      BY <1>2, <1>3, <2>1
    <3> QED  BY <1>8, <1>13, <1>15, <2>1, <3>1
  <2>2. CASE n > k
    <3>1. t.written = s.written + k /\ t.used = s.used
      BY <1>2, <1>3, <1>4, <2>2
    <3>2. n - k \in 1..(t.used - t.written) /\ t.written + (n - k) - 1 = s.written + n - 1
      BY <1>2, <1>3, <2>2, <3>1
    <3>3. b[n - k] = s.buffer[s.written + n - 1]
      BY <1>11, <3>2
    <3>4. ab[n] = b[n - k]
      BY <1>2, <1>3, <1>15, <2>2
    <3> QED  BY <1>13, <3>3, <3>4
  <2> QED  BY <1>2, <1>3, <2>1, <2>2
<1>17. w = ab
  BY <1>13, <1>15, <1>16, SeqEqual
<1>18. Kept(s) = a \o Kept(t)
  BY <1>9, <1>12, <1>14, <1>17
<1> QED  BY <1>1, <1>4, <1>5, <1>7, <1>8, <1>18

\* How much of c's text has been read, what that should become, and what has
\* become of it: what c has read, what is on its way, what the buffer keeps.
Consumed(c) == Len(sent[c]) - Len(toServer[c])
Taken(c)    == Kept(start[c]) \o Turned(sent[c], 0, Consumed(c))
Active(c)   == mem[c] = "live" /\ ~Left(c)
Waiting(c)  == IF Active(c) THEN Kept(state[c]) ELSE <<>>
Chain(c)    == (got[c] \o toClient[c]) \o Waiting(c)

\* The chain has what has been taken, in order, with elements left out only
\* when something may have been dropped; while c is served nothing else is
\* missing.
Flow(c) ==
  /\ Len(toServer[c]) <= Len(sent[c])
  /\ \A j \in 1..Len(toServer[c]) : toServer[c][j] = sent[c][Consumed(c) + j]
  /\ mem[c] = "none" => toServer[c] = sent[c]
  /\ IsSubsequence(Chain(c), Taken(c))
  /\ NothingDropped(c) => Begins(Chain(c), Taken(c))
  /\ NothingDropped(c) /\ Active(c) => /\ Len(Chain(c)) = Len(Taken(c))
                                       /\ state[c].used <= start[c].used + Consumed(c)

TextInv == ClosingInv /\ \A c \in Clients : server = "rot13" => Flow(c)

LEMMA Difference == ASSUME NEW m \in Nat, NEW k \in Nat, k <= m PROVE m - k \in 0..m
OBVIOUS

LEMMA BeginsRefl == ASSUME NEW S, NEW s \in Seq(S) PROVE Begins(s, s)
BY LenProperties DEF Begins

LEMMA TakenText ==
  ASSUME NEW s \in FdState, Memory(s), NEW text \in Seq(Texts),
         NEW to \in 0..Len(text), NEW from \in 0..to
  PROVE  /\ Kept(s) \o Turned(text, 0, to) \in Seq(Chars)
         /\ Len(Kept(s) \o Turned(text, 0, to)) = (s.used - s.written) + to
         /\ Kept(s) \o Turned(text, 0, to)
              = (Kept(s) \o Turned(text, 0, from)) \o Turned(text, from, to)
         /\ Begins(Kept(s) \o Turned(text, 0, from), Kept(s) \o Turned(text, 0, to))
<1>1. PICK a : a = Kept(s)
  OBVIOUS
<1>2. PICK b : b = Turned(text, 0, from)
  OBVIOUS
<1>3. PICK x : x = Turned(text, from, to)
  OBVIOUS
<1>4. PICK w : w = Turned(text, 0, to)
  OBVIOUS
<1>5. a \in Seq(Chars) /\ Len(a) = s.used - s.written
  BY <1>1, KeptType
<1>6. 0 \in 0..from /\ from \in 0..Len(text) /\ 0 \in 0..to /\ to \in Nat /\ to - 0 = to
  BY LenProperties
<1>7. b \in Seq(Chars) /\ x \in Seq(Chars) /\ w \in Seq(Chars) /\ Len(w) = to
  BY <1>2, <1>3, <1>4, <1>6, TurnedType
<1>8. w = b \o x
  BY <1>2, <1>3, <1>4, TurnedMore
<1>9. a \o w = (a \o b) \o x
  <2>1. (a \o b) \o x = a \o (b \o x)
    BY <1>5, <1>7, ConcatAssociative, SMTT(20)
  <2> QED  BY <1>8, <2>1
<1>10. a \o w \in Seq(Chars) /\ a \o b \in Seq(Chars) /\ Len(a \o w) = (s.used - s.written) + to
  BY <1>5, <1>7, ConcatProperties
<1>11. Begins(a \o b, a \o w)
  BY <1>7, <1>9, <1>10, BeginsWith
<1> QED  BY <1>1, <1>2, <1>3, <1>4, <1>9, <1>10, <1>11

\* The types of all that.
Pieces(c) ==
  /\ got[c] \in Seq(Chars) /\ toClient[c] \in Seq(Chars) /\ sent[c] \in Seq(Texts)
  /\ server = "rot13" => toServer[c] \in Seq(Texts)
  /\ state[c] \in FdState /\ Memory(state[c]) /\ start[c] \in FdState /\ Memory(start[c])
  /\ Waiting(c) \in Seq(Chars) /\ Chain(c) \in Seq(Chars)

AllPieces == \A c \in Clients : Pieces(c)

LEMMA PiecesType == Base => AllPieces
<1> SUFFICES ASSUME Base, NEW c \in Clients PROVE Pieces(c)
  BY DEF AllPieces
<1>1. got[c] \in Seq(Chars) /\ toClient[c] \in Seq(Chars) /\ sent[c] \in Seq(Texts)
  BY DEF Base, TypeOK, SocketsTypeOK, Chars
<1>2. state[c] \in FdState /\ Memory(state[c]) /\ start[c] \in FdState /\ Memory(start[c])
  BY DEF Base, TypeOK, Rot13TypeOK
<1>3. server = "rot13" => toServer[c] \in Seq(Texts)
  BY DEF Base, Places
<1>4. Waiting(c) \in Seq(Chars)
  BY <1>2, KeptType, EmptySeq DEF Waiting
<1>5. Chain(c) \in Seq(Chars)
  BY <1>1, <1>4, ConcatProperties DEF Chain
<1> QED  BY <1>1, <1>2, <1>3, <1>4, <1>5 DEF Pieces

LEMMA PiecesNext == Base' => AllPieces'
BY PiecesType, PTL

\* A step that takes nothing new from c into its buffer, and may take away the
\* end of the chain once c is not served any more.
LEMMA FlowCut ==
  ASSUME NEW c \in Clients, Base, Base', server = "rot13", server' = server, Flow(c),
         sent'[c] = sent[c], start'[c] = start[c],
         mem'[c] = "none" => mem[c] = "none",
         \/ toServer'[c] = toServer[c]
         \/ toServer'[c] = <<>> /\ mem'[c] # "none" /\ ~Active(c)',
         Begins(Chain(c)', Chain(c)),
         Active(c)' => /\ Active(c) /\ Chain(c)' = Chain(c)
                       /\ state'[c].used <= state[c].used
  PROVE  Flow(c)'
<1>1. Pieces(c) /\ Pieces(c)'
  BY PiecesType, PiecesNext DEF AllPieces
<1>2. /\ Len(sent[c]) \in Nat /\ Len(toServer[c]) \in Nat /\ Consumed(c) \in 0..Len(sent[c])
      /\ toServer[c] \in Seq(Texts) /\ sent[c] \in Seq(Texts)
  <2>1. toServer[c] \in Seq(Texts) /\ sent[c] \in Seq(Texts)
    BY <1>1 DEF Pieces
  <2>2. Len(sent[c]) \in Nat /\ Len(toServer[c]) \in Nat
    BY <2>1, LenProperties
  <2>3. Len(toServer[c]) <= Len(sent[c])
    BY DEF Flow
  <2> QED  BY <2>1, <2>2, <2>3, Difference DEF Consumed
<1>3. start[c] \in FdState /\ Memory(start[c]) /\ Chain(c) \in Seq(Chars) /\ Chain(c)' \in Seq(Chars)
  BY <1>1 DEF Pieces
<1>4. NothingDropped(c)' <=> NothingDropped(c)
  BY DEF NothingDropped
<1>5. PICK n : /\ n = Consumed(c)' /\ n \in Consumed(c)..Len(sent[c])
               /\ toServer'[c] = toServer[c] => n = Consumed(c)
  <2>1. CASE toServer'[c] = toServer[c]
    <3>1. Consumed(c)' = Consumed(c)
      BY <2>1 DEF Consumed
    <3> QED  BY <1>2, <3>1
  <2>2. CASE toServer'[c] = <<>> /\ toServer'[c] # toServer[c]
    <3>1. Consumed(c)' = Len(sent[c])
      BY <1>2, <2>2, EmptySeq DEF Consumed
    <3> QED  BY <1>2, <2>2, <3>1
  <2> QED  BY <2>1, <2>2
<1>6. Taken(c)' = Kept(start[c]) \o Turned(sent[c], 0, n)
  BY <1>5 DEF Taken, Kept, Turned, Text
<1>7. Taken(c)' \in Seq(Chars) /\ Taken(c) \in Seq(Chars) /\ Begins(Taken(c), Taken(c)')
  <2>1. Consumed(c) \in 0..n /\ n \in 0..Len(sent[c]) /\ 0 \in 0..Consumed(c)
    BY <1>2, <1>5
  <2>2. /\ Kept(start[c]) \o Turned(sent[c], 0, n) \in Seq(Chars)
        /\ Begins(Kept(start[c]) \o Turned(sent[c], 0, Consumed(c)),
                  Kept(start[c]) \o Turned(sent[c], 0, n))
    BY <1>2, <1>3, <2>1, TakenText
  <2>3. Kept(start[c]) \o Turned(sent[c], 0, Consumed(c)) \in Seq(Chars)
    BY <1>2, <1>3, <2>1, TakenText
  <2> QED  BY <1>6, <2>2, <2>3 DEF Taken
<1>8. IsSubsequence(Chain(c), Taken(c)) /\ (NothingDropped(c) => Begins(Chain(c), Taken(c)))
  BY DEF Flow
<1>9. IsSubsequence(Chain(c)', Taken(c)')
  BY <1>3, <1>7, <1>8, SubsequenceCut
<1>10. NothingDropped(c)' => Begins(Chain(c)', Taken(c)')
  BY <1>3, <1>4, <1>7, <1>8, BeginsTrans
<1>11. NothingDropped(c)' /\ Active(c)' =>
         /\ Len(Chain(c)') = Len(Taken(c)')
         /\ state'[c].used <= start'[c].used + Consumed(c)'
  <2> SUFFICES ASSUME NothingDropped(c)', Active(c)'
               PROVE  /\ Len(Chain(c)') = Len(Taken(c)')
                      /\ state'[c].used <= start'[c].used + Consumed(c)'
    OBVIOUS
  <2>1. toServer'[c] = toServer[c] /\ n = Consumed(c)
    BY <1>5
  <2>2. Taken(c)' = Taken(c)
    BY <1>6, <2>1 DEF Taken
  <2>3. state[c].used <= start[c].used + Consumed(c) /\ Len(Chain(c)) = Len(Taken(c))
    BY <1>4 DEF Flow
  <2>4. state'[c].used \in Nat /\ state[c].used \in Nat /\ start[c].used \in Nat
    BY <1>1 DEF Pieces, FdState
  <2> QED  BY <1>2, <1>5, <2>1, <2>2, <2>3, <2>4
<1>12. /\ Len(toServer'[c]) <= Len(sent'[c])
       /\ \A j \in 1..Len(toServer'[c]) : toServer'[c][j] = sent'[c][Consumed(c)' + j]
       /\ mem'[c] = "none" => toServer'[c] = sent'[c]
  <2>1. CASE toServer'[c] = toServer[c]
    BY <1>5, <2>1 DEF Flow
  <2>2. CASE toServer'[c] = <<>> /\ mem'[c] # "none"
    BY <1>2, <2>2, EmptySeq
  <2> QED  BY <2>1, <2>2
<1> QED  BY <1>9, <1>10, <1>11, <1>12 DEF Flow

\* do_read, of a connection that goes on.
LEMMA FlowRead ==
  ASSUME NEW c \in Clients, Base, Base', server = "rot13", server' = server, Flow(c),
         Active(c), Active(c)',
         sent'[c] = sent[c], got'[c] = got[c], toClient'[c] = toClient[c],
         start'[c] = start[c], mem'[c] # "none",
         state'[c] = Put(state[c], toServer[c]), toServer'[c] = <<>>
  PROVE  Flow(c)'
<1>1. Pieces(c)
  BY PiecesType DEF AllPieces
<1>2. PICK x : x = sent[c]
  OBVIOUS
<1>3. PICK y : y = toServer[c]
  OBVIOUS
<1>4. PICK q : q = Consumed(c)
  OBVIOUS
<1>5. /\ x \in Seq(Texts) /\ y \in Seq(Texts) /\ Len(x) \in Nat /\ Len(y) \in Nat
      /\ Len(y) <= Len(x) /\ q = Len(x) - Len(y) /\ q \in 0..Len(x)
      /\ \A j \in 1..Len(y) : y[j] = x[q + j]
  <2>1. x \in Seq(Texts) /\ y \in Seq(Texts)
    BY <1>1, <1>2, <1>3 DEF Pieces
  <2>2. Len(x) \in Nat /\ Len(y) \in Nat
    BY <2>1, LenProperties
  <2>3. /\ Len(y) <= Len(x) /\ q = Len(x) - Len(y)
        /\ \A j \in 1..Len(y) : y[j] = x[q + j]
    BY <1>2, <1>3, <1>4 DEF Flow, Consumed
  <2> QED  BY <2>1, <2>2, <2>3, Difference
<1>6. PICK s : s = state[c]
  OBVIOUS
<1>7. PICK f : f = start[c]
  OBVIOUS
<1>8. /\ s \in FdState /\ Memory(s) /\ f \in FdState /\ Memory(f)
      /\ s.used \in Nat /\ f.used \in Nat
  BY <1>1, <1>6, <1>7 DEF Pieces, FdState
<1>9. PICK n \in 0..Len(y) :
        /\ Kept(Put(s, y)) = Kept(s) \o Turned(y, 0, n)
        /\ Put(s, y).used = s.used + n
        /\ s.used + Len(y) <= MaxLine => n = Len(y)
  BY <1>5, <1>8, PutText
<1>10. n \in Nat /\ n <= Len(y) /\ 0 \in 0..n /\ n - 0 = n /\ n \in 0..Len(y)
  BY <1>5
<1>11. PICK Q : Q = Turned(y, 0, n)
  OBVIOUS
<1>12. PICK U : U = Turned(x, q, Len(x))
  OBVIOUS
<1>13. Q \in Seq(Chars) /\ Len(Q) = n /\ \A i \in 1..n : Q[i] = Rot13Char(y[i])
  <2>1. /\ Q \in Seq(Chars) /\ Len(Q) = n - 0
        /\ \A i \in 1..(n - 0) : Q[i] = Rot13Char(y[0 + i])
    BY <1>5, <1>10, <1>11, TurnedType
  <2> QED  BY <1>10, <2>1
<1>14. U \in Seq(Chars) /\ Len(U) = Len(y) /\ \A i \in 1..Len(y) : U[i] = Rot13Char(x[q + i])
  <2>1. q \in 0..Len(x) /\ Len(x) \in 0..Len(x) /\ Len(x) - q = Len(y)
    BY <1>5
  <2>2. /\ U \in Seq(Chars) /\ Len(U) = Len(x) - q
        /\ \A i \in 1..(Len(x) - q) : U[i] = Rot13Char(x[q + i])
    BY <1>5, <1>12, <2>1, TurnedType
  <2> QED  BY <2>1, <2>2
<1>15. Begins(Q, U)
  <2>1. \A i \in 1..n : i \in 1..Len(y)
    BY <1>5, <1>10
  <2>2. \A i \in 1..n : Q[i] = U[i]
    BY <1>5, <1>13, <1>14, <2>1
  <2> QED  BY <1>10, <1>13, <1>14, <2>2 DEF Begins
<1>16. n = Len(y) => Q = U
  BY <1>13, <1>14, <1>15, SeqEqual DEF Begins
<1>17. PICK C : C = Chain(c)
  OBVIOUS
<1>18. PICK T : T = Taken(c)
  OBVIOUS
<1>19. Chain(c)' = C \o Q /\ C \in Seq(Chars)
  <2>1. PICK g : g = got[c] \o toClient[c]
    OBVIOUS
  <2>2. C = g \o Kept(s)
    BY <1>6, <1>17, <2>1 DEF Chain, Waiting
  <2>3. Chain(c)' = g \o Kept(Put(s, y))
    BY <1>3, <1>6, <2>1 DEF Chain, Waiting, Kept, Text
  <2>4. g \in Seq(Chars) /\ Kept(s) \in Seq(Chars)
    BY <1>1, <1>8, <2>1, ConcatProperties, KeptType DEF Pieces
  <2>5. C \in Seq(Chars)
    BY <1>1, <1>17 DEF Pieces
  <2>6. (g \o Kept(s)) \o Q = g \o (Kept(s) \o Q)
    BY <1>13, <2>4, ConcatAssociative, SMTT(20)
  <2> QED  BY <1>9, <1>11, <2>2, <2>3, <2>5, <2>6
<1>20. Taken(c)' = T \o U /\ T \in Seq(Chars)
  <2>1. Consumed(c)' = Len(x)
    BY <1>2, <1>5, EmptySeq DEF Consumed
  <2>2. Taken(c)' = Kept(f) \o Turned(x, 0, Len(x))
    BY <1>2, <1>7, <2>1 DEF Taken, Kept, Turned, Text
  <2>3. T = Kept(f) \o Turned(x, 0, q)
    BY <1>2, <1>4, <1>7, <1>18 DEF Taken
  <2>4. q \in 0..Len(x) /\ Len(x) \in 0..Len(x) /\ q \in 0..q /\ 0 \in 0..q
    BY <1>5
  <2>5. Kept(f) \o Turned(x, 0, Len(x)) = (Kept(f) \o Turned(x, 0, q)) \o Turned(x, q, Len(x))
    BY <1>5, <1>8, <2>4, TakenText
  <2>6. T \in Seq(Chars)
    BY <1>5, <1>8, <2>3, <2>4, TakenText
  <2> QED  BY <1>12, <2>2, <2>3, <2>5, <2>6
<1>21. IsSubsequence(Chain(c)', Taken(c)')
  <2>1. IsSubsequence(C, T)
    BY <1>17, <1>18 DEF Flow
  <2>2. IsSubsequence(C \o Q, T \o U)
    BY <1>13, <1>14, <1>15, <1>19, <1>20, <2>1, SubsequenceExtended
  <2> QED  BY <1>19, <1>20, <2>2
<1>22. ASSUME NothingDropped(c)'
       PROVE  /\ Begins(Chain(c)', Taken(c)') /\ Len(Chain(c)') = Len(Taken(c)')
              /\ state'[c].used <= start'[c].used + Consumed(c)'
  <2>1. f.used + Len(x) <= MaxLine
    BY <1>2, <1>7, <1>22 DEF NothingDropped
  <2>2. /\ Begins(C, T) /\ Len(C) = Len(T) /\ s.used <= f.used + q
    BY <1>2, <1>4, <1>6, <1>7, <1>17, <1>18, <2>1 DEF NothingDropped, Flow
  <2>3. C = T
    BY <1>19, <1>20, <2>2, SeqEqual DEF Begins
  <2>4. s.used + Len(y) <= MaxLine
    BY <1>5, <1>8, <2>1, <2>2, Rot13Assumption
  <2>5. n = Len(y)
    BY <1>9, <2>4
  <2>6. Q = U
    BY <1>16, <2>5
  <2>7. Chain(c)' = Taken(c)'
    BY <1>19, <1>20, <2>3, <2>6
  <2>8. Chain(c)' \in Seq(Chars)
    BY <1>13, <1>19, ConcatProperties
  <2>9. Begins(Chain(c)', Taken(c)')
    BY <2>7, <2>8, BeginsRefl
  <2>10. state'[c].used = s.used + n /\ start'[c].used = f.used
    BY <1>3, <1>6, <1>7, <1>9
  <2>11. Consumed(c)' = Len(x)
    BY <1>2, <1>5, EmptySeq DEF Consumed
  <2>12. s.used + n <= f.used + Len(x)
    BY <1>5, <1>8, <1>10, <2>2, <2>5
  <2> QED  BY <2>7, <2>9, <2>10, <2>11, <2>12
<1>23. /\ Len(toServer'[c]) <= Len(sent'[c])
       /\ \A j \in 1..Len(toServer'[c]) : toServer'[c][j] = sent'[c][Consumed(c)' + j]
       /\ mem'[c] = "none" => toServer'[c] = sent'[c]
  BY <1>2, <1>5, EmptySeq
<1> QED  BY <1>21, <1>22, <1>23 DEF Flow

\* A connection is accepted, in memory that holds s.
LEMMA FlowAccept ==
  ASSUME NEW c \in Clients, Base, Base', server = "rot13", server' = server, Flow(c),
         mem[c] = "none", mem'[c] = "live", got[c] = <<>>, toClient[c] = <<>>,
         sent'[c] = sent[c], got'[c] = got[c], toClient'[c] = toClient[c],
         toServer'[c] = toServer[c], start'[c] = state'[c]
  PROVE  Flow(c)'
<1>1. Pieces(c) /\ Pieces(c)'
  BY PiecesType, PiecesNext DEF AllPieces
<1>2. PICK s : s = state'[c]
  OBVIOUS
<1>3. PICK x : x = sent[c]
  OBVIOUS
<1>4. /\ s \in FdState /\ Memory(s) /\ x \in Seq(Texts) /\ Len(x) \in Nat
      /\ s.used \in Nat /\ s.written \in Nat
  BY <1>1, <1>2, <1>3, LenProperties, SMTT(20) DEF Pieces, FdState
<1>5. toServer[c] = x
  BY <1>3 DEF Flow
<1>6. Consumed(c)' = 0
  BY <1>3, <1>4, <1>5 DEF Consumed
<1>7. PICK T : T = Kept(s) \o Turned(x, 0, 0)
  OBVIOUS
<1>8. Taken(c)' = T
  BY <1>2, <1>3, <1>6, <1>7 DEF Taken, Kept, Turned, Text
<1>9. Turned(x, 0, 0) = <<>>
  <2>1. 0 \in 0..Len(x) /\ 0 \in 0..0 /\ 0 - 0 = 0
    BY <1>4
  <2>2. Turned(x, 0, 0) \in Seq(Chars) /\ Len(Turned(x, 0, 0)) = 0
    BY <1>4, <2>1, TurnedType
  <2> QED  BY <2>2, EmptySeq
<1>10. T = Kept(s) /\ T \in Seq(Chars)
  BY <1>4, <1>7, <1>9, KeptType, ConcatEmptySeq
<1>11. Chain(c)' = T \/ (~Active(c)' /\ Chain(c)' = <<>>)
  <2>1. Waiting(c)' = IF Active(c)' THEN T ELSE <<>>
    BY <1>2, <1>10 DEF Waiting, Kept, Text
  <2>2. (<<>> \o <<>>) \o T = T /\ (<<>> \o <<>>) \o <<>> = <<>>
    BY <1>10, ConcatEmptySeq, EmptySeq
  <2> QED  BY <2>1, <2>2 DEF Chain
<1>12. Begins(Chain(c)', T) /\ Chain(c)' \in Seq(Chars)
  <2>1. CASE Chain(c)' = T
    BY <1>10, <2>1, BeginsRefl
  <2>2. CASE Chain(c)' = <<>>
    <3>1. <<>> \in Seq(Chars) /\ Len(<<>>) = 0 /\ Len(T) \in Nat
      BY <1>10, EmptySeq, LenProperties
    <3>2. Begins(<<>>, T)
      BY <3>1 DEF Begins
    <3> QED  BY <2>2, <3>1, <3>2
  <2> QED  BY <1>11, <2>1, <2>2
<1>13. IsSubsequence(Chain(c)', Taken(c)')
  BY <1>8, <1>10, <1>12, BeginsIsSubsequence
<1>14. state'[c].used <= start'[c].used + Consumed(c)'
  BY <1>2, <1>4, <1>6
<1>15. /\ Len(toServer'[c]) <= Len(sent'[c])
       /\ \A j \in 1..Len(toServer'[c]) : toServer'[c][j] = sent'[c][Consumed(c)' + j]
  BY <1>3, <1>4, <1>5, <1>6
<1> QED  BY <1>8, <1>11, <1>12, <1>13, <1>14, <1>15 DEF Flow

\* c types a character.
LEMMA FlowType ==
  ASSUME NEW c \in Clients, Base, Base', server = "rot13", server' = server, Flow(c),
         NEW ch \in Texts, sent'[c] = Append(sent[c], ch), toServer'[c] = Append(toServer[c], ch),
         UNCHANGED <<cpc, got, toClient, mem, state, start>>
  PROVE  Flow(c)'
<1>1. Pieces(c)
  BY PiecesType DEF AllPieces
<1>2. PICK x : x = sent[c]
  OBVIOUS
<1>3. PICK y : y = toServer[c]
  OBVIOUS
<1>4. PICK q : q = Consumed(c)
  OBVIOUS
<1>5. /\ x \in Seq(Texts) /\ y \in Seq(Texts) /\ Len(x) \in Nat /\ Len(y) \in Nat
      /\ Len(y) <= Len(x) /\ q = Len(x) - Len(y) /\ q \in 0..Len(x)
      /\ \A j \in 1..Len(y) : y[j] = x[q + j]
  <2>1. x \in Seq(Texts) /\ y \in Seq(Texts)
    BY <1>1, <1>2, <1>3 DEF Pieces
  <2>2. Len(x) \in Nat /\ Len(y) \in Nat
    BY <2>1, LenProperties
  <2>3. /\ Len(y) <= Len(x) /\ q = Len(x) - Len(y)
        /\ \A j \in 1..Len(y) : y[j] = x[q + j]
    BY <1>2, <1>3, <1>4 DEF Flow, Consumed
  <2> QED  BY <2>1, <2>2, <2>3, Difference
<1>6. PICK xx : xx = Append(x, ch)
  OBVIOUS
<1>7. PICK yy : yy = Append(y, ch)
  OBVIOUS
<1>8. /\ xx \in Seq(Texts) /\ Len(xx) = Len(x) + 1
      /\ \A i \in 1..(Len(x) + 1) : xx[i] = IF i <= Len(x) THEN x[i] ELSE ch
  BY <1>5, <1>6
<1>9. /\ Len(yy) = Len(y) + 1
      /\ \A i \in 1..(Len(y) + 1) : yy[i] = IF i <= Len(y) THEN y[i] ELSE ch
  BY <1>5, <1>7
<1>10. sent'[c] = xx /\ toServer'[c] = yy
  BY <1>2, <1>3, <1>6, <1>7
<1>11. Consumed(c)' = q
  BY <1>5, <1>8, <1>9, <1>10 DEF Consumed
<1>12. \A j \in 1..(Len(y) + 1) : yy[j] = xx[q + j]
  <2> TAKE j \in 1..(Len(y) + 1)
  <2>1. CASE j <= Len(y)
    <3>1. j \in 1..Len(y) /\ q + j <= Len(x) /\ q + j \in 1..(Len(x) + 1)
      BY <1>5, <2>1
    <3> QED  BY <1>5, <1>8, <1>9, <2>1, <3>1
  <2>2. CASE j > Len(y)
    <3>1. j = Len(y) + 1
      BY <1>5, <2>2, SMTT(20)
    <3>2. q + j = Len(x) + 1 /\ q + j \in 1..(Len(x) + 1)
      BY <1>5, <3>1
    <3> QED  BY <1>5, <1>8, <1>9, <3>1, <3>2
  <2> QED  BY <1>5, <2>1, <2>2
<1>13. Turned(xx, 0, q) = Turned(x, 0, q)
  <2>1. \A i \in 1..(q - 0) : xx[0 + i] = x[0 + i]
    BY <1>5, <1>8
  <2> QED  BY <2>1 DEF Turned
<1>14. Taken(c)' = Taken(c)
  BY <1>2, <1>4, <1>10, <1>11, <1>13 DEF Taken, Kept, Turned, Text
<1>15. Chain(c)' = Chain(c) /\ (Active(c)' <=> Active(c))
  BY DEF Chain, Waiting, Active, Left, Kept, Text
<1>16. NothingDropped(c)' => NothingDropped(c)
  <2>1. start[c].used \in Nat
    BY <1>1 DEF Pieces, FdState
  <2> QED  BY <1>2, <1>5, <1>8, <1>10, <2>1, Rot13Assumption DEF NothingDropped
<1>17. mem'[c] = "none" => toServer'[c] = sent'[c]
  BY DEF Flow
<1>18. Len(toServer'[c]) <= Len(sent'[c])
       /\ \A j \in 1..Len(toServer'[c]) : toServer'[c][j] = sent'[c][Consumed(c)' + j]
  BY <1>5, <1>8, <1>9, <1>10, <1>11, <1>12
<1>19. /\ IsSubsequence(Chain(c)', Taken(c)')
       /\ NothingDropped(c)' => Begins(Chain(c)', Taken(c)')
  BY <1>14, <1>15, <1>16 DEF Flow
<1>20. NothingDropped(c)' /\ Active(c)' => /\ Len(Chain(c)') = Len(Taken(c)')
                                           /\ state'[c].used <= start'[c].used + Consumed(c)'
  BY <1>4, <1>11, <1>14, <1>15, <1>16 DEF Flow
<1> QED  BY <1>17, <1>18, <1>19, <1>20 DEF Flow

LEMMA ClientFlow ==
  ASSUME Base, Base', server = "rot13", \A x \in Clients : Link(x) /\ Flow(x),
         NEW c \in Clients, ClientStep(c) \/ UserStep(c), ServersRest, NEW d \in Clients
  PROVE  Flow(d)'
<1>1. Pieces(d) /\ Pieces(c) /\ Places(c) /\ Flow(d) /\ Link(d)
  BY PiecesType DEF AllPieces, Base
<1>2. server' = server /\ UNCHANGED <<state, start, mem>>
  BY DEF ClientStep, UserStep, SendHello, ReadAck, Close, ReadText, Dial, Kill, Type,
     EndInput, Leave, CloseEnd, setting, ServersRest, rot13
<1>3. SocketsTypeOK
  BY DEF Base, TypeOK
<1>4. ASSUME UNCHANGED <<sent, toServer>>, Begins(Chain(d)', Chain(d)),
             Active(d)' => Active(d) /\ Chain(d)' = Chain(d)
      PROVE  Flow(d)'
  <2>1. state'[d].used <= state[d].used
    BY <1>1, <1>2, SMTT(20) DEF Pieces, FdState
  <2> QED  BY <1>1, <1>2, <1>4, <2>1, FlowCut
<1>5. ASSUME UNCHANGED <<sent, toServer>>, got'[d] = got[d], toClient'[d] = toClient[d],
             Active(d)' <=> Active(d)
      PROVE  Flow(d)'
  <2>1. Chain(d)' = Chain(d)
    BY <1>2, <1>5 DEF Chain, Waiting, Kept, Text
  <2>2. Begins(Chain(d)', Chain(d))
    BY <1>1, <2>1, BeginsRefl DEF Pieces
  <2> QED  BY <1>4, <1>5, <2>1, <2>2
<1>6. CASE Dial(c)
  <2>1. UNCHANGED <<sent, got, toServer, toClient>>
    BY <1>6 DEF Dial
  <2>2. Active(d)' <=> Active(d)
    <3>1. CASE d = c
      <4>1. mem[d] = "none"
        BY <1>1, <1>6, <3>1 DEF Dial, Link
      <4> QED  BY <1>2, <4>1 DEF Active
    <3>2. CASE d # c
      BY <1>2, <1>3, <1>6, <3>2 DEF Dial, At, Active, Left, SocketsTypeOK
    <3> QED  BY <3>1, <3>2
  <2> QED  BY <1>5, <2>1, <2>2
<1>7. CASE Type(c)
  <2>1. PICK ch \in Typed(c) :
          /\ sent' = [sent EXCEPT ![c] = Append(@, ch)]
          /\ toServer' = [toServer EXCEPT ![c] = Append(@, ch)]
          /\ UNCHANGED <<cpc, got, toClient>>
    BY <1>7 DEF Type
  <2>2. ch \in Texts
    BY DEF Texts
  <2>3. CASE d = c
    <3>1. sent'[c] = Append(sent[c], ch) /\ toServer'[c] = Append(toServer[c], ch)
      BY <1>3, <2>1 DEF SocketsTypeOK
    <3> QED  BY <1>1, <1>2, <2>1, <2>2, <2>3, <3>1, FlowType
  <2>4. CASE d # c
    <3>1. sent'[d] = sent[d] /\ toServer'[d] = toServer[d]
      BY <1>3, <2>1, <2>4 DEF SocketsTypeOK
    <3>2. Chain(d)' = Chain(d) /\ (Active(d)' <=> Active(d))
      BY <1>2, <2>1 DEF Chain, Waiting, Active, Left, Kept, Text
    <3>3. Begins(Chain(d)', Chain(d)) /\ state'[d].used <= state[d].used
      BY <1>1, <1>2, <3>2, BeginsRefl, SMTT(20) DEF Pieces, FdState
    <3> QED  BY <1>1, <1>2, <3>1, <3>2, <3>3, FlowCut
  <2> QED  BY <2>3, <2>4
<1>8. CASE ReadText(c)
  <2>1. /\ toClient[c] # <<>> /\ UNCHANGED <<sent, cpc, toServer>>
        /\ got' = [got EXCEPT ![c] = Append(@, Head(toClient[c]))]
        /\ toClient' = [toClient EXCEPT ![c] = Tail(@)]
    BY <1>8 DEF ReadText
  <2>2. Active(d)' <=> Active(d)
    BY <1>2, <2>1 DEF Active, Left
  <2>3. CASE d = c
    <3>1. PICK g \in Seq(Chars), t \in Seq(Chars) : g = got[c] /\ t = toClient[c]
      BY <1>1 DEF Pieces
    <3>2. Append(g, Head(t)) \o Tail(t) = g \o t
      <4>1. t # <<>>
        BY <2>1, <3>1
      <4> QED  BY <4>1
    <3>3. got'[c] = Append(g, Head(t)) /\ toClient'[c] = Tail(t)
      BY <1>3, <2>1, <3>1 DEF SocketsTypeOK
    <3>4. Chain(d)' = Chain(d)
      BY <1>2, <2>2, <2>3, <3>1, <3>2, <3>3 DEF Chain, Waiting, Kept, Text
    <3>5. Begins(Chain(d)', Chain(d))
      BY <1>1, <3>4, BeginsRefl DEF Pieces
    <3> QED  BY <1>4, <2>1, <2>2, <3>4, <3>5
  <2>4. CASE d # c
    BY <1>3, <1>5, <2>1, <2>2, <2>4 DEF SocketsTypeOK
  <2> QED  BY <2>3, <2>4
<1>9. CASE EndInput(c)
  <2>1. UNCHANGED <<sent, got, toServer, toClient>>
    BY <1>9 DEF EndInput
  <2>2. Active(d)' <=> Active(d)
    BY <1>2, <1>3, <1>9 DEF EndInput, At, Active, Left, SocketsTypeOK
  <2> QED  BY <1>5, <2>1, <2>2
<1>10. CASE Leave(c)
  <2>1. /\ UNCHANGED <<sent, got, toServer>> /\ cpc' = [cpc EXCEPT ![c] = "done"]
        /\ toClient' = [toClient EXCEPT ![c] = <<>>]
    BY <1>10 DEF Leave, CloseEnd, At
  <2>2. CASE d = c
    <3>1. toClient'[d] = <<>> /\ ~Active(d)'
      BY <1>3, <2>1, <2>2 DEF Active, Left, SocketsTypeOK
    <3>2. Chain(d)' = got[d]
      <4>1. Chain(d)' = (got[d] \o <<>>) \o <<>>
        BY <2>1, <3>1 DEF Chain, Waiting
      <4> QED  BY <1>1, <4>1, ConcatEmptySeq DEF Pieces
    <3>3. Begins(got[d], Chain(d))
      <4>1. Begins(got[d], got[d] \o toClient[d])
        BY <1>1, BeginsWith DEF Pieces
      <4>2. Begins(got[d] \o toClient[d], Chain(d)) /\ got[d] \o toClient[d] \in Seq(Chars)
        BY <1>1, BeginsWith, ConcatProperties DEF Pieces, Chain
      <4> QED  BY <1>1, <4>1, <4>2, BeginsTrans DEF Pieces
    <3> QED  BY <1>4, <2>1, <3>1, <3>2, <3>3
  <2>3. CASE d # c
    <3>1. toClient'[d] = toClient[d] /\ (Active(d)' <=> Active(d))
      BY <1>2, <1>3, <2>1, <2>3 DEF SocketsTypeOK, Active, Left
    <3> QED  BY <1>5, <2>1, <3>1
  <2> QED  BY <2>2, <2>3
<1> QED
  BY <1>1, <1>6, <1>7, <1>8, <1>9, <1>10 DEF ClientStep, UserStep, Places, SendHello, ReadAck,
     Close, Kill

LEMMA Rot13Flow ==
  ASSUME Base, Base', \A x \in Clients : Link(x) /\ Flow(x), Rot13Step, UNCHANGED batch,
         NEW d \in Clients
  PROVE  Flow(d)'
<1>1. SocketsTypeOK /\ Rot13TypeOK /\ server = "rot13" /\ server' = server
      /\ UNCHANGED <<cpc, sent, got>>
  BY DEF Base, TypeOK, Rot13Step, DoAccept, DoRead, DoWrite, Rot13Run, setting, client
<1>2. Pieces(d) /\ Flow(d) /\ Link(d)
  BY PiecesType DEF AllPieces
<1>3. state[d].used <= state[d].used
  BY <1>2 DEF Pieces, FdState
<1>4. ASSUME toServer'[d] = toServer[d], toClient'[d] = toClient[d], start'[d] = start[d],
             mem'[d] = "none" => mem[d] = "none", Active(d)' <=> Active(d),
             Active(d) => state'[d] = state[d]
      PROVE  Flow(d)'
  <2>1. Chain(d)' = Chain(d)
    BY <1>1, <1>4 DEF Chain, Waiting, Kept, Text
  <2>2. Begins(Chain(d)', Chain(d))
    BY <1>2, <2>1, BeginsRefl DEF Pieces
  <2>3. Active(d)' => Active(d) /\ Chain(d)' = Chain(d) /\ state'[d].used <= state[d].used
    BY <1>3, <1>4, <2>1
  <2> QED  BY <1>1, <1>2, <1>4, <2>2, <2>3, FlowCut
<1>5. CASE DoAccept
  <2>1. UNCHANGED <<toServer, toClient, end>>
    BY <1>5 DEF DoAccept
  <2>2. PICK c \in Backlog :
       \/ UNCHANGED rot13
       \/ \E x \in {c} \cup {y \in Clients : mem[y] = "freed"} :
            /\ mem' = [mem EXCEPT ![x] = "reused", ![c] = "live"]
            /\ LET s == [state[x] EXCEPT !.pending = FALSE] IN
                 /\ state' = [state EXCEPT ![c] = s]
                 /\ start' = [start EXCEPT ![c] = s]
    BY <1>5 DEF DoAccept
  <2>3. CASE UNCHANGED rot13
    BY <1>1, <1>4, <2>1, <2>3 DEF rot13, Active, Left
  <2>4. ASSUME NEW x \in {c} \cup {y \in Clients : mem[y] = "freed"},
            mem' = [mem EXCEPT ![x] = "reused", ![c] = "live"],
            state' = [state EXCEPT ![c] = [state[x] EXCEPT !.pending = FALSE]],
            start' = [start EXCEPT ![c] = [state[x] EXCEPT !.pending = FALSE]]
        PROVE Flow(d)'
    <3>1. c \in Clients /\ conn[c] = "backlog" /\ x \in Clients
      BY <2>2 DEF Backlog
    <3>2. CASE d = c
      <4>1. mem[d] = "none" /\ toClient[d] = <<>> /\ got[d] = <<>>
        BY <1>2, <3>1, <3>2 DEF Link
      <4>2. mem'[d] = "live" /\ start'[d] = state'[d]
        BY <1>1, <2>4, <3>1, <3>2 DEF Rot13TypeOK
      <4> QED  BY <1>1, <1>2, <2>1, <4>1, <4>2, FlowAccept
    <3>3. CASE d # c
      <4>1. state'[d] = state[d] /\ start'[d] = start[d]
        BY <1>1, <2>4, <3>1, <3>3 DEF Rot13TypeOK
      <4>2. mem'[d] = mem[d] \/ (mem[d] = "freed" /\ mem'[d] = "reused")
        BY <1>1, <2>4, <3>1, <3>3 DEF Rot13TypeOK
      <4>3. Active(d)' <=> Active(d)
        BY <1>1, <4>2 DEF Active, Left
      <4> QED  BY <1>4, <2>1, <4>1, <4>2, <4>3
    <3> QED  BY <3>2, <3>3
  <2> QED  BY <2>2, <2>3, <2>4
<1>6. ASSUME NEW c \in Clients, DoRead(c) PROVE Flow(d)'
  <2>1. /\ mem[c] = "live" /\ UNCHANGED <<toClient, start>>
        /\ toServer' = [toServer EXCEPT ![c] = <<>>]
        /\ state' = [state EXCEPT ![c] = Put(@, toServer[c])]
        /\ mem' = mem \/ mem' = [mem EXCEPT ![c] = "freed"]
    BY <1>6 DEF DoRead, Free
  <2>2. CASE d = c
    <3>1. /\ toServer'[d] = <<>> /\ state'[d] = Put(state[d], toServer[d])
          /\ mem'[d] \in {"live", "freed"}
      BY <1>1, <2>1, <2>2 DEF SocketsTypeOK, Rot13TypeOK
    <3>2. CASE Active(d)'
      <4>1. Active(d)
        BY <1>1, <2>1, <2>2, <3>2 DEF Active, Left
      <4> QED  BY <1>1, <1>2, <2>1, <3>1, <3>2, <4>1, FlowRead
    <3>3. CASE ~Active(d)'
      <4>1. Chain(d)' = (got[d] \o toClient[d]) \o <<>>
        BY <1>1, <2>1, <3>3 DEF Chain, Waiting
      <4>2. PICK g : g = got[d] \o toClient[d]
        OBVIOUS
      <4>3. g \in Seq(Chars) /\ Waiting(d) \in Seq(Chars)
        BY <1>2, <4>2, ConcatProperties DEF Pieces
      <4>4. Chain(d)' = g /\ Chain(d) = g \o Waiting(d)
        BY <4>1, <4>2, <4>3, ConcatEmptySeq DEF Chain
      <4>5. Begins(Chain(d)', Chain(d))
        BY <4>3, <4>4, BeginsWith
      <4> QED  BY <1>1, <1>2, <2>1, <3>1, <3>3, <4>5, FlowCut
    <3> QED  BY <3>2, <3>3
  <2>3. CASE d # c
    <3>1. toServer'[d] = toServer[d] /\ state'[d] = state[d] /\ mem'[d] = mem[d]
      BY <1>1, <2>1, <2>3 DEF SocketsTypeOK, Rot13TypeOK
    <3> QED  BY <1>1, <1>4, <2>1, <3>1 DEF Active, Left
  <2> QED  BY <2>2, <2>3
<1>7. ASSUME NEW c \in Clients, DoWrite(c) PROVE Flow(d)'
  <2>1. mem[c] = "live" /\ UNCHANGED <<start, toServer>>
        /\ (SendText(c) \/ SendError(c) \/ SendFatal(c))
    BY <1>7 DEF DoWrite
  <2>2. CASE SendText(c)
    <3>1. PICK k \in 1..Len(Todo(c)) :
            /\ Write(c, SubSeq(Todo(c), 1, k))
            /\ state' = [state EXCEPT ![c] = Wrote(@, k)]
            /\ UNCHANGED <<srv, conn, mem>>
      BY <2>2 DEF SendText
    <3>2. toClient' = IF Left(c) THEN toClient
                      ELSE [toClient EXCEPT ![c] = @ \o SubSeq(Todo(c), 1, k)]
      BY <3>1 DEF Write
    <3>3. Active(d)' <=> Active(d)
      BY <1>1, <3>1 DEF Active, Left
    <3>4. CASE d # c
      <4>1. toClient'[d] = toClient[d] /\ state'[d] = state[d]
        BY <1>1, <3>1, <3>2, <3>4 DEF SocketsTypeOK, Rot13TypeOK
      <4> QED  BY <1>4, <2>1, <3>1, <3>3, <4>1
    <3>5. CASE d = c /\ Left(d)
      BY <1>4, <2>1, <3>1, <3>2, <3>3, <3>5 DEF Active
    <3>6. CASE d = c /\ ~Left(d)
      <4>1. PICK s \in FdState : s = state[d] /\ Memory(s)
        BY <1>2 DEF Pieces
      <4>2. s.used \in Nat /\ s.upto \in Nat /\ s.written \in Nat
        BY <4>1 DEF FdState
      <4>3. k \in 1..(s.upto - s.written)
        <5>1. Len(Text(s, s.written, s.upto)) = s.upto - s.written
          BY <4>1, <4>2, TextToSend DEF Memory
        <5> QED  BY <3>1, <3>6, <4>1, <5>1 DEF Todo
      <4>4. PICK a : a = SubSeq(Text(s, s.written, s.upto), 1, k)
        OBVIOUS
      <4>5. PICK t : t = Wrote(s, k)
        OBVIOUS
      <4>6. a \in Seq(Chars) /\ Kept(s) = a \o Kept(t) /\ t.used <= s.used
        BY <4>1, <4>3, <4>4, <4>5, WroteText
      <4>7. t \in FdState /\ Memory(t)
        BY <4>1, <4>3, <4>5, WroteIndices
      <4>8. toClient'[d] = toClient[d] \o a /\ state'[d] = t
        BY <1>1, <3>1, <3>2, <3>6, <4>1, <4>4, <4>5 DEF SocketsTypeOK, Rot13TypeOK, Todo
      <4>9. Active(d) /\ Active(d)'
        BY <2>1, <3>3, <3>6 DEF Active
      <4>10. PICK g \in Seq(Chars), w \in Seq(Chars) : g = got[d] /\ w = toClient[d]
        BY <1>2 DEF Pieces
      <4>11. PICK b : b = Kept(t)
        OBVIOUS
      <4>12. PICK wa : wa = w \o a
        OBVIOUS
      <4>13. PICK gw, ab : gw = g \o w /\ ab = a \o b
        OBVIOUS
      <4>14. /\ Chain(d)' = (g \o wa) \o b /\ Chain(d) = gw \o ab
             /\ (g \o wa) \o b = gw \o ab
        <5>1. Chain(d)' = (g \o wa) \o b
          BY <1>1, <4>8, <4>9, <4>10, <4>11, <4>12 DEF Chain, Waiting, Kept, Text
        <5>2. Chain(d) = gw \o ab
          BY <4>1, <4>6, <4>9, <4>10, <4>11, <4>13 DEF Chain, Waiting
        <5>3. b \in Seq(Chars)
          BY <4>7, <4>11, KeptType
        <5>4. a \in Seq(Chars) /\ g \in Seq(Chars) /\ w \in Seq(Chars)
          BY <4>6
        <5>5. wa = w \o a /\ gw = g \o w /\ ab = a \o b
          BY <4>12, <4>13
        <5>6. gw \o a = g \o wa
          BY <5>4, <5>5, ConcatAssociative
        <5>7. gw \in Seq(Chars)
          BY <5>4, <5>5, ConcatProperties
        <5>8. (gw \o a) \o b = gw \o ab
          <6>1. (gw \o a) \o b = gw \o (a \o b)
            BY <5>3, <5>4, <5>7, ConcatAssociative, SMTT(20)
          <6> QED  BY <5>5, <6>1
        <5> QED  BY <5>1, <5>2, <5>6, <5>8
      <4>15. Chain(d)' = Chain(d)
        BY <4>14
      <4>16. Begins(Chain(d)', Chain(d))
        BY <1>2, <4>15, BeginsRefl DEF Pieces
      <4>17. state'[d].used <= state[d].used
        BY <4>1, <4>6, <4>8
      <4> QED  BY <1>1, <1>2, <2>1, <3>1, <4>9, <4>15, <4>16, <4>17, FlowCut
    <3> QED  BY <3>4, <3>5, <3>6
  <2>3. CASE SendError(c)
    <3>1. /\ Write(c, <<>>) /\ mem' = [mem EXCEPT ![c] = "freed"] /\ UNCHANGED state
      BY <2>3 DEF SendError, Free
    <3>2. toClient' = toClient
      <4>1. toClient[c] \o <<>> = toClient[c]
        BY PiecesType, ConcatEmptySeq DEF AllPieces, Pieces
      <4> QED  BY <1>1, <3>1, <4>1 DEF Write, SocketsTypeOK
    <3>3. CASE d = c
      <4>1. mem'[d] = "freed" /\ ~Active(d)'
        BY <1>1, <3>1, <3>3 DEF Rot13TypeOK, Active
      <4>2. Chain(d)' = (got[d] \o toClient[d]) \o <<>>
        BY <1>1, <3>2, <4>1 DEF Chain, Waiting
      <4>3. PICK g : g = got[d] \o toClient[d]
        OBVIOUS
      <4>4. g \in Seq(Chars) /\ Waiting(d) \in Seq(Chars)
        BY <1>2, <4>3, ConcatProperties DEF Pieces
      <4>5. Chain(d)' = g /\ Chain(d) = g \o Waiting(d)
        BY <4>2, <4>3, <4>4, ConcatEmptySeq DEF Chain
      <4>6. Begins(Chain(d)', Chain(d))
        BY <4>4, <4>5, BeginsWith
      <4> QED  BY <1>1, <1>2, <2>1, <4>1, <4>6, FlowCut
    <3>4. CASE d # c
      <4>1. mem'[d] = mem[d]
        BY <1>1, <3>1, <3>4 DEF Rot13TypeOK
      <4> QED  BY <1>1, <1>4, <2>1, <3>1, <3>2, <4>1 DEF Active, Left
    <3> QED  BY <3>3, <3>4
  <2>4. CASE SendFatal(c)
    BY <1>1, <1>4, <2>1, <2>4 DEF SendFatal, Active, Left
  <2> QED  BY <2>1, <2>2, <2>3, <2>4
<1> QED  BY <1>5, <1>6, <1>7 DEF Rot13Step

LEMMA InitFlow == Init => \A c \in Clients : Flow(c)
<1> SUFFICES ASSUME Init, NEW c \in Clients PROVE Flow(c)
  OBVIOUS
<1>1. Pieces(c)
  BY InitBase, PiecesType DEF AllPieces
<1>2. /\ sent[c] = <<>> /\ got[c] = <<>> /\ toServer[c] = <<>> /\ toClient[c] = <<>>
      /\ mem[c] = "none"
  BY DEF Init, SocketsInit, Rot13Init
<1>3. Consumed(c) = 0
  BY <1>2, EmptySeq DEF Consumed
<1>4. Waiting(c) = <<>> /\ ~Active(c)
  BY <1>2 DEF Waiting, Active
<1>5. Chain(c) = <<>>
  BY <1>2, <1>4, ConcatEmptySeq, EmptySeq DEF Chain
<1>6. Taken(c) \in Seq(Chars)
  <2>1. Len(sent[c]) = 0 /\ 0 \in 0..Len(sent[c]) /\ 0 \in 0..0
    BY <1>2, EmptySeq
  <2> QED  BY <1>1, <1>3, <2>1, TakenText DEF Pieces, Taken
<1>7. Begins(Chain(c), Taken(c))
  BY <1>5, <1>6, EmptySeq, LenProperties DEF Begins
<1>8. IsSubsequence(Chain(c), Taken(c))
  BY <1>1, <1>6, <1>7, BeginsIsSubsequence DEF Pieces
<1> QED  BY <1>2, <1>4, <1>7, <1>8, EmptySeq DEF Flow

LEMMA TextStep == TextInv /\ [Next]_vars => TextInv'
<1> SUFFICES ASSUME TextInv, [Next]_vars PROVE TextInv'
  OBVIOUS
<1>1. ClosingInv /\ Base /\ ClosingInv' /\ Base'
  BY ClosingStep DEF TextInv, ClosingInv
<1>2. SUFFICES ASSUME NEW d \in Clients, server' = "rot13" PROVE Flow(d)'
  BY <1>1 DEF TextInv
<1>3. CASE UNCHANGED vars
  <2>1. /\ server' = server /\ cpc' = cpc /\ sent' = sent /\ got' = got
        /\ toServer' = toServer /\ toClient' = toClient
        /\ mem' = mem /\ state' = state /\ start' = start
    BY <1>3 DEF vars, sockVars, setting, client, net, rot13
  <2>2. Pieces(d) /\ Flow(d)
    BY <1>1, <1>2, <2>1, PiecesType DEF AllPieces, TextInv
  <2>3. (Active(d)' <=> Active(d)) /\ Chain(d)' = Chain(d)
    BY <2>1 DEF Chain, Waiting, Active, Left, Kept, Text
  <2>4. Begins(Chain(d)', Chain(d)) /\ state'[d].used <= state[d].used
    BY <2>1, <2>2, <2>3, BeginsRefl DEF Pieces, FdState
  <2> QED  BY <1>1, <1>2, <2>1, <2>2, <2>3, <2>4, FlowCut
<1>4. CASE ServerStep
  <2>1. server = "rot13"
    BY <1>2, <1>4 DEF ServerStep, EpollStep, EpollWait, AcceptClient, Forget, Answer,
       Rot13Step, DoAccept, DoRead, DoWrite, setting
  <2>2. Rot13Step /\ UNCHANGED batch
    BY <1>4, <2>1 DEF ServerStep, EpollStep, EpollWait, AcceptClient, Forget, Answer, EpollRun
  <2>3. \A x \in Clients : Link(x) /\ Flow(x)
    BY <2>1 DEF TextInv, ClosingInv, Visits
  <2> QED  BY <1>1, <2>2, <2>3, Rot13Flow
<1>5. ASSUME NEW c \in Clients, ClientStep(c) \/ UserStep(c), ServersRest PROVE Flow(d)'
  <2>1. server = "rot13"
    BY <1>2, <1>5 DEF ClientStep, UserStep, SendHello, ReadAck, Close, ReadText, Dial, Kill,
       Type, EndInput, Leave, CloseEnd, setting
  <2>2. \A x \in Clients : Link(x) /\ Flow(x)
    BY <2>1 DEF TextInv, ClosingInv, Visits
  <2> QED  BY <1>1, <1>5, <2>1, <2>2, ClientFlow
<1> QED  BY <1>3, <1>4, <1>5 DEF Next, ServersRest

LEMMA TextHolds == Spec => []TextInv
<1>1. Init => ClosingInv
  BY InitBase, InitVisits DEF ClosingInv, ClosingIsSafe, Init, SocketsInit
<1>2. Init => TextInv
  BY <1>1, InitFlow DEF TextInv
<1> QED  BY <1>2, TextStep, PTL DEF Spec

\* What a client of the rot13 server has read is its own text, translated and in
\* order, after what the memory of its connection may have held; where something
\* is missing there had been more than the buffer could take.
THEOREM TextInOrderHolds == Spec => []TextInOrder
<1>1. ASSUME TextInv PROVE TextInOrder
  <2> SUFFICES ASSUME NEW c \in Clients, server = "rot13"
               PROVE  IF NothingDropped(c) THEN IsPrefix(got[c], Due(c))
                                           ELSE IsSubsequence(got[c], Due(c))
    BY DEF TextInOrder
  <2>1. Pieces(c) /\ Flow(c)
    BY <1>1, PiecesType DEF TextInv, ClosingInv, AllPieces
  <2>2. PICK x \in Seq(Texts) : x = sent[c]
    BY <2>1 DEF Pieces
  <2>3. Len(x) \in Nat /\ Consumed(c) \in 0..Len(x)
    <3>1. toServer[c] \in Seq(Texts) /\ Len(toServer[c]) <= Len(x)
      BY <2>1, <2>2 DEF Pieces, Flow
    <3>2. Len(x) \in Nat /\ Len(toServer[c]) \in Nat
      BY <3>1, LenProperties
    <3> QED  BY <2>2, <3>1, <3>2, Difference DEF Consumed
  <2>4. Due(c) = Kept(start[c]) \o Turned(x, 0, Len(x))
    <3>1. Turned(x, 0, Len(x)) = [i \in 1..Len(x) |-> Rot13Char(x[i])]
      BY <2>3 DEF Turned
    <3> QED  BY <2>2, <3>1 DEF Due, Leftover, Kept
  <2>5. /\ Due(c) \in Seq(Chars) /\ Taken(c) \in Seq(Chars) /\ Begins(Taken(c), Due(c))
    <3>1. Len(x) \in 0..Len(x) /\ Consumed(c) \in 0..Len(x)
          /\ Consumed(c) \in 0..Consumed(c)
      BY <2>3
    <3>2. start[c] \in FdState /\ Memory(start[c])
      BY <2>1 DEF Pieces
    <3>3. /\ Kept(start[c]) \o Turned(x, 0, Len(x)) \in Seq(Chars)
          /\ Begins(Kept(start[c]) \o Turned(x, 0, Consumed(c)),
                    Kept(start[c]) \o Turned(x, 0, Len(x)))
      BY <3>1, <3>2, TakenText
    <3>4. Kept(start[c]) \o Turned(x, 0, Consumed(c)) \in Seq(Chars)
      BY <3>1, <3>2, TakenText
    <3> QED  BY <2>2, <2>4, <3>3, <3>4 DEF Taken
  <2>6. got[c] \in Seq(Chars) /\ Chain(c) \in Seq(Chars) /\ Begins(got[c], Chain(c))
    <3>1. Begins(got[c], got[c] \o toClient[c])
      BY <2>1, BeginsWith DEF Pieces
    <3>2. Begins(got[c] \o toClient[c], Chain(c)) /\ got[c] \o toClient[c] \in Seq(Chars)
      BY <2>1, BeginsWith, ConcatProperties DEF Pieces, Chain
    <3> QED  BY <2>1, <3>1, <3>2, BeginsTrans DEF Pieces
  <2>7. CASE NothingDropped(c)
    <3>1. Begins(Chain(c), Taken(c))
      BY <2>1, <2>7 DEF Flow
    <3>2. Begins(got[c], Due(c))
      BY <2>5, <2>6, <3>1, BeginsTrans
    <3> QED  BY <2>5, <2>6, <2>7, <3>2, BeginsIsPrefix
  <2>8. CASE ~NothingDropped(c)
    <3>1. IsSubsequence(Chain(c), Taken(c))
      BY <2>1 DEF Flow
    <3>2. IsSubsequence(got[c], Due(c))
      BY <2>5, <2>6, <3>1, SubsequenceCut
    <3> QED  BY <2>8, <3>2
  <2> QED  BY <2>7, <2>8
<1> QED  BY <1>1, TextHolds, PTL
=============================================================================
