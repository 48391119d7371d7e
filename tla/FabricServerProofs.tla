------------------------- MODULE FabricServerProofs -------------------------
(***************************************************************************)
(* Theorems about FabricServer, for any finite set of clients and any set  *)
(* of faults.                                                              *)
(*                                                                         *)
(* The server never compares the connection of an event with ep, so that   *)
(* the event is the right one must follow from what can be in its event    *)
(* queue where it reads it.  The invariant says that for every kind of     *)
(* event, and, as long as no clients have overlapped, the whole content of *)
(* the queue.                                                              *)
(***************************************************************************)
EXTENDS FabricServer, SequenceTheorems, TLAPS

Kinds == {"CONNREQ", "CONNECTED", "SHUTDOWN", "error"}
Events == [kind : Kinds, from : Clients]

TypeOK ==
  /\ at \in {"init", "connreq", "accept", "connected", "send", "sent", "shutdown",
             "ended", "failed"}
  /\ eq \in Seq(Events)
  /\ entry \in Clients \cup {None}
  /\ ep \in Clients \cup {None}
  /\ open \subseteq Clients
  /\ scq \in {"none", "ok", "error"}
  /\ sending \in Clients \cup {None}
  /\ cpc \in [Clients -> {"off", "recv", "connect", "connected", "keys", "reading",
                          "stuck", "done", "ended"}]
  /\ posted \in [Clients -> BOOLEAN]
  /\ ccq \in [Clients -> BOOLEAN]
  /\ link \in [Clients -> {"none", "requested", "accepted", "down"}]
  /\ told \in [Clients -> SUBSET {"client", "server"}]
  /\ disturbed \in BOOLEAN

Queued(k, c) == \E i \in 1..Len(eq) : eq[i] = Event(k, c)

\* No event is reported twice.
Distinct == \A i, j \in 1..Len(eq) : eq[i] = eq[j] => i = j

\* The server has accepted a connection whose end it has not read yet.
Serving == at \in {"connected", "send", "sent", "shutdown"}

\* How far a client has come and what has become of its connection.
Stage(c) ==
  /\ cpc[c] \in {"off", "recv", "connect"} => link[c] = "none"
  /\ cpc[c] = "connected" => link[c] \in {"requested", "accepted"}
  /\ cpc[c] \in {"keys", "reading", "stuck"} => link[c] = "accepted"
  /\ link[c] = "requested" => cpc[c] = "connected"
  /\ link[c] \in {"none", "requested"} => told[c] = {} /\ ~ ccq[c]
  /\ link[c] = "none" => c \notin {entry, ep} /\ \A k \in Kinds : ~ Queued(k, c)
  /\ Queued("CONNREQ", c) => link[c] \in {"requested", "down"} /\ told[c] = {}

\* The keys are on their way, or have arrived, while the client is served.
Keys(c) ==
  /\ sending = c => at = "sent" /\ c = ep /\ scq = "none" /\ ~ ccq[c]
                   /\ cpc[c] \notin {"reading", "stuck"}
  /\ ccq[c] \/ cpc[c] \in {"reading", "stuck"}
       => "client" \in told[c] /\ (c = ep /\ Serving => at \in {"sent", "shutdown"})

\* Whose connection exists, and whose events can be in the queue.
Current(c) ==
  ~ Gone =>
    /\ link[c] = "accepted" => c = ep /\ Serving
    /\ Queued("CONNECTED", c) => c = ep /\ at = "connected" /\ "server" \in told[c]
    /\ Queued("SHUTDOWN", c) => c = ep /\ Serving /\ link[c] = "down" /\ "server" \in told[c]
    /\ Queued("error", c) => c = ep /\ at = "connected" /\ link[c] = "down"
                               /\ "server" \notin told[c]

Endpoint ==
  /\ at = "init" => open = {} /\ ep = None
  /\ at \in {"connreq", "accept"} => open = {} /\ (ep # None => link[ep] = "down")
  /\ at = "accept" => /\ entry # None
                      /\ link[entry] \in {"requested", "down"}
                      /\ told[entry] = {}
                      /\ ~ Queued("CONNREQ", entry)
  /\ Serving => ep # None /\ open = {ep}
  /\ at \in {"send", "sent", "shutdown"} => "server" \in told[ep]
  /\ scq # "none" => at = "sent"

\* What is in the queue as long as no clients have overlapped and none has left
\* while it was served.
Request(d) == link[d] = "requested" /\ eq = <<Event("CONNREQ", d)>>
LastOnes == \/ eq = <<Event("SHUTDOWN", ep)>>
            \/ \E d \in Clients : /\ link[d] = "requested"
                                  /\ eq = <<Event("SHUTDOWN", ep), Event("CONNREQ", d)>>
Undisturbed ==
  /\ at # "ended"
  /\ scq # "error"
  /\ at = "init" => eq = <<>>
  /\ at = "connreq" => eq = <<>> \/ \E d \in Clients : Request(d)
  /\ at = "accept" => eq = <<>> /\ link[entry] = "requested"
  /\ at = "connected" =>
       /\ link[ep] = "accepted"
       /\ eq = IF "server" \in told[ep] THEN <<Event("CONNECTED", ep)>> ELSE <<>>
  /\ at = "send" => eq = <<>> /\ link[ep] = "accepted"
  /\ at \in {"sent", "shutdown"} => \/ eq = <<>> /\ link[ep] = "accepted"
                                    \/ LastOnes /\ link[ep] = "down"
  /\ sending # None => link[sending] = "accepted"

\* The inductive invariant.
ServerInv == /\ TypeOK
             /\ Distinct
             /\ \A c \in Clients : Stage(c) /\ Keys(c) /\ Current(c)
             /\ Endpoint
             /\ disturbed \/ Undisturbed

-----------------------------------------------------------------------------
(* The queue: what an append and a read do to what is queued.              *)

LEMMA EventType ==
  /\ \A k \in Kinds, c \in Clients : Event(k, c) \in Events
  /\ \A k, l \in Kinds, c, d \in Clients : Event(k, c) = Event(l, d) <=> k = l /\ c = d
  /\ \A e \in Events : \E k \in Kinds, c \in Clients : e = Event(k, c)
BY DEF Event, Events

LEMMA ShortQueues ==
  ASSUME NEW e \in Events, NEW f \in Events
  PROVE  Append(<<>>, e) = <<e>> /\ Append(<<e>>, f) = <<e, f>>
<1>1. Append(<<e>>, f) \in Seq(Events) /\ <<e, f>> \in Seq(Events) /\ <<e>> \in Seq(Events)
  OBVIOUS
<1>2. Len(Append(<<e>>, f)) = 2 /\ Len(<<e, f>>) = 2
  OBVIOUS
<1>3. \A i \in 1..2 : Append(<<e>>, f)[i] = <<e, f>>[i]
  OBVIOUS
<1>4. Append(<<e>>, f) = <<e, f>>
  BY <1>1, <1>2, <1>3, SeqEqual
<1>5. Append(<<>>, e) = <<e>>
  OBVIOUS
<1> QED  BY <1>4, <1>5

LEMMA Appended ==
  ASSUME NEW k \in Kinds, NEW c \in Clients, eq \in Seq(Events), Distinct,
         ~ Queued(k, c), eq' = Append(eq, Event(k, c))
  PROVE  /\ eq' \in Seq(Events)
         /\ Distinct'
         /\ \A l \in Kinds, d \in Clients :
               Queued(l, d)' <=> Queued(l, d) \/ (l = k /\ d = c)
<1> DEFINE e == Event(k, c)
<1>1. e \in Events
  BY EventType
<1>2. eq' \in Seq(Events) /\ Len(eq') = Len(eq) + 1 /\ Len(eq) \in Nat
  BY <1>1
<1>3. \A i \in 1..Len(eq') : eq'[i] = IF i <= Len(eq) THEN eq[i] ELSE e
  BY <1>1, <1>2
<1>4. Distinct'
  BY <1>2, <1>3 DEF Distinct, Queued
<1>5. ASSUME NEW l \in Kinds, NEW d \in Clients
      PROVE  Queued(l, d)' <=> Queued(l, d) \/ (l = k /\ d = c)
  <2>1. Event(l, d) = e <=> l = k /\ d = c
    BY EventType
  <2>2. Queued(l, d)' <=> Queued(l, d) \/ Event(l, d) = e
    BY <1>2, <1>3 DEF Queued
  <2> QED  BY <2>1, <2>2
<1> QED  BY <1>2, <1>4, <1>5

LEMMA Taken ==
  ASSUME eq \in Seq(Events), Distinct, eq # <<>>, eq' = Tail(eq)
  PROVE  /\ eq' \in Seq(Events)
         /\ Distinct'
         /\ \E k \in Kinds, c \in Clients :
               /\ Head(eq) = Event(k, c)
               /\ Queued(k, c)
               /\ \A l \in Kinds, d \in Clients :
                     Queued(l, d)' <=> Queued(l, d) /\ ~ (l = k /\ d = c)
<1>1. eq' \in Seq(Events) /\ Len(eq') = Len(eq) - 1 /\ Len(eq) \in Nat \ {0}
  OBVIOUS
<1>2. \A i \in 1..Len(eq') : eq'[i] = eq[i + 1]
  OBVIOUS
<1>3. Head(eq) = eq[1] /\ eq[1] \in Events
  OBVIOUS
<1>4. Distinct'
  BY <1>1, <1>2 DEF Distinct
<1>5. PICK k \in Kinds, c \in Clients : Head(eq) = Event(k, c)
  BY <1>3, EventType
<1>6. Queued(k, c)
  BY <1>1, <1>3, <1>5 DEF Queued
<1>7. ASSUME NEW l \in Kinds, NEW d \in Clients
      PROVE  Queued(l, d)' <=> Queued(l, d) /\ ~ (l = k /\ d = c)
  <2>1. Event(l, d) = eq[1] <=> l = k /\ d = c
    <3>1. Event(l, d) = Event(k, c) <=> l = k /\ d = c
      BY DEF Event
    <3> QED  BY <3>1, <1>3, <1>5
  <2>2. ASSUME Queued(l, d)'  PROVE Queued(l, d) /\ Event(l, d) # eq[1]
    <3>1. PICK i \in 1..Len(eq') : eq'[i] = Event(l, d)
      BY <2>2 DEF Queued
    <3>2. i + 1 \in 1..Len(eq) /\ eq[i + 1] = Event(l, d) /\ i + 1 # 1 /\ 1 \in 1..Len(eq)
      BY <3>1, <1>1, <1>2
    <3> QED  BY <3>2 DEF Queued, Distinct
  <2>3. ASSUME Queued(l, d), Event(l, d) # eq[1]  PROVE Queued(l, d)'
    <3>1. PICK i \in 1..Len(eq) : eq[i] = Event(l, d)
      BY <2>3 DEF Queued
    <3>2. i # 1
      BY <3>1, <2>3
    <3>3. i - 1 \in 1..Len(eq') /\ eq'[i - 1] = Event(l, d)
      BY <3>1, <3>2, <1>1, <1>2
    <3> QED  BY <3>3 DEF Queued
  <2> QED  BY <2>1, <2>2, <2>3
<1> QED  BY <1>1, <1>4, <1>5, <1>6, <1>7

LEMMA Kept ==
  ASSUME UNCHANGED eq, Distinct
  PROVE  Distinct' /\ \A k, c : Queued(k, c)' <=> Queued(k, c)
BY DEF Distinct, Queued

LEMMA InitInv == Init => ServerInv
<1> SUFFICES ASSUME Init  PROVE ServerInv
  OBVIOUS
<1>1. \A k, c : ~ Queued(k, c)
  BY DEF Init, Queued
<1>2. TypeOK
  <2>1. eq \in Seq(Events)
    BY DEF Init
  <2>2. told \in [Clients -> SUBSET {"client", "server"}]
    BY DEF Init
  <2> QED  BY <2>1, <2>2 DEF Init, TypeOK
<1>3. Distinct
  BY DEF Init, Distinct
<1>4. \A c \in Clients : Stage(c) /\ Keys(c) /\ Current(c)
  BY <1>1, ServerAssumption DEF Init, Stage, Keys, Current
<1>5. Endpoint /\ Undisturbed
  BY <1>1 DEF Init, Endpoint, Undisturbed, Serving
<1> QED  BY <1>2, <1>3, <1>4, <1>5 DEF ServerInv

-----------------------------------------------------------------------------
(* Steps that leave the queue alone.                                       *)

\* The server's steps between its reads.
LEMMA ServerStep ==
  ASSUME ServerInv, Listen \/ SendKeys \/ ReadSent \/ CallFails
  PROVE  ServerInv'
<1> USE ServerAssumption DEF ServerInv, client
<1>1. UNCHANGED <<eq, cpc, posted, ccq, link, told, disturbed, entry, ep, open>>
  BY DEF Listen, SendKeys, ReadSent, CallFails
<1>2. Distinct' /\ \A k, c : Queued(k, c)' <=> Queued(k, c)
  BY <1>1, Kept
<1>3. TypeOK'
  BY <1>1 DEF TypeOK, Listen, SendKeys, ReadSent, CallFails
<1>4. ASSUME NEW c \in Clients  PROVE Stage(c)' /\ Keys(c)' /\ Current(c)'
  <2>1. Stage(c)'
    BY <1>1, <1>2 DEF Stage
  <2>2. Keys(c)'
    BY <1>1, <1>2 DEF TypeOK, Keys, Endpoint, Serving, Gone, Listen, SendKeys, ReadSent, CallFails
  <2>3. Current(c)'
    BY <1>1, <1>2 DEF TypeOK, Current, Serving, Gone, Listen, SendKeys, ReadSent, CallFails
  <2> QED  BY <2>1, <2>2, <2>3
<1>5. Endpoint'
  BY <1>1, <1>2 DEF TypeOK, Endpoint, Serving, Keys, Listen, SendKeys, ReadSent, CallFails
<1>6. disturbed' \/ Undisturbed'
  BY <1>1 DEF TypeOK, Undisturbed, Request, LastOnes, Endpoint, Serving, Listen, SendKeys, ReadSent, CallFails
<1> QED  BY <1>2, <1>3, <1>4, <1>5, <1>6

\* The client's steps on its own, and those of the fabric.
LEMMA QuietStep ==
  ASSUME ServerInv, NEW c \in Clients,
         \/ Start(c) \/ PostRecv(c) \/ ReadConnectedByClient(c) \/ ReadKeys(c) \/ ReadsFail(c)
         \/ TellClient(c) \/ Deliver(c) \/ SendFails(c)
  PROVE  ServerInv'
<1> USE ServerAssumption DEF ServerInv, client, server
<1>1. UNCHANGED <<eq, at, entry, ep, open, link, disturbed>>
  BY DEF Start, PostRecv, ReadConnectedByClient, ReadKeys, ReadsFail, TellClient, Deliver, SendFails
<1>2. Distinct' /\ \A k, d : Queued(k, d)' <=> Queued(k, d)
  BY <1>1, Kept
<1>3. TypeOK'
  <2>1. CASE TellClient(c)
    <3>1. told' \in [Clients -> SUBSET {"client", "server"}]
      BY <2>1 DEF TypeOK, TellClient
    <3> QED  BY <3>1, <2>1 DEF TypeOK, TellClient
  <2>2. CASE Deliver(c) \/ SendFails(c)
    BY <2>2 DEF TypeOK, Deliver, SendFails
  <2>3. CASE Start(c) \/ ReadConnectedByClient(c) \/ ReadsFail(c)
    BY <2>3 DEF TypeOK, Start, ReadConnectedByClient, ReadsFail
  <2>4. CASE PostRecv(c)
    BY <2>4 DEF TypeOK, PostRecv
  <2>5. CASE ReadKeys(c)
    BY <2>5 DEF TypeOK, ReadKeys
  <2> QED  BY <2>1, <2>2, <2>3, <2>4, <2>5
<1>4. ASSUME NEW d \in Clients  PROVE Stage(d)' /\ Keys(d)' /\ Current(d)'
  BY <1>1, <1>2
     DEF TypeOK, Stage, Keys, Current, Endpoint, Serving, Gone,
         Start, PostRecv, ReadConnectedByClient, ReadKeys, ReadsFail, TellClient, Deliver, SendFails
<1>5. Endpoint'
  BY <1>1, <1>2 DEF TypeOK, Endpoint, Serving, Keys, Stage,
         Start, PostRecv, ReadConnectedByClient, ReadKeys, ReadsFail, TellClient, Deliver, SendFails
<1>6. disturbed' \/ Undisturbed'
  BY <1>1 DEF TypeOK, Undisturbed, Request, LastOnes, Endpoint, Serving, Keys,
         Start, PostRecv, ReadConnectedByClient, ReadKeys, ReadsFail, TellClient, Deliver, SendFails
<1> QED  BY <1>2, <1>3, <1>4, <1>5, <1>6

-----------------------------------------------------------------------------
(* Steps that change the queue.                                            *)

\* What a read of the queue leaves alone, whatever the event.
LEMMA ReadCommon ==
  ASSUME ServerInv, ReadConnReq \/ ReadConnected \/ ReadShutdown
  PROVE  /\ UNCHANGED <<scq, sending, cpc, posted, ccq, link, told, disturbed, ep>>
         /\ eq # <<>> /\ eq' = Tail(eq)
         /\ entry' = Head(eq).from
         /\ at \in {"connreq", "connected", "shutdown"}
         /\ at' \in {"accept", "send", "connreq", "ended"}
         /\ open' \subseteq open
BY DEF ReadConnReq, ReadConnected, ReadShutdown, ReadEvent, client

LEMMA ReadStep ==
  ASSUME ServerInv, ReadConnReq \/ ReadConnected \/ ReadShutdown
  PROVE  ServerInv'
<1> USE ServerAssumption
<1>1. /\ UNCHANGED <<scq, sending, cpc, posted, ccq, link, told, disturbed, ep>>
      /\ eq # <<>> /\ eq' = Tail(eq)
      /\ entry' = Head(eq).from
      /\ at \in {"connreq", "connected", "shutdown"}
      /\ at' \in {"accept", "send", "connreq", "ended"}
      /\ open' \subseteq open
  BY ReadCommon
<1>2. TypeOK /\ Distinct /\ Endpoint /\ \A c \in Clients : Stage(c) /\ Keys(c) /\ Current(c)
  BY DEF ServerInv
<1>3. PICK k \in Kinds, c \in Clients :
        /\ Head(eq) = Event(k, c)
        /\ Queued(k, c)
        /\ \A l \in Kinds, d \in Clients :
              Queued(l, d)' <=> Queued(l, d) /\ ~ (l = k /\ d = c)
  BY <1>1, <1>2, Taken DEF TypeOK
<1>4. eq' \in Seq(Events) /\ Distinct'
  BY <1>1, <1>2, Taken DEF TypeOK
<1>5. entry' = c /\ Head(eq).kind = k
  BY <1>1, <1>3 DEF Event
<1>6. TypeOK'
  BY <1>1, <1>2, <1>4, <1>5 DEF TypeOK
<1>7. /\ at' = "accept" => at = "connreq" /\ k = "CONNREQ"
      /\ at' = "send" => at = "connected" /\ k = "CONNECTED"
      /\ at' = "connreq" => at = "shutdown" /\ k = "SHUTDOWN" /\ open' = open \ {ep}
      /\ at' # "connreq" => open' = open \/ at' = "ended"
      /\ at = "connreq" /\ k = "CONNREQ" => at' = "accept"
      /\ at = "connected" /\ k = "CONNECTED" => at' = "send"
      /\ at = "shutdown" /\ k = "SHUTDOWN" => at' = "connreq"
  BY <1>5 DEF ReadConnReq, ReadConnected, ReadShutdown, ReadEvent
<1>8. ASSUME NEW d \in Clients  PROVE Stage(d)'
  <2>1. link[c] # "none"
    BY <1>2, <1>3 DEF Stage
  <2>2. /\ \A l \in Kinds : Queued(l, d)' => Queued(l, d)
        /\ "CONNREQ" \in Kinds
    BY <1>3 DEF Kinds
  <2>3. Stage(d)
    BY <1>2
  <2>4. UNCHANGED <<cpc, link, told, ccq, ep>>
    BY <1>1
  <2> QED  BY <2>1, <2>2, <2>3, <2>4, <1>5 DEF Stage
<1>9. ASSUME NEW d \in Clients  PROVE Keys(d)'
  BY <1>1, <1>2, <1>7 DEF Keys, Serving, Current, Gone, TypeOK
<1>10. ASSUME NEW d \in Clients  PROVE Current(d)'
  <2>1. k = "CONNECTED" => ~ Queued("CONNECTED", d)' \/ at' = "ended"
    BY <1>1, <1>2, <1>3 DEF Current, Gone, Kinds
  <2>2. k = "SHUTDOWN" => ~ Queued("SHUTDOWN", d)' \/ at' = "ended"
    BY <1>1, <1>2, <1>3 DEF Current, Gone, Kinds
  <2> QED
    BY <1>1, <1>2, <1>3, <1>7, <2>1, <2>2 DEF Current, Gone, Serving, Endpoint, Kinds, TypeOK
<1>11. Endpoint'
  <2>1. at' = "accept" => ~ Queued("CONNREQ", c)' /\ link[c] \in {"requested", "down"} /\ told[c] = {}
    BY <1>2, <1>3, <1>7 DEF Stage, Kinds
  <2>2. at' = "send" => c = ep /\ "server" \in told[ep]
    BY <1>2, <1>3, <1>7 DEF Current, Gone
  <2>3. at' = "connreq" => c = ep /\ link[ep] = "down"
    BY <1>2, <1>3, <1>7 DEF Current, Gone
  <2> QED
    BY <1>1, <1>2, <1>5, <1>7, <2>1, <2>2, <2>3 DEF Endpoint, Serving, TypeOK
<1>12. ASSUME Undisturbed  PROVE Undisturbed'
  <2>1. CASE at = "connreq"
    <3>1. PICK d \in Clients : Request(d)
      BY <1>1, <1>12, <2>1 DEF Undisturbed
    <3>2. Head(eq) = Event("CONNREQ", d) /\ Tail(eq) = <<>>
      BY <3>1 DEF Request
    <3>3. k = "CONNREQ" /\ c = d
      BY <3>2, <1>3 DEF Event
    <3> QED  BY <1>1, <1>2, <1>5, <1>7, <1>12, <2>1, <3>1, <3>2, <3>3
             DEF Undisturbed, Request, Endpoint
  <2>2. CASE at = "connected"
    <3>1. eq = <<Event("CONNECTED", ep)>> /\ link[ep] = "accepted"
      BY <1>1, <1>12, <2>2 DEF Undisturbed
    <3>2. Head(eq) = Event("CONNECTED", ep) /\ Tail(eq) = <<>>
      BY <3>1
    <3>3. k = "CONNECTED"
      BY <3>2, <1>3 DEF Event
    <3> QED  BY <1>1, <1>2, <1>5, <1>7, <1>12, <2>2, <3>1, <3>2, <3>3
             DEF Undisturbed, Endpoint
  <2>3. CASE at = "shutdown"
    <3>1. LastOnes
      BY <1>1, <1>12, <2>3 DEF Undisturbed
    <3>2. Head(eq) = Event("SHUTDOWN", ep)
      BY <3>1 DEF LastOnes
    <3>3. Tail(eq) = <<>> \/ \E d \in Clients : link[d] = "requested" /\ Tail(eq) = <<Event("CONNREQ", d)>>
      <4>1. ASSUME NEW d \in Clients, eq = <<Event("SHUTDOWN", ep), Event("CONNREQ", d)>>
            PROVE  Tail(eq) = <<Event("CONNREQ", d)>>
        BY <4>1
      <4>2. eq = <<Event("SHUTDOWN", ep)>> => Tail(eq) = <<>>
        OBVIOUS
      <4> QED  BY <3>1, <4>1, <4>2 DEF LastOnes
    <3>4. k = "SHUTDOWN"
      BY <3>2, <1>3 DEF Event
    <3> QED  BY <1>1, <1>2, <1>5, <1>7, <1>12, <2>3, <3>2, <3>3, <3>4
             DEF Undisturbed, Endpoint, Request
  <2> QED  BY <1>1, <2>1, <2>2, <2>3
<1> QED  BY <1>1, <1>4, <1>6, <1>8, <1>9, <1>10, <1>11, <1>12 DEF ServerInv

LEMMA AcceptStep == ASSUME ServerInv, Accept  PROVE ServerInv'
<1> USE ServerAssumption
<1>1. /\ at = "accept" /\ at' = "connected" /\ ep' = entry /\ open' = open \cup {entry}
      /\ UNCHANGED <<entry, scq, sending, cpc, posted, ccq, told, disturbed>>
  BY DEF Accept, client
<1>2. TypeOK /\ Distinct /\ Endpoint /\ \A c \in Clients : Stage(c) /\ Keys(c) /\ Current(c)
  BY DEF ServerInv
<1>3. entry \in Clients /\ told[entry] = {} /\ ~ Queued("CONNREQ", entry) /\ open = {}
  BY <1>1, <1>2 DEF Endpoint, TypeOK
<1>4. \A c \in Clients : /\ ~ Queued("CONNECTED", c) /\ ~ Queued("SHUTDOWN", c)
                         /\ ~ Queued("error", c) /\ link[c] # "accepted"
  BY <1>1, <1>2 DEF Current, Gone, Serving
<1>5. \A c \in Clients : Keys(c)'
  <2> SUFFICES ASSUME NEW c \in Clients  PROVE Keys(c)'
    OBVIOUS
  <2> QED  BY <1>1, <1>2, <1>3 DEF Keys, TypeOK
<1>6. CASE link[entry] = "requested" /\ link' = [link EXCEPT ![entry] = "accepted"] /\ UNCHANGED eq
  <2>1. Distinct' /\ \A k, c : Queued(k, c)' <=> Queued(k, c)
    BY <1>2, <1>6, Kept
  <2>2. TypeOK'
    BY <1>1, <1>2, <1>3, <1>6 DEF TypeOK
  <2>3. ASSUME NEW c \in Clients  PROVE Stage(c)'
    BY <1>1, <1>2, <1>3, <1>6, <2>1, <2>3 DEF Stage, TypeOK
  <2>4. ASSUME NEW c \in Clients  PROVE Current(c)'
    BY <1>1, <1>2, <1>3, <1>4, <1>6, <2>1 DEF Current, Serving, TypeOK
  <2>5. Endpoint'
    BY <1>1, <1>2, <1>3 DEF Endpoint, Serving
  <2>6. Undisturbed => Undisturbed'
    BY <1>1, <1>2, <1>3, <1>6 DEF Undisturbed, TypeOK
  <2> QED  BY <1>1, <1>5, <2>1, <2>2, <2>3, <2>4, <2>5, <2>6 DEF ServerInv
<1>7. CASE link[entry] = "down" /\ eq' = Append(eq, Event("error", entry)) /\ UNCHANGED link
  <2>1. /\ eq' \in Seq(Events) /\ Distinct'
        /\ \A l \in Kinds, d \in Clients :
              Queued(l, d)' <=> Queued(l, d) \/ (l = "error" /\ d = entry)
    BY <1>2, <1>3, <1>4, <1>7, Appended DEF TypeOK, Kinds
  <2>2. TypeOK'
    BY <1>1, <1>2, <1>3, <1>7, <2>1 DEF TypeOK
  <2>3. ASSUME NEW c \in Clients  PROVE Stage(c)'
    BY <1>1, <1>2, <1>3, <1>7, <2>1, <2>3 DEF Stage, TypeOK, Kinds
  <2>4. ASSUME NEW c \in Clients  PROVE Current(c)'
    BY <1>1, <1>2, <1>3, <1>4, <1>7, <2>1 DEF Current, Serving, TypeOK, Kinds
  <2>5. Endpoint'
    BY <1>1, <1>2, <1>3 DEF Endpoint, Serving
  <2>6. ~ Undisturbed
    BY <1>1, <1>7 DEF Undisturbed
  <2> QED  BY <1>1, <1>5, <2>1, <2>2, <2>3, <2>4, <2>5, <2>6 DEF ServerInv
<1> QED  BY <1>6, <1>7 DEF Accept

LEMMA ConnectStep == ASSUME ServerInv, NEW c \in Clients, Connect(c)  PROVE ServerInv'
<1> USE ServerAssumption
<1>1. /\ cpc[c] = "connect" /\ Listening
      /\ cpc' = [cpc EXCEPT ![c] = "connected"]
      /\ link' = [link EXCEPT ![c] = "requested"]
      /\ eq' = Append(eq, Event("CONNREQ", c))
      /\ disturbed' = (disturbed \/ Overlaps(c))
      /\ UNCHANGED <<at, entry, ep, open, scq, sending, posted, ccq, told>>
  BY DEF Connect, server
<1>2. TypeOK /\ Distinct /\ Endpoint /\ \A d \in Clients : Stage(d) /\ Keys(d) /\ Current(d)
  BY DEF ServerInv
<1>3. /\ link[c] = "none" /\ told[c] = {} /\ ~ ccq[c] /\ c # entry /\ c # ep
      /\ \A k \in Kinds : ~ Queued(k, c)
  BY <1>1, <1>2 DEF Stage
<1>4. /\ eq' \in Seq(Events) /\ Distinct'
      /\ \A l \in Kinds, d \in Clients :
            Queued(l, d)' <=> Queued(l, d) \/ (l = "CONNREQ" /\ d = c)
  BY <1>1, <1>2, <1>3, Appended DEF TypeOK, Kinds
<1>5. TypeOK'
  BY <1>1, <1>2, <1>4 DEF TypeOK
<1>6. ASSUME NEW d \in Clients  PROVE Stage(d)'
  BY <1>1, <1>2, <1>3, <1>4, <1>6 DEF Stage, TypeOK, Kinds
<1>7. ASSUME NEW d \in Clients  PROVE Keys(d)'
  BY <1>1, <1>2, <1>3, <1>7 DEF Keys, TypeOK, Serving
<1>8. ASSUME NEW d \in Clients  PROVE Current(d)'
  BY <1>1, <1>2, <1>3, <1>4, <1>8 DEF Current, TypeOK, Kinds, Gone, Serving
<1>9. Endpoint'
  BY <1>1, <1>2, <1>3, <1>4 DEF Endpoint, TypeOK, Kinds, Serving
<1>10. ASSUME Undisturbed, ~ Overlaps(c)  PROVE Undisturbed'
  <2>1. \A d \in Clients \ {c} : link[d] \notin {"requested", "accepted"}
    BY <1>10 DEF Overlaps
  <2>2. CASE at = "connreq"
    <3>1. eq = <<>>
      BY <1>3, <1>10, <2>1, <2>2 DEF Undisturbed, Request
    <3>2. eq' = <<Event("CONNREQ", c)>>
      BY <1>1, <3>1, ShortQueues, EventType DEF Kinds
    <3> QED  BY <1>1, <1>2, <1>3, <1>10, <2>2, <3>2 DEF Undisturbed, Request, TypeOK
  <2>3. CASE at = "accept"
    BY <1>1, <1>2, <1>3, <1>10, <2>1, <2>3 DEF Undisturbed, TypeOK, Endpoint
  <2>4. CASE at \in {"connected", "send"}
    BY <1>1, <1>2, <1>3, <1>10, <2>1, <2>4 DEF Undisturbed, TypeOK, Endpoint, Serving
  <2>5. CASE at \in {"sent", "shutdown"}
    <3>1. LastOnes /\ link[ep] = "down" /\ ep \in Clients
      BY <1>1, <1>2, <1>3, <1>10, <2>1, <2>5 DEF Undisturbed, TypeOK, Endpoint, Serving
    <3>2. eq = <<Event("SHUTDOWN", ep)>>
      BY <1>3, <2>1, <3>1 DEF LastOnes
    <3>3. eq' = <<Event("SHUTDOWN", ep), Event("CONNREQ", c)>>
      BY <1>1, <3>1, <3>2, ShortQueues, EventType DEF Kinds
    <3>4. LastOnes' /\ link'[ep] = "down"
      BY <1>1, <1>2, <1>3, <3>1, <3>3 DEF LastOnes, TypeOK
    <3> QED  BY <1>1, <1>2, <1>3, <1>10, <2>5, <3>4 DEF Undisturbed, TypeOK
  <2> QED  BY <1>1, <1>2, <1>10, <2>2, <2>3, <2>4, <2>5 DEF TypeOK, Listening, Gone
<1> QED  BY <1>1, <1>4, <1>5, <1>6, <1>7, <1>8, <1>9, <1>10 DEF ServerInv

LEMMA TellServerStep == ASSUME ServerInv, NEW c \in Clients, TellServer(c)  PROVE ServerInv'
<1> USE ServerAssumption
<1>1. /\ link[c] = "accepted" /\ ~ Gone /\ "server" \notin told[c]
      /\ told' = [told EXCEPT ![c] = @ \cup {"server"}]
      /\ eq' = Append(eq, Event("CONNECTED", c))
      /\ UNCHANGED <<at, entry, ep, open, scq, sending, cpc, posted, ccq, link, disturbed>>
  BY DEF TellServer, server, client
<1>2. TypeOK /\ Distinct /\ Endpoint /\ \A d \in Clients : Stage(d) /\ Keys(d) /\ Current(d)
  BY DEF ServerInv
<1>3. c = ep /\ at = "connected" /\ ~ Queued("CONNECTED", c)
  BY <1>1, <1>2 DEF Current, Endpoint, Serving
<1>4. /\ eq' \in Seq(Events) /\ Distinct'
      /\ \A l \in Kinds, d \in Clients :
            Queued(l, d)' <=> Queued(l, d) \/ (l = "CONNECTED" /\ d = c)
  BY <1>1, <1>2, <1>3, Appended DEF TypeOK, Kinds
<1>5. told' \in [Clients -> SUBSET {"client", "server"}]
  BY <1>1, <1>2 DEF TypeOK
<1>6. \A d \in Clients : told[d] \subseteq told'[d] /\ (d # c => told'[d] = told[d])
  BY <1>1, <1>2 DEF TypeOK
<1>7. "server" \in told'[c]
  BY <1>1, <1>2 DEF TypeOK
<1>8. TypeOK'
  BY <1>1, <1>2, <1>4, <1>5 DEF TypeOK
<1>9. ASSUME NEW d \in Clients  PROVE Stage(d)' /\ Keys(d)' /\ Current(d)'
  <2>1. Stage(d)'
    BY <1>1, <1>2, <1>3, <1>4, <1>6 DEF Stage, Kinds
  <2>2. Keys(d)'
    BY <1>1, <1>2, <1>6 DEF Keys, Serving
  <2>3. Current(d)'
    BY <1>1, <1>2, <1>3, <1>4, <1>6, <1>7 DEF Current, Gone, Serving, Kinds
  <2> QED  BY <2>1, <2>2, <2>3
<1>10. Endpoint'
  BY <1>1, <1>2, <1>3 DEF Endpoint, Serving
<1>11. ASSUME Undisturbed  PROVE Undisturbed'
  <2>1. eq = <<>>
    BY <1>1, <1>3, <1>11 DEF Undisturbed
  <2>2. eq' = <<Event("CONNECTED", ep)>>
    BY <1>1, <1>3, <2>1, ShortQueues, EventType DEF Kinds
  <2> QED  BY <1>1, <1>3, <1>7, <1>11, <2>2 DEF Undisturbed
<1> QED  BY <1>1, <1>4, <1>8, <1>9, <1>10, <1>11 DEF ServerInv

\* What may happen to an undisturbed server when client c leaves.
LeavesInOrder(c) == link[c] # "none" => cpc[c] \in {"reading", "stuck"} \/ Gone

LEMMA LeaveStep ==
  ASSUME ServerInv, NEW c \in Clients, NEW pc \in {"done", "ended"}, Running(c), Leave(c, pc),
         disturbed' \in BOOLEAN, disturbed => disturbed', disturbed' \/ LeavesInOrder(c)
  PROVE  ServerInv'
<1> USE ServerAssumption
<1>1. /\ cpc' = [cpc EXCEPT ![c] = pc]
      /\ link' = [link EXCEPT ![c] = IF @ = "none" THEN @ ELSE "down"]
      /\ eq' = IF Gone \/ link[c] # "accepted" THEN eq
               ELSE IF "server" \in told[c] THEN Append(eq, Event("SHUTDOWN", c))
               ELSE Append(eq, Event("error", c))
      /\ UNCHANGED <<at, entry, ep, open, scq, sending, posted, ccq, told>>
  BY DEF Leave, server
<1>2. TypeOK /\ Distinct /\ Endpoint /\ \A d \in Clients : Stage(d) /\ Keys(d) /\ Current(d)
  BY DEF ServerInv
<1>3. \A d \in Clients : Keys(d)'
  <2> SUFFICES ASSUME NEW d \in Clients  PROVE Keys(d)'
    OBVIOUS
  <2> QED  BY <1>1, <1>2 DEF Keys, TypeOK, Serving
<1>4. Endpoint' \/ \E k, d : ~ (Queued(k, d)' <=> Queued(k, d))
  BY <1>1, <1>2 DEF Endpoint, Serving, TypeOK
<1> DEFINE k == IF "server" \in told[c] THEN "SHUTDOWN" ELSE "error"
<1>5. CASE Gone \/ link[c] # "accepted"
  <2>1. Distinct' /\ \A l, d : Queued(l, d)' <=> Queued(l, d)
    BY <1>1, <1>2, <1>5, Kept
  <2>2. TypeOK'
    BY <1>1, <1>2, <1>5 DEF TypeOK
  <2>3. ASSUME NEW d \in Clients  PROVE Stage(d)' /\ Current(d)'
    BY <1>1, <1>2, <1>5, <2>1, <2>3 DEF Stage, Current, TypeOK, Gone, Serving, Running
  <2>4. ASSUME Undisturbed, LeavesInOrder(c)  PROVE Undisturbed'
    BY <1>1, <1>2, <1>5, <2>4
       DEF Undisturbed, LeavesInOrder, TypeOK, Gone, Request, LastOnes, Stage, Endpoint, Keys, Serving
  <2> QED  BY <1>3, <1>4, <2>1, <2>2, <2>3, <2>4 DEF ServerInv
<1>6. CASE ~ Gone /\ link[c] = "accepted"
  <2>1. c = ep /\ Serving /\ (k = "error" => at = "connected") /\ ~ Queued(k, c)
    BY <1>2, <1>6 DEF Current, Endpoint, Serving
  <2>2. /\ eq' \in Seq(Events) /\ Distinct'
        /\ \A l \in Kinds, d \in Clients :
              Queued(l, d)' <=> Queued(l, d) \/ (l = k /\ d = c)
    BY <1>1, <1>2, <1>6, <2>1, Appended DEF TypeOK, Kinds
  <2>3. TypeOK'
    BY <1>1, <1>2, <2>2 DEF TypeOK
  <2>4. ASSUME NEW d \in Clients  PROVE Stage(d)'
    BY <1>1, <1>2, <1>6, <2>1, <2>2, <2>4 DEF Stage, TypeOK, Kinds
  <2>5. ASSUME NEW d \in Clients  PROVE Current(d)'
    BY <1>1, <1>2, <1>6, <2>1, <2>2, <2>5 DEF Current, TypeOK, Kinds, Gone, Serving
  <2>6. Endpoint'
    BY <1>1, <1>2, <2>1, <2>2 DEF Endpoint, Serving, TypeOK, Kinds
  <2>7. ASSUME Undisturbed, LeavesInOrder(c)  PROVE Undisturbed'
    <3>1. at \in {"sent", "shutdown"} /\ eq = <<>> /\ k = "SHUTDOWN" /\ sending # c
      BY <1>2, <1>6, <2>1, <2>7
         DEF Undisturbed, LeavesInOrder, Keys, Serving, Endpoint, Running, Stage, TypeOK
    <3>2. eq' = <<Event("SHUTDOWN", ep)>>
      BY <1>1, <1>6, <2>1, <3>1, ShortQueues, EventType DEF Kinds
    <3> QED  BY <1>1, <1>2, <2>1, <2>7, <3>1, <3>2 DEF Undisturbed, LastOnes, TypeOK
  <2> QED  BY <1>3, <2>2, <2>3, <2>4, <2>5, <2>6, <2>7 DEF ServerInv
<1> QED  BY <1>5, <1>6

LEMMA EndStep ==
  ASSUME ServerInv, NEW c \in Clients, Finish(c) \/ Refused(c) \/ Quit(c)
  PROVE  ServerInv'
<1>1. TypeOK /\ Stage(c)
  BY DEF ServerInv
<1>2. CASE Finish(c)
  BY <1>1, <1>2, LeaveStep DEF Finish, Running, LeavesInOrder, TypeOK
<1>3. CASE Refused(c)
  <2>1. Running(c) /\ Leave(c, "ended") /\ LeavesInOrder(c) /\ UNCHANGED disturbed
    BY <1>1, <1>3 DEF Refused, Running, LeavesInOrder, Stage
  <2> QED  BY <1>1, <2>1, LeaveStep DEF TypeOK
<1>4. CASE Quit(c)
  <2>1. /\ Running(c) /\ Leave(c, "ended")
        /\ disturbed' = (disturbed \/ cpc[c] \in {"connected", "keys"})
    BY <1>4 DEF Quit
  <2>2. disturbed' \in BOOLEAN /\ (disturbed => disturbed')
    BY <1>1, <2>1 DEF TypeOK
  <2>3. disturbed' \/ LeavesInOrder(c)
    BY <1>1, <2>1 DEF LeavesInOrder, Stage, Running, TypeOK
  <2> QED  BY <2>1, <2>2, <2>3, LeaveStep
<1> QED  BY <1>2, <1>3, <1>4

-----------------------------------------------------------------------------
LEMMA StepInv == ServerInv /\ [Next]_vars => ServerInv'
<1> SUFFICES ASSUME ServerInv, [Next]_vars  PROVE ServerInv'
  OBVIOUS
<1>1. ASSUME Server \/ CallFails  PROVE ServerInv'
  BY <1>1, ServerStep, ReadStep, AcceptStep DEF Server
<1>2. ASSUME NEW c \in Clients, Start(c) \/ Quit(c) \/ Client(c) \/ Fabric(c)
      PROVE  ServerInv'
  BY <1>2, QuietStep, ConnectStep, TellServerStep, EndStep DEF Client, Fabric
<1>3. ASSUME UNCHANGED vars  PROVE ServerInv'
  <2>1. Distinct' /\ \A k, c : Queued(k, c)' <=> Queued(k, c)
    BY <1>3, Kept DEF vars, ServerInv
  <2>2. UNCHANGED <<at, eq, entry, ep, open, scq, sending, cpc, posted, ccq, link, told, disturbed>>
    BY <1>3 DEF vars
  <2>3. TypeOK'
    BY <2>2 DEF TypeOK, ServerInv
  <2>4. ASSUME NEW c \in Clients  PROVE Stage(c)' /\ Keys(c)' /\ Current(c)'
    <3>1. Stage(c) /\ Keys(c) /\ Current(c)
      BY DEF ServerInv
    <3> QED  BY <2>1, <2>2, <3>1 DEF Stage, Keys, Current, Serving, Gone
  <2>5. Endpoint' /\ (disturbed' \/ Undisturbed')
    BY <2>1, <2>2 DEF ServerInv, Endpoint, Serving, Undisturbed, Request, LastOnes
  <2> QED  BY <2>1, <2>3, <2>4, <2>5 DEF ServerInv
<1> QED  BY <1>1, <1>2, <1>3 DEF Next

LEMMA InvAlways == Spec => []ServerInv
BY InitInv, StepInv, PTL DEF Spec

\* Every variable has its type, for any set of clients.
THEOREM TypeCorrect == Spec => []TypeOK
<1>1. ServerInv => TypeOK
  BY DEF ServerInv
<1> QED  BY <1>1, InvAlways, PTL

\* The event the server goes on after is that of the client it has accepted
\* although entry.fid is never compared (test2.c:183, 211), and an endpoint is
\* closed before ep is overwritten (:159).
THEOREM OneConnectionHolds == Spec => []OneConnection
<1>1. ServerInv => OneConnection
  BY DEF ServerInv, Endpoint, Serving, OneConnection
<1> QED  BY <1>1, InvAlways, PTL

\* An "invalid event" (test2.c:153, 190, 218) has a cause outside the server:
\* clients have overlapped, or one has left before it had the keys.
THEOREM EndsForAReasonHolds == Spec => []EndsForAReason
<1>1. ServerInv => EndsForAReason
  BY DEF ServerInv, Undisturbed, EndsForAReason
<1> QED  BY <1>1, InvAlways, PTL

\* While the server runs, the client behind ep is the only one that can have a
\* connection, and its endpoint is the only one open: fi_accept (test2.c:177) is
\* never called for a second client before fi_close of the first (:222).
ServedAlone == ~ Gone => \A c \in Clients : link[c] = "accepted" => c = ep /\ open = {c}

THEOREM ServedAloneHolds == Spec => []ServedAlone
<1>1. ServerInv => ServedAlone
  BY DEF ServerInv, Current, Endpoint, ServedAlone
<1> QED  BY <1>1, InvAlways, PTL
=============================================================================
