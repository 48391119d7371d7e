----------------------- MODULE XsrqPingpongProofs -----------------------
(***************************************************************************)
(* Theorems about XsrqPingpong, for any number of clients and messages,    *)
(* and any set of faults.                                                  *)
(*                                                                         *)
(* Server and client pass one ball to and fro, whatever queue pair it goes *)
(* by: pp_cnt at both ends says who has it, or that it is lost.  A process *)
(* has a receive for each partner and so for each ball; and a ball that    *)
(* has come and gone NumTests times has not been lost.                     *)
(***************************************************************************)
EXTENDS XsrqPingpong, SequenceTheorems, FiniteSetTheorems, TLAPS

Places == {"start", "send_dest", "recv_dest", "connect", "serve", "get_event", "req_notify",
           "poll", "post_recv", "reply", "drain", "send_end", "recv_end", "close",
           "ok", "failed"}
Messages == [to : Nodes, last : BOOLEAN]

\* Every process has an entry for each of its partners.
Table(f, S) == f = [x \in Nodes |-> f[x]] /\ \A x \in Nodes : f[x] \in [Links(x) -> S]

TypeOK ==
  /\ faults \subseteq {"verbs", "retry"}
  /\ use_event \in [Nodes -> BOOLEAN]
  /\ pc \in [Nodes -> Places]
  /\ i \in Clients
  /\ cnt \in [Nodes -> Nat]
  /\ wc \in [Nodes -> Nodes]
  /\ Table(pp_cnt, Nat)
  /\ Table(tcp, Seq({"dest", "END"}))
  /\ conn \subseteq Nodes \X Clients
  /\ broken \subseteq Nodes \X Clients
  /\ Table(out, Seq(Messages))
  /\ acks \in [Nodes -> Nat]
  /\ rq \in [Nodes -> Nat]
  /\ recv_cq \in [Nodes -> Seq(Clients)]
  /\ send_cq \in [Nodes -> Nat]
  /\ armed \in [Nodes -> BOOLEAN]
  /\ events \in [Nodes -> Nat]

\* The server writes to clients, and hears from them.
Addressed == \A q \in Clients : out[Server][q] \in Seq([to : Clients, last : BOOLEAN])

Base == /\ TypeOK
        /\ Addressed
        /\ pc[Server] \in {"post_recv", "reply"} => wc[Server] \in Clients

Bit(b) == IF b THEN 1 ELSE 0

-----------------------------------------------------------------------------
(* The ball of each client.                                                *)

Setup == {"start", "send_dest", "recv_dest", "connect"}
Loop  == {"get_event", "req_notify", "poll", "post_recv", "reply"}
After == {"drain", "send_end", "recv_end", "close"}

Sent(c)     == pp_cnt[Server][c]
Answered(c) == pp_cnt[c][c]

\* Where the ball of client c is.
Unserved(c) == pc[Server] \in Setup \/ (pc[Server] = "serve" /\ i <= c)
Coming(c)   == \E q \in Clients : \E k \in 1..Len(out[Server][q]) : out[Server][q][k].to = c
Arrived(c)  == recv_cq[c] # <<>>
InHand(c)   == pc[c] \in {"post_recv", "reply"}
Going(c)    == out[c][c] # <<>>
Returned(c) == \E k \in 1..Len(recv_cq[Server]) : recv_cq[Server][k] = c
InHands(c)  == pc[Server] \in {"post_recv", "reply"} /\ wc[Server] = c

Forth(c) == Coming(c) \/ Arrived(c) \/ InHand(c)
Back(c)  == Going(c) \/ Returned(c) \/ InHands(c)

Ball(c) ==
  /\ Answered(c) <= Sent(c) /\ Sent(c) <= Answered(c) + 1 /\ Sent(c) <= NumTests
  /\ Unserved(c) => Sent(c) = 0
  /\ Forth(c) => Sent(c) = Answered(c) + 1
  /\ Back(c) => Sent(c) = Answered(c) /\ Answered(c) > 0
  /\ Bit(Coming(c)) + Bit(Arrived(c)) + Bit(InHand(c)) <= 1
  /\ Bit(Going(c)) + Bit(Returned(c)) + Bit(InHands(c)) <= 1
  /\ Len(recv_cq[c]) <= 1 /\ Len(out[c][c]) <= 1

\* What is on the queue pairs, and what the server has got; each ball is there
\* once.
Posted ==
  \A q \in Clients : \A k \in 1..Len(out[Server][q]) :
    LET m == out[Server][q][k] IN
    /\ m.last = (Sent(m.to) = NumTests)
    /\ \A r \in Clients : \A n \in 1..Len(out[Server][r]) :
         out[Server][r][n].to = m.to => r = q /\ n = k
Answers ==
  \A c \in Clients : \A k \in 1..Len(out[c][c]) :
    out[c][c][k] = [to |-> Server, last |-> Answered(c) = NumTests]
Distinct == \A j, k \in 1..Len(recv_cq[Server]) : recv_cq[Server][j] = recv_cq[Server][k] => j = k

\* A process has a receive, or its completion, for each partner.
Credit(x) ==
  /\ pc[x] = "start" => rq[x] = 0 /\ recv_cq[x] = <<>>
  /\ pc[x] \notin {"start"} \cup Over =>
       rq[x] + Len(recv_cq[x]) + Bit(pc[x] = "post_recv") = Count(x)

BallInv == /\ Base
           /\ Posted /\ Answers /\ Distinct
           /\ \A c \in Clients : Ball(c)
           /\ \A x \in Nodes : Credit(x)

-----------------------------------------------------------------------------
(* The end.                                                                *)

\* The server has connected the clients before i, and starts each round at 0.
Turn ==
  /\ pc[Server] \in Loop \cup {"drain"} => i = 0
  /\ \A j \in Clients : pc[Server] \notin Over /\ (pc[Server] \in Setup => j < i)
                          => <<Server, j>> \in conn

Counting(c) ==
  /\ pc[c] # "serve"
  /\ pc[c] \in Setup => cnt[c] = 0 /\ Answered(c) = 0
  /\ pc[c] \in Loop => cnt[c] = Answered(c)
  /\ pc[c] \in After \cup {"ok"} => Answered(c) = NumTests

Draining(x) == pc[x] = "drain" => cnt[x] < Count(x)

Left(x) == pc[x] \in Over => acks[x] = 0 /\ \A j \in Links(x) : out[x][j] = <<>>

Track == /\ Turn
         /\ \A c \in Clients : Counting(c)
         /\ \A x \in Nodes : Draining(x) /\ Left(x)

\* A queue pair of the server that gives up loses a ball, for good.
Lost(c) == Answered(c) < Sent(c) /\ ~ Forth(c)

LossInv == \A j \in Clients : <<Server, j>> \in broken => \E c \in Clients : Lost(c)

Drained(x) == IF pc[x] = "drain" THEN cnt[x]
              ELSE IF pc[x] \in After THEN Count(x) ELSE 0

\* The clients the last message to whom has arrived.
Reached == {c \in Clients : Sent(c) = NumTests /\ ~ Coming(c)}

\* The completions a process is to count are those of its last messages.
ClientCompletions(c) ==
  /\ pc[c] \notin Over /\ pc[Server] # "failed" =>
       acks[c] + send_cq[c] + Drained(c) = Bit(Answered(c) = NumTests /\ ~ Going(c))
  /\ <<c, c>> \in broken => pc[Server] = "failed"
ServerCompletions ==
  pc[Server] \notin Over /\ (\A j \in Clients : <<Server, j>> \notin broken) =>
    acks[Server] + send_cq[Server] + Drained(Server) = Cardinality(Reached)

HasEnd(s) == \E k \in 1..Len(s) : s[k] = "END"

\* The server has, or will have, the word of client c that it has finished.
Told(c) == \/ HasEnd(tcp[Server][c])
           \/ pc[Server] = "recv_end" /\ c < i
           \/ pc[Server] \in {"send_end", "close", "ok"}

\* The server has the word of all clients, and passes it on.
Finished == \/ pc[Server] \in {"send_end", "close", "ok"}
            \/ \E c \in Clients : HasEnd(tcp[c][c]) \/ pc[c] \in {"close", "ok"}

Settled(c) == pc[c] \in {"recv_end", "close"} \cup Over /\ Answered(c) = NumTests

Ending ==
  /\ \A c \in Clients : Told(c) => Settled(c)
  /\ Finished => /\ pc[Server] \in {"send_end", "close"} \cup Over
                 /\ \A c \in Clients : Settled(c)
                 /\ \A x \in Nodes : acks[x] = 0 /\ \A j \in Links(x) : out[x][j] = <<>>

EndInv == /\ \A c \in Clients : ClientCompletions(c)
          /\ ServerCompletions
          /\ Ending

-----------------------------------------------------------------------------
(* Nodes and tables.                                                       *)

LEMMA NodeFacts ==
  /\ NumClients \in Nat \ {0} /\ NumTests \in Nat \ {0}
  /\ Server \in Nodes /\ Server \notin Clients
  /\ \A c \in Clients : c \in Nodes /\ c \in Nat /\ c < NumClients /\ c # Server
  /\ \A x \in Nodes : x = Server \/ x \in Clients
  /\ Links(Server) = Clients
  /\ \A c \in Clients : Links(c) = {c} /\ Far(c, c) = Server /\ Far(Server, c) = c
  /\ \A x \in Nodes : Links(x) \subseteq Clients
BY XsrqAssumption DEF Server, Nodes, Clients, Links, Far

LEMMA CountFacts ==
  /\ \A c \in Clients : Count(c) = 1 /\ Total(c) = NumTests
  /\ Count(Server) = NumClients
  /\ \A x \in Nodes : Total(x) \in Nat \ {0} /\ Count(x) \in Nat \ {0}
<1>1. \A c \in Clients : Count(c) = 1
  BY NodeFacts, FS_Singleton DEF Count
<1>2. Cardinality(0..(NumClients - 1)) = NumClients
  BY FS_Interval, NodeFacts
<1>3. Count(Server) = NumClients
  BY <1>2, NodeFacts DEF Count, Clients
<1>4. \A c \in Clients : Total(c) = NumTests
  BY <1>1, NodeFacts DEF Total
<1>5. \A m, n \in Nat \ {0} : m * n \in Nat \ {0}
  OBVIOUS
<1>6. Total(Server) \in Nat \ {0}
  BY <1>3, <1>5, NodeFacts DEF Total
<1> QED  BY <1>1, <1>3, <1>4, <1>6, NodeFacts

\* The next one in turn.
LEMMA TurnFacts ==
  /\ \A n \in Nat : n % NumClients \in Clients
  /\ \A n \in Clients : (n + 1) % NumClients = IF n + 1 < NumClients THEN n + 1 ELSE 0
<1>1. \A n \in Nat : n % NumClients \in Clients
  BY NodeFacts DEF Clients
<1>2. \A n \in Clients : (n + 1) % NumClients = IF n + 1 < NumClients THEN n + 1 ELSE 0
  BY NodeFacts DEF Clients
<1> QED  BY <1>1, <1>2

LEMMA TableRead ==
  ASSUME NEW S, NEW f, Table(f, S), NEW x \in Nodes, NEW j \in Links(x)
  PROVE  f[x][j] \in S
BY DEF Table

\* Only entry j of x differs; only the entries of x do.
Only(g, f, x, j) ==
  \A y \in Nodes : \A k \in Links(y) : y # x \/ k # j => g[y][k] = f[y][k]
OnlyRow(g, f, x) == \A y \in Nodes : \A k \in Links(y) : y # x => g[y][k] = f[y][k]

Updated(g, f, S, x, j, v) == Table(g, S) /\ g[x][j] = v /\ Only(g, f, x, j)

UpdatedRow(g, f, S, x, v) ==
  Table(g, S) /\ (\A j \in Links(x) : g[x][j] = v) /\ OnlyRow(g, f, x)

LEMMA TableStep ==
  ASSUME NEW S, NEW f, Table(f, S), NEW x \in Nodes, NEW j \in Links(x), NEW v \in S,
         NEW g, g = [f EXCEPT ![x][j] = v]
  PROVE  Updated(g, f, S, x, j, v)
<1>1. \A y \in Nodes : g[y] = IF y = x THEN [f[x] EXCEPT ![j] = v] ELSE f[y]
  BY DEF Table
<1>2. \A y \in Nodes : f[y] \in [Links(y) -> S]
  BY DEF Table
<1>3. \A y \in Nodes : g[y] \in [Links(y) -> S]
  BY <1>1, <1>2
<1>4. g = [y \in Nodes |-> g[y]]
  BY DEF Table
<1> QED  BY <1>1, <1>2, <1>3, <1>4 DEF Table, Only, Updated

\* All entries of one process at once.
LEMMA TableRow ==
  ASSUME NEW S, NEW f, Table(f, S), NEW x \in Nodes, NEW v \in S,
         NEW g, g = [f EXCEPT ![x] = [j \in Links(x) |-> v]]
  PROVE  UpdatedRow(g, f, S, x, v)
<1>1. \A y \in Nodes : g[y] = IF y = x THEN [j \in Links(x) |-> v] ELSE f[y]
  BY DEF Table
<1>2. \A y \in Nodes : f[y] \in [Links(y) -> S]
  BY DEF Table
<1>3. \A y \in Nodes : g[y] \in [Links(y) -> S]
  BY <1>1, <1>2
<1>4. g = [y \in Nodes |-> g[y]]
  BY DEF Table
<1> QED  BY <1>1, <1>2, <1>3, <1>4 DEF Table, OnlyRow, UpdatedRow

LEMMA TableInit ==
  ASSUME NEW S, NEW v \in S
  PROVE  LET g == [x \in Nodes |-> [j \in Links(x) |-> v]] IN
         Table(g, S) /\ \A x \in Nodes : \A j \in Links(x) : g[x][j] = v
BY DEF Table

-----------------------------------------------------------------------------
(* Types.                                                                  *)

LEMMA HeadTail ==
  ASSUME NEW S, NEW s \in Seq(S), s # <<>>
  PROVE  Head(s) \in S /\ Tail(s) \in Seq(S)
OBVIOUS

LEMMA ElementOfQueue == ASSUME NEW S, NEW s \in Seq(S), NEW k \in 1..Len(s) PROVE s[k] \in S
OBVIOUS

LEMMA MessageType ==
  /\ \A x \in Nodes : \A b \in BOOLEAN : [to |-> x, last |-> b] \in Messages
  /\ \A m \in Messages : m.to \in Nodes /\ m.last \in BOOLEAN
BY DEF Messages

\* What a send leaves on its queue pair, or, if that has given up, in the queue
\* of completions.
LEMMA SendEffect ==
  ASSUME Base, NEW x \in Nodes, NEW j \in Links(x), PostSend(x, j)
  PROVE  /\ Updated(pp_cnt', pp_cnt, Nat, x, j, pp_cnt[x][j] + 1)
         /\ Table(out', Seq(Messages))
         /\ Addressed'
         /\ send_cq' \in [Nodes -> Nat]
         /\ \E q \in Links(x) :
              \/ /\ <<x, q>> \in broken /\ out' = out
                 /\ send_cq' = [send_cq EXCEPT ![x] = @ + 1]
              \/ /\ <<x, q>> \notin broken /\ send_cq' = send_cq
                 /\ Updated(out', out, Seq(Messages), x, q, Append(out[x][q],
                      [to |-> Far(x, j), last |-> pp_cnt[x][j] + 1 >= NumTests]))
<1> DEFINE qpi == IF x = Server THEN (j + pp_cnt[x][j]) % NumClients ELSE x
           m == [to |-> Far(x, j), last |-> pp_cnt[x][j] + 1 >= NumTests]
<1>1. Table(pp_cnt, Nat) /\ Table(out, Seq(Messages)) /\ send_cq \in [Nodes -> Nat]
  BY DEF Base, TypeOK
<1>2. pp_cnt[x][j] \in Nat
  BY <1>1, TableRead
<1>3. pp_cnt[x][j] + 1 \in Nat /\ pp_cnt' = [pp_cnt EXCEPT ![x][j] = pp_cnt[x][j] + 1]
  BY <1>2 DEF PostSend
<1>4. Updated(pp_cnt', pp_cnt, Nat, x, j, pp_cnt[x][j] + 1)
  BY <1>1, <1>3, TableStep, Zenon
<1>5. j \in Clients
  BY NodeFacts
<1>6. j + pp_cnt[x][j] \in Nat
  BY <1>2, <1>5, NodeFacts
<1>7. qpi \in Links(x)
  BY <1>6, TurnFacts, NodeFacts
<1>8. Far(x, j) \in Nodes
  BY <1>5, NodeFacts DEF Far
<1>9. m \in Messages
  BY <1>8 DEF Messages
<1>10. out[x][qpi] \in Seq(Messages)
  BY <1>1, <1>7, TableRead
<1>11. Append(out[x][qpi], m) \in Seq(Messages)
  BY <1>9, <1>10
<1>12. IF <<x, qpi>> \in broken
       THEN send_cq' = [send_cq EXCEPT ![x] = @ + 1] /\ out' = out
       ELSE out' = [out EXCEPT ![x][qpi] = Append(@, m)] /\ send_cq' = send_cq
  BY DEF PostSend
<1> HIDE DEF m, qpi
<1>13. CASE <<x, qpi>> \in broken
  <2>1. send_cq' = [send_cq EXCEPT ![x] = @ + 1] /\ out' = out
    BY <1>12, <1>13
  <2>2. send_cq' \in [Nodes -> Nat]
    BY <1>1, <2>1
  <2>3. Table(out', Seq(Messages))
    BY <1>1, <2>1
  <2>4. Addressed'
    BY <2>1 DEF Base, Addressed
  <2> QED  BY <1>4, <1>7, <1>13, <2>1, <2>2, <2>3, <2>4
<1>14. CASE <<x, qpi>> \notin broken
  <2>1. out' = [out EXCEPT ![x][qpi] = Append(out[x][qpi], m)] /\ send_cq' = send_cq
    BY <1>12, <1>14
  <2>2. Updated(out', out, Seq(Messages), x, qpi, Append(out[x][qpi], m))
    BY <1>1, <1>7, <1>11, <2>1, TableStep, Zenon
  <2>3. Addressed'
    <3>1. x = Server => m \in [to : Clients, last : BOOLEAN]
      BY <1>5, NodeFacts DEF m
    <3>2. \A q \in Clients : out[Server][q] \in Seq([to : Clients, last : BOOLEAN])
      BY DEF Base, Addressed
    <3>3. x = Server /\ qpi \in Clients
               => out'[Server][qpi] \in Seq([to : Clients, last : BOOLEAN])
      <4> SUFFICES ASSUME x = Server, qpi \in Clients
                   PROVE  out'[Server][qpi] \in Seq([to : Clients, last : BOOLEAN])
        OBVIOUS
      <4>1. out'[Server][qpi] = Append(out[Server][qpi], m)
        BY <2>2 DEF Updated
      <4>2. out[Server][qpi] \in Seq([to : Clients, last : BOOLEAN])
        BY <3>2
      <4> QED  BY <3>1, <4>1, <4>2
    <3>4. \A q \in Clients : x # Server \/ q # qpi => out'[Server][q] = out[Server][q]
      BY <2>2, NodeFacts DEF Updated, Only
    <3> QED  BY <3>2, <3>3, <3>4 DEF Addressed
  <2> QED  BY <1>1, <1>4, <1>7, <1>14, <2>1, <2>2, <2>3 DEF m, Updated
<1> QED  BY <1>13, <1>14


LEMMA TcpEffect ==
  ASSUME Base, NEW x \in Nodes, NEW j \in Links(x), NEW m \in {"dest", "END"}
  PROVE  /\ Write(x, j, m) =>
              Updated(tcp', tcp, Seq({"dest", "END"}), Far(x, j), j,
                      Append(tcp[Far(x, j)][j], m))
         /\ Read(x, j, m) =>
              /\ Updated(tcp', tcp, Seq({"dest", "END"}), x, j, Tail(tcp[x][j]))
              /\ tcp[x][j] # <<>> /\ Head(tcp[x][j]) = m
         /\ tcp[x][j] \in Seq({"dest", "END"})
         /\ tcp[Far(x, j)][j] \in Seq({"dest", "END"})
<1>1. Table(tcp, Seq({"dest", "END"}))
  BY DEF Base, TypeOK
<1>2. j \in Clients /\ Far(x, j) \in Nodes /\ j \in Links(Far(x, j))
  BY NodeFacts DEF Far
<1>3. tcp[x][j] \in Seq({"dest", "END"}) /\ tcp[Far(x, j)][j] \in Seq({"dest", "END"})
  BY <1>1, <1>2, TableRead
<1>4. Append(tcp[Far(x, j)][j], m) \in Seq({"dest", "END"})
  BY <1>3
<1>5. ASSUME Write(x, j, m)
      PROVE  tcp' = [tcp EXCEPT ![Far(x, j)][j] = Append(tcp[Far(x, j)][j], m)]
  BY <1>5 DEF Write
<1>6. ASSUME Read(x, j, m)
      PROVE  /\ tcp' = [tcp EXCEPT ![x][j] = Tail(tcp[x][j])]
             /\ Tail(tcp[x][j]) \in Seq({"dest", "END"})
             /\ tcp[x][j] # <<>> /\ Head(tcp[x][j]) = m
  BY <1>3, <1>6 DEF Read
<1>7. ASSUME Write(x, j, m)
      PROVE  Updated(tcp', tcp, Seq({"dest", "END"}), Far(x, j), j,
                     Append(tcp[Far(x, j)][j], m))
  BY <1>1, <1>2, <1>4, <1>5, <1>7, TableStep, Zenon
<1>8. ASSUME Read(x, j, m)
      PROVE  Updated(tcp', tcp, Seq({"dest", "END"}), x, j, Tail(tcp[x][j]))
  BY <1>1, <1>6, <1>8, TableStep, Zenon
<1> QED  BY <1>3, <1>6, <1>7, <1>8

LEMMA LeaveEffect ==
  ASSUME Base, NEW x \in Nodes, NEW how, Leave(x, how)
  PROVE  /\ UpdatedRow(out', out, Seq(Messages), x, <<>>)
         /\ Addressed'
         /\ acks' = [acks EXCEPT ![x] = 0] /\ acks' \in [Nodes -> Nat]
<1>1. Table(out, Seq(Messages)) /\ acks \in [Nodes -> Nat]
  BY DEF Base, TypeOK
<1>2. <<>> \in Seq(Messages)
  OBVIOUS
<1>3. out' = [out EXCEPT ![x] = [j \in Links(x) |-> <<>>]] /\ acks' = [acks EXCEPT ![x] = 0]
  BY DEF Leave
<1>4. UpdatedRow(out', out, Seq(Messages), x, <<>>)
  BY <1>1, <1>2, <1>3, TableRow, Zenon
<1>5. \A q \in Clients : out'[Server][q] = out[Server][q] \/ out'[Server][q] = <<>>
  BY <1>4, NodeFacts DEF UpdatedRow, OnlyRow
<1>6. <<>> \in Seq([to : Clients, last : BOOLEAN])
  OBVIOUS
<1>7. Addressed'
  BY <1>5, <1>6 DEF Base, Addressed
<1> QED  BY <1>1, <1>3, <1>4, <1>7

\* A message on its way to its receiver.
LEMMA DeliverEffect ==
  ASSUME Base, NEW x \in Nodes, NEW j \in Links(x), Deliver(x, j)
  PROVE  /\ out[x][j] \in Seq(Messages) /\ out[x][j] # <<>>
         /\ Head(out[x][j]) \in Messages /\ Head(out[x][j]).to \in Nodes
         /\ x = Server => Head(out[x][j]).to \in Clients
         /\ Updated(out', out, Seq(Messages), x, j, Tail(out[x][j]))
         /\ Addressed'
<1>1. Table(out, Seq(Messages))
  BY DEF Base, TypeOK
<1>2. out[x][j] \in Seq(Messages)
  BY <1>1, TableRead
<1>3. out[x][j] # <<>> /\ out' = [out EXCEPT ![x][j] = Tail(out[x][j])]
  BY DEF Deliver
<1>4. Tail(out[x][j]) \in Seq(Messages) /\ Head(out[x][j]) \in Messages
  BY <1>2, <1>3
<1>5. Head(out[x][j]).to \in Nodes
  BY <1>4, MessageType
<1>6. Updated(out', out, Seq(Messages), x, j, Tail(out[x][j]))
  BY <1>1, <1>3, <1>4, TableStep, Zenon
<1>7. x = Server =>
        /\ Head(out[x][j]) \in [to : Clients, last : BOOLEAN]
        /\ Tail(out[x][j]) \in Seq([to : Clients, last : BOOLEAN])
  <2> SUFFICES ASSUME x = Server
               PROVE  /\ Head(out[x][j]) \in [to : Clients, last : BOOLEAN]
                      /\ Tail(out[x][j]) \in Seq([to : Clients, last : BOOLEAN])
    OBVIOUS
  <2>1. out[x][j] \in Seq([to : Clients, last : BOOLEAN])
    BY NodeFacts DEF Base, Addressed
  <2> QED  BY <1>3, <2>1, HeadTail
<1>8. \A q \in Clients : out'[Server][q] = IF x = Server /\ q = j THEN Tail(out[x][j])
                                                                  ELSE out[Server][q]
  BY <1>6, NodeFacts DEF Updated, Only
<1>9. Addressed'
  BY <1>7, <1>8 DEF Base, Addressed
<1>10. x = Server => Head(out[x][j]).to \in Clients
  BY <1>7
<1> QED  BY <1>2, <1>3, <1>4, <1>5, <1>6, <1>9, <1>10

LEMMA GiveUpEffect ==
  ASSUME Base, NEW x \in Nodes, NEW j \in Links(x), GiveUp(x, j)
  PROVE  /\ out[x][j] \in Seq(Messages) /\ out[x][j] # <<>> /\ Len(out[x][j]) \in Nat
         /\ Updated(out', out, Seq(Messages), x, j, <<>>)
         /\ Addressed'
<1>1. Table(out, Seq(Messages))
  BY DEF Base, TypeOK
<1>2. out[x][j] \in Seq(Messages) /\ <<>> \in Seq(Messages)
  BY <1>1, TableRead
<1>3. out[x][j] # <<>> /\ out' = [out EXCEPT ![x][j] = <<>>]
  BY DEF GiveUp
<1>4. Updated(out', out, Seq(Messages), x, j, <<>>)
  BY <1>1, <1>2, <1>3, TableStep, Zenon
<1>5. \A q \in Clients : out'[Server][q] = out[Server][q] \/ out'[Server][q] = <<>>
  BY <1>4, NodeFacts DEF Updated, Only
<1>6. <<>> \in Seq([to : Clients, last : BOOLEAN])
  OBVIOUS
<1>7. Addressed'
  BY <1>5, <1>6 DEF Base, Addressed
<1> QED  BY <1>2, <1>3, <1>4, <1>7

-----------------------------------------------------------------------------

LEMMA PlaceFacts ==
  /\ Setup \subseteq Places /\ Loop \subseteq Places
  /\ After \subseteq Places /\ Over \subseteq Places
  /\ \A x, c : LoopHead(x, c) \in {"drain", "get_event", "poll"}
BY DEF Setup, Loop, After, Over, Places, LoopHead

LEMMA InitBase == Init => Base
<1> SUFFICES ASSUME Init PROVE Base
  OBVIOUS
<1>1. Table(pp_cnt, Nat)
  BY TableInit DEF Init, Of, Table
<1>2. Table(tcp, Seq({"dest", "END"}))
  BY DEF Init, Table
<1>3. Table(out, Seq(Messages))
  BY DEF Init, Table
<1>4. use_event \in [Nodes -> BOOLEAN] /\ faults \subseteq {"verbs", "retry"}
  BY XsrqAssumption DEF Init
<1>5. pc \in [Nodes -> Places] /\ pc[Server] = "start"
  BY NodeFacts DEF Init, Places
<1>6. 0 \in Clients
  BY NodeFacts DEF Clients
<1>7. /\ recv_cq \in [Nodes -> Seq(Clients)]
      /\ conn \subseteq Nodes \X Clients /\ broken \subseteq Nodes \X Clients
  BY DEF Init
<1>8. Addressed
  BY NodeFacts DEF Addressed, Init
<1> QED  BY <1>1, <1>2, <1>3, <1>4, <1>5, <1>6, <1>7, <1>8 DEF Base, TypeOK, Init

\* What holds when no counter or queue has changed its type.
LEMMA TypesKept ==
  ASSUME TypeOK, UNCHANGED options, pc' \in [Nodes -> Places], i' \in Clients,
         cnt' \in [Nodes -> Nat], wc' \in [Nodes -> Nodes], Table(pp_cnt', Nat),
         Table(tcp', Seq({"dest", "END"})), conn' \subseteq Nodes \X Clients,
         broken' \subseteq Nodes \X Clients, Table(out', Seq(Messages)),
         acks' \in [Nodes -> Nat], rq' \in [Nodes -> Nat],
         recv_cq' \in [Nodes -> Seq(Clients)], send_cq' \in [Nodes -> Nat],
         armed' \in [Nodes -> BOOLEAN], events' \in [Nodes -> Nat]
  PROVE  TypeOK'
BY DEF TypeOK, options, Table

LEMMA SetupTypes ==
  ASSUME Base, NEW x \in Nodes,
         Prepare(x) \/ (x # Server /\ ClientConnect(x)) \/ (x = Server /\ ServerConnect)
  PROVE  Base'
<1>1. i \in Clients /\ (i + 1) % NumClients \in Clients
  BY TurnFacts, NodeFacts DEF Base, TypeOK
<1>2. CASE Prepare(x)
  <2>1. pc' \in [Nodes -> Places]
    BY <1>2 DEF Prepare, Step, Base, TypeOK, Places
  <2>2. pc'[Server] \notin {"post_recv", "reply"} \/ (pc'[Server] = pc[Server] /\ wc' = wc)
    BY <1>2 DEF Prepare, Step, Base, TypeOK, proc
  <2>3. rq' \in [Nodes -> Nat] /\ armed' \in [Nodes -> BOOLEAN]
    BY <1>2, CountFacts DEF Prepare, Base, TypeOK
  <2>4. TypeOK'
    BY <1>2, <2>1, <2>3, TypesKept DEF Prepare, Base, TypeOK, proc, link
  <2> QED  BY <1>2, <2>2, <2>4 DEF Base, Addressed, Prepare, proc, link
<1>3. CASE x # Server /\ ClientConnect(x)
  <2>1. x \in Links(x) /\ x \in Clients
    BY <1>3, NodeFacts
  <2>2. pc' \in [Nodes -> Places]
    <3>1. pc \in [Nodes -> Places] /\ LoopHead(x, 0) \in Places
      BY PlaceFacts DEF Base, TypeOK, Places
    <3>2. \E a, b : Step(x, a, b) /\ b \in Places
      BY <1>3, <3>1 DEF ClientConnect, Places
    <3> QED  BY <3>1, <3>2 DEF Step
  <2>3. Table(tcp', Seq({"dest", "END"}))
    BY <1>3, <2>1, TcpEffect DEF ClientConnect, Updated, ConnectQps, Base, TypeOK
  <2>4. conn' \subseteq Nodes \X Clients
    BY <1>3, <2>1 DEF ClientConnect, ConnectQps, Base, TypeOK, TcpOnly, link
  <2>5. UNCHANGED <<options, cnt, wc, pp_cnt, broken, out, acks, rq, recv_cq, send_cq,
                    armed, events, i>>
    BY <1>3 DEF ClientConnect, ConnectQps, TcpOnly, link, queues
  <2>6. TypeOK'
    BY <2>2, <2>3, <2>4, <2>5, TypesKept DEF Base, TypeOK
  <2>7. pc'[Server] = pc[Server]
    BY <1>3, NodeFacts, SMTT(20) DEF ClientConnect, Step, Base, TypeOK
  <2> QED  BY <2>5, <2>6, <2>7 DEF Base, Addressed
<1>4. CASE x = Server /\ ServerConnect
  <2>1. i \in Links(Server) /\ Server \in Nodes
    BY <1>1, NodeFacts
  <2>2. pc' \in [Nodes -> Places]
    BY <1>4, PlaceFacts DEF ServerConnect, Step, Base, TypeOK, Places
  <2>3. Table(tcp', Seq({"dest", "END"}))
    BY <1>4, <2>1, TcpEffect DEF ServerConnect, Updated, ConnectQps, Base, TypeOK
  <2>4. conn' \subseteq Nodes \X Clients
    BY <1>1, <1>4, <2>1 DEF ServerConnect, ConnectQps, Base, TypeOK, TcpOnly, link
  <2>5. UNCHANGED <<options, cnt, wc, pp_cnt, broken, out, acks, rq, recv_cq, send_cq,
                    armed, events>>
    BY <1>4 DEF ServerConnect, ConnectQps, TcpOnly, link, queues
  <2>6. i' \in Clients
    BY <1>1, <1>4 DEF ServerConnect
  <2>7. TypeOK'
    BY <2>2, <2>3, <2>4, <2>5, <2>6, TypesKept DEF Base, TypeOK
  <2>8. pc'[Server] \notin {"post_recv", "reply"}
    BY <1>4, <2>1 DEF ServerConnect, Step, Base, TypeOK
  <2> QED  BY <2>5, <2>7, <2>8 DEF Base, Addressed
<1> QED  BY <1>2, <1>3, <1>4

LEMMA LoopTypes ==
  ASSUME Base, NEW x \in Nodes,
         \/ x = Server /\ Serve
         \/ GetCqEvent(x) \/ ReqNotify(x) \/ PollCq(x) \/ PostRecv(x) \/ Reply(x) \/ Drain(x)
  PROVE  Base'
<1>1. i \in Clients /\ (i + 1) % NumClients \in Clients
  BY TurnFacts, NodeFacts DEF Base, TypeOK
<1>2. CASE x = Server /\ Serve
  <2>1. i \in Links(Server) /\ Server \in Nodes /\ PostSend(Server, i)
    BY <1>1, <1>2, NodeFacts DEF Serve
  <2>2. Table(pp_cnt', Nat) /\ Table(out', Seq(Messages)) /\ send_cq' \in [Nodes -> Nat]
    BY <2>1, SendEffect DEF Updated
  <2>3. pc' \in [Nodes -> Places] /\ pc'[Server] \notin {"post_recv", "reply"}
    BY <1>2, <2>1, PlaceFacts DEF Serve, Step, Base, TypeOK, Places
  <2>4. i' \in Clients /\ UNCHANGED <<options, cnt, wc, tcp, conn, broken, acks,
                                      rq, recv_cq, armed, events>>
    BY <1>1, <1>2 DEF Serve
  <2>5. TypeOK'
    BY <2>2, <2>3, <2>4, TypesKept DEF Base, TypeOK
  <2> QED  BY <2>1, <2>3, <2>5, SendEffect DEF Base
<1>3. CASE GetCqEvent(x)
  <2>1. pc' \in [Nodes -> Places] /\ events' \in [Nodes -> Nat]
    BY <1>3, SMTT(20) DEF GetCqEvent, Step, Base, TypeOK, Places
  <2>2. TypeOK'
    BY <1>3, <2>1, TypesKept DEF GetCqEvent, Base, TypeOK, link
  <2>3. pc'[Server] \in {"post_recv", "reply"} => pc'[Server] = pc[Server]
    BY <1>3, NodeFacts DEF GetCqEvent, Step, Base, TypeOK
  <2> QED  BY <1>3, <2>2, <2>3 DEF Base, Addressed, GetCqEvent, link
<1>4. CASE ReqNotify(x)
  <2>1. pc' \in [Nodes -> Places] /\ armed' \in [Nodes -> BOOLEAN]
    BY <1>4 DEF ReqNotify, Step, Base, TypeOK, Places
  <2>2. TypeOK'
    BY <1>4, <2>1, TypesKept DEF ReqNotify, Base, TypeOK, link, proc
  <2>3. pc'[Server] \in {"post_recv", "reply"} => pc'[Server] = pc[Server]
    BY <1>4, NodeFacts DEF ReqNotify, Step, Base, TypeOK
  <2> QED  BY <1>4, <2>2, <2>3 DEF Base, Addressed, ReqNotify, proc, link
<1>5. CASE PollCq(x) /\ recv_cq[x] # <<>>
  <2>1. recv_cq[x] \in Seq(Clients)
    BY DEF Base, TypeOK
  <2>2. Head(recv_cq[x]) \in Clients /\ Tail(recv_cq[x]) \in Seq(Clients)
    BY <1>5, <2>1
  <2>3. Head(recv_cq[x]) \in Nodes
    BY <2>2, NodeFacts
  <2>4. /\ wc' = [wc EXCEPT ![x] = Head(recv_cq[x])] /\ Step(x, "poll", "post_recv")
        /\ recv_cq' = [recv_cq EXCEPT ![x] = Tail(recv_cq[x])]
        /\ UNCHANGED <<options, i, cnt, pp_cnt, tcp, link, rq, send_cq, armed, events>>
    BY <1>5 DEF PollCq
  <2>5. wc' \in [Nodes -> Nodes] /\ recv_cq' \in [Nodes -> Seq(Clients)]
    BY <2>2, <2>3, <2>4 DEF Base, TypeOK
  <2>6. pc' \in [Nodes -> Places]
    BY <2>4 DEF Step, Base, TypeOK, Places
  <2>7. TypeOK'
    BY <2>4, <2>5, <2>6, TypesKept DEF Base, TypeOK, link
  <2>8. x = Server => wc'[Server] \in Clients
    BY <2>2, <2>4 DEF Base, TypeOK
  <2>9. x # Server => wc'[Server] = wc[Server] /\ pc'[Server] = pc[Server]
    BY <2>4, NodeFacts DEF Base, TypeOK, Step
  <2> QED  BY <2>4, <2>7, <2>8, <2>9 DEF Base, Addressed, link
<1>6. CASE PollCq(x) /\ recv_cq[x] = <<>>
  <2> DEFINE n == IF cnt[x] >= Total(x) THEN 0 ELSE cnt[x]
  <2>0. n \in Nat
    BY DEF Base, TypeOK
  <2>1. Step(x, "poll", LoopHead(x, cnt[x])) /\ cnt' = [cnt EXCEPT ![x] = n]
    BY <1>6 DEF PollCq
  <2> HIDE DEF n
  <2>6. cnt' \in [Nodes -> Nat]
    BY <2>0, <2>1 DEF Base, TypeOK
  <2>2. pc' \in [Nodes -> Places]
    BY <2>1, PlaceFacts DEF Step, Base, TypeOK, Places
  <2>3. UNCHANGED <<options, i, wc, pp_cnt, tcp, link, queues>>
    BY <1>6 DEF PollCq
  <2>4. TypeOK'
    BY <2>2, <2>3, <2>6, TypesKept DEF Base, TypeOK, link, queues
  <2>5. pc'[Server] \in {"post_recv", "reply"} => pc'[Server] = pc[Server]
    BY <2>1, NodeFacts, PlaceFacts DEF Step, Base, TypeOK
  <2> QED  BY <2>3, <2>4, <2>5 DEF Base, Addressed, link
<1>7. CASE PostRecv(x)
  <2>1. pc' \in [Nodes -> Places] /\ rq' \in [Nodes -> Nat]
    BY <1>7 DEF PostRecv, Step, Base, TypeOK, Places
  <2>2. TypeOK'
    BY <1>7, <2>1, TypesKept DEF PostRecv, Base, TypeOK, link, proc
  <2>3. pc'[Server] = "reply" => pc[Server] \in {"post_recv", "reply"}
    BY <1>7, NodeFacts DEF PostRecv, Step, Base, TypeOK
  <2>4. pc'[Server] = "post_recv" => pc[Server] = "post_recv"
    BY <1>7, NodeFacts DEF PostRecv, Step, Base, TypeOK
  <2> QED  BY <1>7, <2>2, <2>3, <2>4 DEF Base, Addressed, PostRecv, proc, link
<1>8. CASE Reply(x)
  <2> DEFINE qpi == IF x = Server THEN wc[x] ELSE x
  <2>1. qpi \in Links(x)
    BY <1>8, NodeFacts DEF Reply, Step, Base
  <2>2. PostSend(x, qpi) \/ UNCHANGED <<pp_cnt, out, send_cq>>
    BY <1>8 DEF Reply
  <2>3. /\ Table(pp_cnt', Nat) /\ Table(out', Seq(Messages))
        /\ send_cq' \in [Nodes -> Nat] /\ Addressed'
    <3>1. CASE PostSend(x, qpi)
      BY <2>1, <3>1, SendEffect DEF Updated
    <3>2. CASE UNCHANGED <<pp_cnt, out, send_cq>>
      BY <3>2 DEF Base, TypeOK, Addressed
    <3> QED  BY <2>2, <3>1, <3>2
  <2>4. pc' \in [Nodes -> Places] /\ cnt' \in [Nodes -> Nat]
    BY <1>8, SMTT(20) DEF Reply, Step, Base, TypeOK, Places
  <2>5. UNCHANGED <<options, i, wc, tcp, conn, broken, acks, rq, recv_cq, armed, events>>
    BY <1>8 DEF Reply
  <2>6. TypeOK'
    BY <2>3, <2>4, <2>5, TypesKept DEF Base, TypeOK
  <2>7. pc'[Server] \in {"post_recv", "reply"} => pc'[Server] = pc[Server]
    BY <1>8, NodeFacts DEF Reply, Step, Base, TypeOK
  <2> QED  BY <2>3, <2>5, <2>6, <2>7 DEF Base
<1>9. CASE Drain(x)
  <2>1. /\ pc' \in [Nodes -> Places] /\ cnt' \in [Nodes -> Nat]
        /\ send_cq' \in [Nodes -> Nat]
    BY <1>9, SMTT(20) DEF Drain, Step, Base, TypeOK, Places
  <2>2. TypeOK'
    BY <1>9, <2>1, TypesKept DEF Drain, Base, TypeOK, link
  <2>3. pc'[Server] \in {"post_recv", "reply"} => pc'[Server] = pc[Server]
    BY <1>9, NodeFacts DEF Drain, Step, Base, TypeOK
  <2> QED  BY <1>9, <2>2, <2>3 DEF Base, Addressed, Drain, link
<1> QED  BY <1>2, <1>3, <1>4, <1>5, <1>6, <1>7, <1>8, <1>9

LEMMA LeaveTypes ==
  ASSUME Base, NEW x \in Nodes, NEW how \in {"ok", "failed"}, Leave(x, how)
  PROVE  Base'
<1>1. Table(out', Seq(Messages)) /\ acks' \in [Nodes -> Nat]
  BY LeaveEffect DEF UpdatedRow
<1>2. pc' \in [Nodes -> Places] /\ conn' \subseteq Nodes \X Clients
  BY DEF Leave, Base, TypeOK, Places
<1>3. TypeOK'
  BY <1>1, <1>2, TypesKept DEF Leave, Base, TypeOK, proc, queues
<1>4. pc'[Server] \in {"post_recv", "reply"} => pc'[Server] = pc[Server]
  BY NodeFacts DEF Leave, Base, TypeOK
<1> QED  BY <1>3, <1>4, LeaveEffect DEF Base, Leave, proc

LEMMA EndTypes ==
  ASSUME Base, NEW x \in Nodes,
         \/ x # Server /\ ClientTermination(x)
         \/ x = Server /\ ServerTermination
         \/ CloseCtx(x) \/ CallFails(x)
  PROVE  Base'
<1>1. i \in Clients /\ (i + 1) % NumClients \in Clients
  BY TurnFacts, NodeFacts DEF Base, TypeOK
<1>2. CASE x # Server /\ ClientTermination(x)
  <2>1. x \in Links(x)
    BY <1>2, NodeFacts
  <2>2. pc' \in [Nodes -> Places]
    BY <1>2 DEF ClientTermination, Step, Base, TypeOK, Places
  <2>3. Table(tcp', Seq({"dest", "END"}))
    BY <1>2, <2>1, TcpEffect DEF ClientTermination, Updated
  <2>4. TypeOK'
    BY <1>2, <2>2, <2>3, TypesKept DEF ClientTermination, Base, TypeOK, TcpOnly, link, queues
  <2>5. pc'[Server] = pc[Server] /\ wc' = wc
    BY <1>2, NodeFacts, SMTT(20) DEF ClientTermination, Step, Base, TypeOK, TcpOnly
  <2> QED  BY <1>2, <2>4, <2>5 DEF Base, Addressed, ClientTermination, TcpOnly, link
<1>3. CASE x = Server /\ ServerTermination
  <2>1. i \in Links(Server) /\ Server \in Nodes
    BY <1>1, NodeFacts
  <2>2. pc' \in [Nodes -> Places] /\ pc'[Server] \notin {"post_recv", "reply"}
    BY <1>3, <2>1 DEF ServerTermination, Step, Base, TypeOK, Places
  <2>3. Table(tcp', Seq({"dest", "END"}))
    BY <1>3, <2>1, TcpEffect DEF ServerTermination, Updated
  <2>4. i' \in Clients
    BY <1>1, <1>3 DEF ServerTermination
  <2>5. TypeOK'
    BY <1>3, <2>2, <2>3, <2>4, TypesKept DEF ServerTermination, Base, TypeOK, TcpOnly, link, queues
  <2> QED  BY <1>3, <2>2, <2>5 DEF Base, Addressed, ServerTermination, TcpOnly, link
<1>4. CASE CloseCtx(x)
  BY <1>4, LeaveTypes DEF CloseCtx
<1>5. CASE CallFails(x)
  BY <1>5, LeaveTypes DEF CallFails
<1> QED  BY <1>2, <1>3, <1>4, <1>5

LEMMA AdapterTypes ==
  ASSUME Base, NEW x \in Nodes,
         Acknowledge(x) \/ (\E j \in Links(x) : Deliver(x, j) \/ GiveUp(x, j))
  PROVE  Base'
<1>1. CASE Acknowledge(x)
  <2>1. acks' \in [Nodes -> Nat] /\ send_cq' \in [Nodes -> Nat]
    BY <1>1, SMTT(20) DEF Acknowledge, Base, TypeOK
  <2> QED
    BY <1>1, <2>1, TypesKept DEF Acknowledge, Base, TypeOK, proc, Addressed
<1>2. ASSUME NEW j \in Links(x), Deliver(x, j) PROVE Base'
  <2> DEFINE y == Head(out[x][j]).to
             from == IF x = Server THEN y ELSE x
  <2>1. Table(out', Seq(Messages)) /\ y \in Nodes /\ (x = Server => y \in Clients)
    BY <1>2, DeliverEffect DEF Updated
  <2>2. /\ rq[y] > 0 /\ rq' = [rq EXCEPT ![y] = @ - 1]
        /\ recv_cq' = [recv_cq EXCEPT ![y] = Append(@, from)]
        /\ armed' = [armed EXCEPT ![y] = FALSE]
        /\ events' = [events EXCEPT ![y] = IF armed[y] THEN @ + 1 ELSE @]
        /\ acks' = [acks EXCEPT ![x] = IF Head(out[x][j]).last THEN @ + 1 ELSE @]
        /\ UNCHANGED <<options, pc, proc, tcp, conn, broken, send_cq>>
    BY <1>2 DEF Deliver
  <2> HIDE DEF y
  <2>3. rq[y] \in Nat /\ recv_cq[y] \in Seq(Clients) /\ events[y] \in Nat /\ acks[x] \in Nat
    BY <2>1 DEF Base, TypeOK
  <2>4. from \in Clients
    BY <2>1, NodeFacts
  <2>5. Append(recv_cq[y], from) \in Seq(Clients)
    BY <2>3, <2>4
  <2>6. rq' \in [Nodes -> Nat] /\ armed' \in [Nodes -> BOOLEAN]
    BY <2>1, <2>2, <2>3, SMTT(20) DEF Base, TypeOK
  <2>7. events' \in [Nodes -> Nat] /\ acks' \in [Nodes -> Nat]
    <3> DEFINE e == IF armed[y] THEN events[y] + 1 ELSE events[y]
               a == IF Head(out[x][j]).last THEN acks[x] + 1 ELSE acks[x]
    <3>1. e \in Nat /\ a \in Nat
      BY <2>3
    <3>2. events' = [events EXCEPT ![y] = e] /\ acks' = [acks EXCEPT ![x] = a]
      BY <2>2
    <3> HIDE DEF e, a
    <3> QED  BY <3>1, <3>2 DEF Base, TypeOK
  <2>8. recv_cq' \in [Nodes -> Seq(Clients)]
    BY <2>1, <2>2, <2>5 DEF Base, TypeOK
  <2>9. TypeOK'
    BY <2>1, <2>2, <2>6, <2>7, <2>8, TypesKept DEF Base, TypeOK, proc
  <2> QED  BY <1>2, <2>2, <2>9, DeliverEffect DEF Base, proc
<1>3. ASSUME NEW j \in Links(x), GiveUp(x, j) PROVE Base'
  <2>1. /\ Table(out', Seq(Messages)) /\ Len(out[x][j]) \in Nat /\ j \in Clients
        /\ send_cq' = [send_cq EXCEPT ![x] = @ + Len(out[x][j])]
        /\ broken' = broken \cup {<<x, j>>}
        /\ UNCHANGED <<options, pc, proc, tcp, conn, acks, rq, recv_cq, armed, events>>
    BY <1>3, GiveUpEffect, NodeFacts DEF Updated, GiveUp
  <2>2. send_cq' \in [Nodes -> Nat] /\ broken' \subseteq Nodes \X Clients
    <3> DEFINE n == Len(out[x][j])
    <3>1. n \in Nat /\ send_cq' = [send_cq EXCEPT ![x] = @ + n]
      BY <2>1
    <3> HIDE DEF n
    <3>2. send_cq \in [Nodes -> Nat] /\ broken \subseteq Nodes \X Clients
      BY DEF Base, TypeOK
    <3>3. send_cq' \in [Nodes -> Nat]
      BY <3>1, <3>2
    <3>4. <<x, j>> \in Nodes \X Clients
      BY <2>1
    <3> QED  BY <2>1, <3>2, <3>3, <3>4
  <2>3. TypeOK'
    BY <2>1, <2>2, TypesKept DEF Base, TypeOK, proc
  <2> QED  BY <1>3, <2>1, <2>3, GiveUpEffect DEF Base, proc
<1> QED  BY <1>1, <1>2, <1>3

LEMMA BaseStep == ASSUME Base, [Next]_vars PROVE Base'
<1>1. CASE UNCHANGED vars
  BY <1>1 DEF Base, TypeOK, Addressed, Table, vars, options, proc, link, queues
<1>2. ASSUME NEW x \in Nodes, Program(x) PROVE Base'
  BY <1>2, SetupTypes, LoopTypes, EndTypes DEF Program
<1>3. ASSUME NEW x \in Nodes, CallFails(x) \/ Acknowledge(x) PROVE Base'
  BY <1>3, EndTypes, AdapterTypes
<1>4. ASSUME NEW x \in Nodes, NEW j \in Links(x), Deliver(x, j) \/ GiveUp(x, j) PROVE Base'
  BY <1>4, AdapterTypes
<1> QED  BY <1>1, <1>2, <1>3, <1>4 DEF Next, Done

LEMMA BaseHolds == Spec => []Base
BY InitBase, BaseStep, PTL DEF Spec

\* Every counter, queue and table of the server, its clients and their adapters
\* keeps its type.
THEOREM TypeCorrect == Spec => []TypeOK
<1>1. Base => TypeOK
  BY DEF Base
<1> QED  BY <1>1, BaseHolds, PTL

-----------------------------------------------------------------------------
(* The ball.                                                               *)

LEMMA Numbers ==
  ASSUME Base, NEW c \in Clients
  PROVE  /\ Sent(c) \in Nat /\ Answered(c) \in Nat
         /\ out[c][c] \in Seq(Messages) /\ recv_cq[c] \in Seq(Clients)
         /\ recv_cq[Server] \in Seq(Clients)
         /\ out[Server][c] \in Seq(Messages)
<1>1. Table(pp_cnt, Nat) /\ Table(out, Seq(Messages))
  BY DEF Base, TypeOK
<1>2. c \in Links(Server) /\ c \in Links(c) /\ c \in Nodes /\ Server \in Nodes
  BY NodeFacts
<1>3. pp_cnt[Server][c] \in Nat /\ pp_cnt[c][c] \in Nat
  BY <1>1, <1>2, TableRead
<1>4. out[c][c] \in Seq(Messages) /\ out[Server][c] \in Seq(Messages)
  BY <1>1, <1>2, TableRead
<1> QED  BY <1>2, <1>3, <1>4 DEF Sent, Answered, Base, TypeOK

\* A ball that is seen nowhere it was not before is still one ball.
LEMMA BallKept ==
  ASSUME NEW c \in Clients, Ball(c), Sent(c)' = Sent(c), Answered(c)' = Answered(c),
         Unserved(c)' => Unserved(c),
         Coming(c)' => Coming(c), Arrived(c)' => Arrived(c), InHand(c)' => InHand(c),
         Going(c)' => Going(c), Returned(c)' => Returned(c), InHands(c)' => InHands(c),
         Len(recv_cq[c])' <= 1, Len(out[c][c])' <= 1
  PROVE  Ball(c)'
<1> HIDE DEF Coming, Arrived, InHand, Going, Returned, InHands, Unserved, Sent, Answered
<1>1. Bit(Coming(c))' + Bit(Arrived(c))' + Bit(InHand(c))' <= 1
  BY DEF Ball, Bit
<1>2. Bit(Going(c))' + Bit(Returned(c))' + Bit(InHands(c))' <= 1
  BY DEF Ball, Bit
<1> QED  BY <1>1, <1>2 DEF Ball, Forth, Back

\* A queue with its head gone, all gone, or as it was.
Shift(t, s) == \E d \in {0, 1} : Len(t) + d <= Len(s) /\ \A k \in 1..Len(t) : t[k] = s[k + d]

LEMMA ShiftFacts ==
  ASSUME NEW S, NEW s \in Seq(S)
  PROVE  Shift(s, s) /\ Shift(<<>>, s) /\ (s # <<>> => Shift(Tail(s), s))
<1>1. Len(s) \in Nat
  OBVIOUS
<1>2. Shift(s, s)
  BY <1>1 DEF Shift
<1>3. Shift(<<>>, s)
  BY <1>1 DEF Shift
<1>4. ASSUME s # <<>> PROVE Shift(Tail(s), s)
  <2>1. Len(Tail(s)) = Len(s) - 1 /\ \A k \in 1..Len(Tail(s)) : Tail(s)[k] = s[k + 1]
    BY <1>4
  <2> QED  BY <1>1, <2>1 DEF Shift
<1> QED  BY <1>2, <1>3, <1>4

LEMMA PostedKept ==
  ASSUME Base, Base', Posted, \A c \in Clients : Sent(c)' = Sent(c),
         \A q \in Clients : Shift(out'[Server][q], out[Server][q])
  PROVE  Posted' /\ \A c \in Clients : Coming(c)' => Coming(c)
<1>1. PICK d \in [Clients -> {0, 1}] : \A q \in Clients :
        /\ Len(out'[Server][q]) + d[q] <= Len(out[Server][q])
        /\ \A k \in 1..Len(out'[Server][q]) : out'[Server][q][k] = out[Server][q][k + d[q]]
  <2> DEFINE P(q, e) == /\ Len(out'[Server][q]) + e <= Len(out[Server][q])
                        /\ \A k \in 1..Len(out'[Server][q]) :
                             out'[Server][q][k] = out[Server][q][k + e]
             D == [q \in Clients |-> CHOOSE e \in {0, 1} : P(q, e)]
  <2>1. \A q \in Clients : \E e \in {0, 1} : P(q, e)
    BY DEF Shift
  <2> HIDE DEF P
  <2>2. D \in [Clients -> {0, 1}] /\ \A q \in Clients : P(q, D[q])
    BY <2>1
  <2> HIDE DEF D
  <2>3. \E d \in [Clients -> {0, 1}] : \A q \in Clients : P(q, d[q])
    BY <2>2
  <2> QED  BY <2>3 DEF P
<1>2. \A q \in Clients : /\ Len(out[Server][q]) \in Nat /\ Len(out'[Server][q]) \in Nat
                         /\ d[q] \in {0, 1}
  <2>1. \A q \in Clients : out[Server][q] \in Seq(Messages)
    BY Numbers
  <2>2. \A q \in Clients : out'[Server][q] \in Seq([to : Clients, last : BOOLEAN])
    BY DEF Base, Addressed
  <2> QED  BY <2>1, <2>2
<1>3. \A q \in Clients : \A k \in 1..Len(out'[Server][q]) :
        k + d[q] \in 1..Len(out[Server][q])
  BY <1>1, <1>2
<1>4. \A q \in Clients : \A k \in 1..Len(out'[Server][q]) :
        out'[Server][q][k].to \in Clients
  <2> SUFFICES ASSUME NEW q \in Clients, NEW k \in 1..Len(out'[Server][q])
               PROVE  out'[Server][q][k].to \in Clients
    OBVIOUS
  <2>1. out'[Server][q] \in Seq([to : Clients, last : BOOLEAN])
    BY DEF Base, Addressed
  <2>2. out'[Server][q][k] \in [to : Clients, last : BOOLEAN]
    BY <2>1, ElementOfQueue
  <2> QED  BY <2>2
<1>5. ASSUME NEW q \in Clients, NEW k \in 1..Len(out'[Server][q])
      PROVE  out'[Server][q][k].last = (pp_cnt'[Server][out'[Server][q][k].to] = NumTests)
  <2>1. /\ out'[Server][q][k] = out[Server][q][k + d[q]]
        /\ k + d[q] \in 1..Len(out[Server][q])
    BY <1>1, <1>3, <1>5
  <2>2. out[Server][q][k + d[q]].last = (Sent(out[Server][q][k + d[q]].to) = NumTests)
    BY <2>1 DEF Posted
  <2> QED  BY <1>4, <1>5, <2>1, <2>2 DEF Sent
<1>6. ASSUME NEW q \in Clients, NEW k \in 1..Len(out'[Server][q]),
             NEW r \in Clients, NEW n \in 1..Len(out'[Server][r]),
             out'[Server][r][n].to = out'[Server][q][k].to
      PROVE  r = q /\ n = k
  <2>1. /\ out'[Server][q][k] = out[Server][q][k + d[q]]
        /\ out'[Server][r][n] = out[Server][r][n + d[r]]
        /\ k + d[q] \in 1..Len(out[Server][q]) /\ n + d[r] \in 1..Len(out[Server][r])
    BY <1>1, <1>3, <1>6
  <2>2. r = q /\ n + d[r] = k + d[q]
    BY <1>6, <2>1 DEF Posted
  <2>3. n \in Nat /\ k \in Nat /\ d[q] \in Nat
    BY <1>2
  <2> QED  BY <2>2, <2>3
<1>7. ASSUME NEW c \in Clients, Coming(c)' PROVE Coming(c)
  <2>1. PICK q \in Clients : \E k \in 1..Len(out'[Server][q]) : out'[Server][q][k].to = c
    BY <1>7 DEF Coming
  <2> QED  BY <1>1, <1>3, <2>1 DEF Coming
<1> QED  BY <1>5, <1>6, <1>7 DEF Posted, Sent

LEMMA AnswersKept ==
  ASSUME Base, Base', Answers, \A c \in Clients : Answered(c)' = Answered(c),
         \A c \in Clients : out'[c][c] = out[c][c] \/ out'[c][c] = <<>>
  PROVE  Answers'
BY DEF Answers

\* The queue pairs of the server, and those of a client, are untouched.
LEMMA ComingSame ==
  ASSUME \A q \in Clients : out'[Server][q] = out[Server][q], NEW c \in Clients
  PROVE  Coming(c)' <=> Coming(c)
BY DEF Coming

\* The server sends the ball to client j.
LEMMA ServerSends ==
  ASSUME Base, Base', Posted, NEW j \in Clients, PostSend(Server, j),
         Sent(j) < NumTests, ~ Coming(j)
  PROVE  /\ Posted'
         /\ Sent(j)' = Sent(j) + 1
         /\ \A c \in Clients : c # j => Sent(c)' = Sent(c) /\ (Coming(c)' <=> Coming(c))
         /\ \A c \in Clients : Answered(c)' = Answered(c) /\ out'[c][c] = out[c][c]
         /\ \/ Coming(j)' /\ send_cq' = send_cq
            \/ /\ ~ Coming(j)' /\ send_cq' = [send_cq EXCEPT ![Server] = @ + 1]
               /\ \E q \in Clients : <<Server, q>> \in broken
<1> DEFINE m == [to |-> j, last |-> Sent(j) + 1 >= NumTests]
<1>1. j \in Links(Server) /\ Server \in Nodes /\ Far(Server, j) = j /\ Links(Server) = Clients
  BY NodeFacts
<1>2. /\ Updated(pp_cnt', pp_cnt, Nat, Server, j, Sent(j) + 1)
      /\ \E q \in Clients :
              \/ /\ <<Server, q>> \in broken /\ out' = out
                 /\ send_cq' = [send_cq EXCEPT ![Server] = @ + 1]
              \/ /\ send_cq' = send_cq
                 /\ Updated(out', out, Seq(Messages), Server, q, Append(out[Server][q], m))
  BY <1>1, SendEffect DEF Sent
<1>3. Sent(j)' = Sent(j) + 1
  BY <1>2 DEF Updated, Sent
<1>4. \A c \in Clients : c # j => Sent(c)' = Sent(c)
  BY <1>1, <1>2 DEF Updated, Only, Sent
<1>5. \A c \in Clients : Answered(c)' = Answered(c)
  BY <1>2, NodeFacts DEF Updated, Only, Answered
<1>6. PICK q \in Clients :
              \/ /\ <<Server, q>> \in broken /\ out' = out
                 /\ send_cq' = [send_cq EXCEPT ![Server] = @ + 1]
              \/ /\ send_cq' = send_cq
                 /\ Updated(out', out, Seq(Messages), Server, q, Append(out[Server][q], m))
  BY <1>2
<1>8. \A r \in Clients : \A k \in 1..Len(out[Server][r]) :
        out[Server][r][k].to \in Clients /\ out[Server][r][k].to # j
  <2> SUFFICES ASSUME NEW r \in Clients, NEW k \in 1..Len(out[Server][r])
               PROVE  out[Server][r][k].to \in Clients /\ out[Server][r][k].to # j
    OBVIOUS
  <2>1. out[Server][r] \in Seq([to : Clients, last : BOOLEAN])
    BY DEF Base, Addressed
  <2>2. out[Server][r][k] \in [to : Clients, last : BOOLEAN]
    BY <2>1, ElementOfQueue
  <2> QED  BY <2>2 DEF Coming
<1>9. CASE /\ <<Server, q>> \in broken /\ out' = out
           /\ send_cq' = [send_cq EXCEPT ![Server] = @ + 1]
  <2>1. \A c \in Clients : Coming(c)' <=> Coming(c)
    BY <1>9, ComingSame
  <2>2. Posted'
    BY <1>4, <1>8, <1>9, SMTT(20) DEF Posted, Sent
  <2> QED  BY <1>3, <1>4, <1>5, <1>9, <2>1, <2>2
<1>10. CASE /\ send_cq' = send_cq
            /\ Updated(out', out, Seq(Messages), Server, q, Append(out[Server][q], m))
  <2> DEFINE l == Len(out[Server][q])
  <2>1. /\ \A r \in Clients : r # q => out'[Server][r] = out[Server][r]
        /\ \A c \in Clients : out'[c][c] = out[c][c]
    BY <1>10, NodeFacts DEF Updated, Only
  <2>2. out[Server][q] \in Seq(Messages) /\ l \in Nat
    BY Numbers
  <2>3. out'[Server][q] = Append(out[Server][q], m)
    BY <1>10 DEF Updated
  <2>4. /\ Len(out'[Server][q]) = l + 1 /\ out'[Server][q][l + 1] = m
        /\ \A k \in 1..l : out'[Server][q][k] = out[Server][q][k]
    BY <2>2, <2>3
  <2> HIDE DEF l
  <2>5. m.to = j /\ m.last = (Sent(j) + 1 >= NumTests)
    OBVIOUS
  <2>6. m.last = (Sent(j)' = NumTests)
    <3>1. Sent(j) \in Nat
      BY Numbers
    <3> QED  BY <1>3, <2>5, <3>1, NodeFacts
  <2> HIDE DEF m
  <2>7. \A r \in Clients : \A k \in 1..Len(out'[Server][r]) :
          \/ r = q /\ k = l + 1 /\ out'[Server][r][k] = m
          \/ k \in 1..Len(out[Server][r]) /\ out'[Server][r][k] = out[Server][r][k]
    BY <2>1, <2>2, <2>4 DEF l
  <2>8. ASSUME NEW r \in Clients, NEW k \in 1..Len(out'[Server][r])
        PROVE  out'[Server][r][k].last = (pp_cnt'[Server][out'[Server][r][k].to] = NumTests)
    <3>1. CASE out'[Server][r][k] = m
      BY <2>5, <2>6, <3>1 DEF Sent
    <3>2. CASE k \in 1..Len(out[Server][r]) /\ out'[Server][r][k] = out[Server][r][k]
      BY <1>4, <1>8, <3>2 DEF Posted, Sent
    <3> QED  BY <2>7, <3>1, <3>2
  <2>9. ASSUME NEW r \in Clients, NEW k \in 1..Len(out'[Server][r]),
               NEW s \in Clients, NEW n \in 1..Len(out'[Server][s]),
               out'[Server][s][n].to = out'[Server][r][k].to
        PROVE  s = r /\ n = k
    <3>1. CASE r = q /\ k = l + 1 /\ out'[Server][r][k] = m
      <4>1. ~ (n \in 1..Len(out[Server][s]) /\ out'[Server][s][n] = out[Server][s][n])
        BY <1>8, <2>5, <2>9, <3>1
      <4> QED  BY <2>7, <3>1, <4>1
    <3>2. CASE k \in 1..Len(out[Server][r]) /\ out'[Server][r][k] = out[Server][r][k]
      <4>1. ~ (s = q /\ n = l + 1 /\ out'[Server][s][n] = m)
        BY <1>8, <2>5, <2>9, <3>2
      <4>2. n \in 1..Len(out[Server][s]) /\ out'[Server][s][n] = out[Server][s][n]
        BY <2>7, <4>1
      <4> QED  BY <2>9, <3>2, <4>2 DEF Posted
    <3> QED  BY <2>7, <3>1, <3>2
  <2>10. Posted'
    BY <2>8, <2>9 DEF Posted, Sent
  <2>11. Coming(j)'
    BY <2>2, <2>4, <2>5 DEF Coming
  <2>12. ASSUME NEW c \in Clients, c # j PROVE Coming(c)' <=> Coming(c)
    <3>1. ASSUME Coming(c)' PROVE Coming(c)
      <4>1. PICK r \in Clients : \E k \in 1..Len(out'[Server][r]) : out'[Server][r][k].to = c
        BY <3>1 DEF Coming
      <4>2. PICK k \in 1..Len(out'[Server][r]) : out'[Server][r][k].to = c
        BY <4>1
      <4>3. k \in 1..Len(out[Server][r]) /\ out'[Server][r][k] = out[Server][r][k]
        BY <2>5, <2>7, <2>12, <4>2
      <4> QED  BY <4>2, <4>3 DEF Coming
    <3>2. ASSUME Coming(c) PROVE Coming(c)'
      <4>1. PICK r \in Clients : \E k \in 1..Len(out[Server][r]) : out[Server][r][k].to = c
        BY <3>2 DEF Coming
      <4>2. PICK k \in 1..Len(out[Server][r]) : out[Server][r][k].to = c
        BY <4>1
      <4>3. k \in 1..Len(out'[Server][r]) /\ out'[Server][r][k] = out[Server][r][k]
        BY <2>1, <2>2, <2>4 DEF l
      <4> QED  BY <4>2, <4>3 DEF Coming
    <3> QED  BY <3>1, <3>2
  <2> QED  BY <1>3, <1>4, <1>5, <1>10, <2>1, <2>10, <2>11, <2>12
<1> QED  BY <1>6, <1>9, <1>10

\* Client c sends it back.
LEMMA ClientSends ==
  ASSUME Base, Base', Answers, NEW c \in Clients, PostSend(c, c),
         Answered(c) < NumTests, ~ Going(c)
  PROVE  /\ Answers'
         /\ Answered(c)' = Answered(c) + 1
         /\ \A d \in Clients : /\ Sent(d)' = Sent(d)
                               /\ out'[Server][d] = out[Server][d]
         /\ \A d \in Clients : d # c => /\ Answered(d)' = Answered(d)
                                        /\ out'[d][d] = out[d][d]
         /\ Len(out'[c][c]) <= 1
         /\ \/ Going(c)' /\ send_cq' = send_cq
            \/ /\ ~ Going(c)' /\ send_cq' = [send_cq EXCEPT ![c] = @ + 1]
               /\ <<c, c>> \in broken
<1> DEFINE m == [to |-> Server, last |-> Answered(c) + 1 >= NumTests]
<1>1. c \in Links(c) /\ c \in Nodes /\ Far(c, c) = Server /\ Links(c) = {c}
  BY NodeFacts
<1>2. /\ Updated(pp_cnt', pp_cnt, Nat, c, c, Answered(c) + 1)
      /\ \/ /\ <<c, c>> \in broken /\ out' = out
            /\ send_cq' = [send_cq EXCEPT ![c] = @ + 1]
         \/ /\ send_cq' = send_cq
            /\ Updated(out', out, Seq(Messages), c, c, Append(out[c][c], m))
  <2>1. /\ Updated(pp_cnt', pp_cnt, Nat, c, c, Answered(c) + 1)
        /\ \E q \in Links(c) :
             \/ /\ <<c, q>> \in broken /\ out' = out
                /\ send_cq' = [send_cq EXCEPT ![c] = @ + 1]
             \/ /\ send_cq' = send_cq
                /\ Updated(out', out, Seq(Messages), c, q, Append(out[c][q], m))
    BY <1>1, SendEffect DEF Answered
  <2>2. \A q \in Links(c) : q = c
    BY <1>1
  <2> HIDE DEF m
  <2> QED  BY <2>1, <2>2
<1>3. Answered(c)' = Answered(c) + 1
  BY <1>2 DEF Updated, Answered
<1>4. \A d \in Clients : Sent(d)' = Sent(d) /\ (d # c => Answered(d)' = Answered(d))
  BY <1>2, NodeFacts DEF Updated, Only, Answered, Sent
<1>5. out[c][c] = <<>>
  BY DEF Going
<1>6. CASE /\ <<c, c>> \in broken /\ out' = out
           /\ send_cq' = [send_cq EXCEPT ![c] = @ + 1]
  <2>1. Answers'
    BY <1>4, <1>5, <1>6 DEF Answers, Answered
  <2> QED  BY <1>3, <1>4, <1>5, <1>6, <2>1 DEF Going
<1>7. CASE /\ send_cq' = send_cq
           /\ Updated(out', out, Seq(Messages), c, c, Append(out[c][c], m))
  <2>1. out'[c][c] = <<m>>
    BY <1>5, <1>7 DEF Updated
  <2>2. \A d \in Clients : out'[Server][d] = out[Server][d] /\ (d # c => out'[d][d] = out[d][d])
    BY <1>7, NodeFacts DEF Updated, Only
  <2>3. Len(out'[c][c]) = 1 /\ out'[c][c][1] = m /\ out'[c][c] # <<>>
    BY <2>1
  <2>4. m = [to |-> Server, last |-> Answered(c)' = NumTests]
    <3>1. Answered(c) \in Nat
      BY Numbers
    <3>2. (Answered(c) + 1 >= NumTests) = (Answered(c)' = NumTests)
      BY <1>3, <3>1, NodeFacts
    <3> QED  BY <3>2
  <2> HIDE DEF m
  <2>5. Answers'
    BY <1>4, <2>2, <2>3, <2>4 DEF Answers, Answered
  <2> QED  BY <1>3, <1>4, <1>7, <2>2, <2>3, <2>5 DEF Going
<1> QED  BY <1>2, <1>6, <1>7

\* The ball arrives at a client.
LEMMA ClientGets ==
  ASSUME Base, Base', Posted, NEW q \in Clients, Deliver(Server, q),
         NEW y, y = Head(out[Server][q]).to
  PROVE  /\ y \in Clients /\ Head(out[Server][q]).last = (Sent(y) = NumTests)
         /\ Coming(y) /\ ~ Coming(y)'
         /\ \A c \in Clients : c # y => (Coming(c)' <=> Coming(c))
         /\ \A c \in Clients : out'[c][c] = out[c][c]
         /\ Posted'
         /\ pc[y] \notin Over /\ rq[y] > 0 /\ rq' = [rq EXCEPT ![y] = @ - 1]
         /\ recv_cq' = [recv_cq EXCEPT ![y] = Append(@, y)]
         /\ acks' = [acks EXCEPT ![Server] = IF Head(out[Server][q]).last THEN @ + 1 ELSE @]
         /\ UNCHANGED <<options, pc, proc, tcp, conn, broken, send_cq>>
<1> DEFINE m == Head(out[Server][q])
<1>1. q \in Links(Server) /\ Server \in Nodes
  BY NodeFacts
<1>2. /\ out[Server][q] \in Seq(Messages) /\ out[Server][q] # <<>> /\ y \in Clients
      /\ Updated(out', out, Seq(Messages), Server, q, Tail(out[Server][q]))
  BY <1>1, DeliverEffect
<1>3. /\ Len(out[Server][q]) \in Nat /\ 1 \in 1..Len(out[Server][q])
      /\ m = out[Server][q][1]
      /\ Len(Tail(out[Server][q])) = Len(out[Server][q]) - 1
      /\ \A k \in 1..Len(Tail(out[Server][q])) : /\ Tail(out[Server][q])[k] = out[Server][q][k + 1]
                                                 /\ k + 1 \in 1..Len(out[Server][q])
                                                 /\ k + 1 # 1
  BY <1>2
<1>4. /\ out'[Server][q] = Tail(out[Server][q])
      /\ \A r \in Clients : r # q => out'[Server][r] = out[Server][r]
      /\ \A c \in Clients : out'[c][c] = out[c][c]
  BY <1>2, NodeFacts DEF Updated, Only
<1>5. /\ pc[y] \notin Over /\ rq[y] > 0 /\ rq' = [rq EXCEPT ![y] = @ - 1]
      /\ recv_cq' = [recv_cq EXCEPT ![y] = Append(@, y)]
      /\ acks' = [acks EXCEPT ![Server] = IF m.last THEN @ + 1 ELSE @]
      /\ UNCHANGED <<options, pc, proc, tcp, conn, broken, send_cq>>
  BY DEF Deliver
<1>6. \A c \in Clients : Sent(c)' = Sent(c)
  BY <1>5 DEF Sent, proc
<1>7. \A r \in Clients : Shift(out'[Server][r], out[Server][r])
  <2> SUFFICES ASSUME NEW r \in Clients PROVE Shift(out'[Server][r], out[Server][r])
    OBVIOUS
  <2>1. out[Server][r] \in Seq(Messages)
    BY Numbers
  <2>2. Shift(out[Server][r], out[Server][r])
        /\ (out[Server][r] # <<>> => Shift(Tail(out[Server][r]), out[Server][r]))
    BY <2>1, ShiftFacts
  <2> QED  BY <1>2, <1>4, <2>2
<1>8. Posted' /\ \A c \in Clients : Coming(c)' => Coming(c)
  BY <1>6, <1>7, PostedKept
<1>9. Coming(y) /\ m.last = (Sent(y) = NumTests)
  BY <1>1, <1>2, <1>3 DEF Coming, Posted
<1>10. ~ Coming(y)'
  <2> SUFFICES ASSUME NEW r \in Clients, NEW k \in 1..Len(out'[Server][r]),
                      out'[Server][r][k].to = y
               PROVE  FALSE
    BY DEF Coming
  <2>1. CASE r # q
    BY <1>2, <1>3, <1>4, <2>1 DEF Posted
  <2>2. CASE r = q
    <3>1. out[Server][q][k + 1].to = y /\ k + 1 \in 1..Len(out[Server][q]) /\ k + 1 # 1
      BY <1>3, <1>4, <2>2
    <3> QED  BY <1>3, <3>1 DEF Posted
  <2> QED  BY <2>1, <2>2
<1>11. ASSUME NEW c \in Clients, c # y, Coming(c) PROVE Coming(c)'
  <2>1. PICK r \in Clients : \E k \in 1..Len(out[Server][r]) : out[Server][r][k].to = c
    BY <1>11 DEF Coming
  <2>2. PICK k \in 1..Len(out[Server][r]) : out[Server][r][k].to = c
    BY <2>1
  <2>3. CASE r # q
    BY <1>4, <2>2, <2>3 DEF Coming
  <2>4. CASE r = q
    <3>1. k # 1
      BY <1>3, <1>11, <2>2, <2>4
    <3>2. k - 1 \in 1..Len(Tail(out[Server][q])) /\ (k - 1) + 1 = k
      BY <1>3, <2>2, <2>4, <3>1
    <3>3. out'[Server][q][k - 1].to = c
      BY <1>3, <1>4, <2>2, <2>4, <3>2
    <3> QED  BY <1>4, <3>2, <3>3 DEF Coming
  <2> QED  BY <2>3, <2>4
<1> QED  BY <1>2, <1>4, <1>5, <1>8, <1>9, <1>10, <1>11

\* The ball arrives at the server.
LEMMA ServerGets ==
  ASSUME Base, Base', Answers, NEW c \in Clients, Ball(c), Deliver(c, c)
  PROVE  /\ Going(c) /\ ~ Going(c)' /\ out'[c][c] = <<>>
         /\ Head(out[c][c]).last = (Answered(c) = NumTests)
         /\ \A d \in Clients : out'[Server][d] = out[Server][d]
         /\ \A d \in Clients : d # c => out'[d][d] = out[d][d]
         /\ Answers'
         /\ pc[Server] \notin Over /\ rq[Server] > 0
         /\ rq' = [rq EXCEPT ![Server] = @ - 1]
         /\ recv_cq' = [recv_cq EXCEPT ![Server] = Append(@, c)]
         /\ acks' = [acks EXCEPT ![c] = IF Head(out[c][c]).last THEN @ + 1 ELSE @]
         /\ UNCHANGED <<options, pc, proc, tcp, conn, broken, send_cq>>
<1> DEFINE m == Head(out[c][c])
<1>1. c \in Links(c) /\ c \in Nodes /\ c # Server
  BY NodeFacts
<1>2. /\ out[c][c] \in Seq(Messages) /\ out[c][c] # <<>>
      /\ Updated(out', out, Seq(Messages), c, c, Tail(out[c][c]))
  BY <1>1, DeliverEffect
<1>3. Len(out[c][c]) <= 1
  BY DEF Ball
<1>4. Tail(out[c][c]) = <<>> /\ m = out[c][c][1] /\ 1 \in 1..Len(out[c][c])
  BY <1>2, <1>3
<1>5. m = [to |-> Server, last |-> Answered(c) = NumTests]
  BY <1>4 DEF Answers
<1>6. m.to = Server /\ m.last = (Answered(c) = NumTests)
  BY <1>5
<1>7. /\ out'[c][c] = <<>>
      /\ \A d \in Clients : out'[Server][d] = out[Server][d]
      /\ \A d \in Clients : d # c => out'[d][d] = out[d][d]
  BY <1>2, <1>4, NodeFacts DEF Updated, Only
<1>8. /\ pc[m.to] \notin Over /\ rq[m.to] > 0 /\ rq' = [rq EXCEPT ![m.to] = @ - 1]
      /\ recv_cq' = [recv_cq EXCEPT ![m.to] = Append(@, c)]
      /\ acks' = [acks EXCEPT ![c] = IF m.last THEN @ + 1 ELSE @]
      /\ UNCHANGED <<options, pc, proc, tcp, conn, broken, send_cq>>
  BY <1>1 DEF Deliver
<1>9. \A d \in Clients : Answered(d)' = Answered(d)
  BY <1>8 DEF Answered, proc
<1>10. Answers'
  BY <1>7, <1>9, AnswersKept
<1> HIDE DEF m
<1> QED  BY <1>2, <1>6, <1>7, <1>8, <1>10 DEF Going, m

\* What is lost when a queue pair gives up, and when a process leaves.
LEMMA BallsLost ==
  ASSUME Base, Base', Posted, Answers, pp_cnt' = pp_cnt,
         \A q \in Clients : out'[Server][q] = out[Server][q] \/ out'[Server][q] = <<>>,
         \A c \in Clients : out'[c][c] = out[c][c] \/ out'[c][c] = <<>>
  PROVE  /\ Posted' /\ Answers'
         /\ \A c \in Clients : /\ Coming(c)' => Coming(c)
                               /\ Going(c)' => Going(c)
                               /\ Len(out[c][c]) <= 1 => Len(out'[c][c]) <= 1
<1>1. \A c \in Clients : Sent(c)' = Sent(c) /\ Answered(c)' = Answered(c)
  BY DEF Sent, Answered
<1>2. \A q \in Clients : Shift(out'[Server][q], out[Server][q])
  <2> SUFFICES ASSUME NEW q \in Clients PROVE Shift(out'[Server][q], out[Server][q])
    OBVIOUS
  <2>1. out[Server][q] \in Seq(Messages)
    BY Numbers
  <2>2. Shift(out[Server][q], out[Server][q]) /\ Shift(<<>>, out[Server][q])
    BY <2>1, ShiftFacts
  <2> QED  BY <2>2
<1>3. Posted' /\ \A c \in Clients : Coming(c)' => Coming(c)
  BY <1>1, <1>2, PostedKept
<1>4. Answers'
  BY <1>1, AnswersKept
<1>5. \A c \in Clients : /\ Going(c)' => Going(c)
                         /\ Len(out[c][c]) <= 1 => Len(out'[c][c]) <= 1
  BY DEF Going
<1> QED  BY <1>3, <1>4, <1>5

LEMMA RowsLost ==
  ASSUME Base, NEW x \in Nodes,
         \/ \E how : Leave(x, how)
         \/ \E j \in Links(x) : GiveUp(x, j)
  PROVE  /\ \A q \in Clients : out'[Server][q] = out[Server][q] \/ out'[Server][q] = <<>>
         /\ \A c \in Clients : out'[c][c] = out[c][c] \/ out'[c][c] = <<>>
<1>1. ASSUME NEW how, Leave(x, how), NEW y \in Nodes, NEW j \in Links(y)
      PROVE  out'[y][j] = out[y][j] \/ out'[y][j] = <<>>
  BY <1>1, LeaveEffect DEF UpdatedRow, OnlyRow
<1>2. ASSUME NEW k \in Links(x), GiveUp(x, k), NEW y \in Nodes, NEW j \in Links(y)
      PROVE  out'[y][j] = out[y][j] \/ out'[y][j] = <<>>
  BY <1>2, GiveUpEffect DEF Updated, Only
<1>3. \A y \in Nodes : \A j \in Links(y) : out'[y][j] = out[y][j] \/ out'[y][j] = <<>>
  BY <1>1, <1>2
<1> QED  BY <1>3, NodeFacts

\* A process keeps its credit while its receives, their completions and what it
\* has in hand stay the same.
LEMMA CreditKept ==
  ASSUME NEW x \in Nodes, Credit(x), rq'[x] = rq[x], recv_cq'[x] = recv_cq[x],
         \/ pc'[x] = pc[x]
         \/ pc'[x] \in Over
         \/ /\ {pc[x], pc'[x]} \cap ({"start", "post_recv"} \cup Over) = {}
  PROVE  Credit(x)'
BY DEF Credit, Bit, Over, Count, Links

\* A step that moves no ball.
LEMMA QuietStep ==
  ASSUME BallInv, Base', UNCHANGED <<pp_cnt, out, recv_cq>>,
         \A c \in Clients : /\ Unserved(c)' => Unserved(c)
                            /\ InHand(c)' => InHand(c)
                            /\ InHands(c)' => InHands(c),
         \A x \in Nodes : Credit(x)'
  PROVE  BallInv'
<1>1. Posted' /\ Answers' /\ Distinct'
  BY DEF BallInv, Posted, Answers, Distinct, Sent, Answered
<1>2. ASSUME NEW c \in Clients PROVE Ball(c)'
  <2>1. /\ Sent(c)' = Sent(c) /\ Answered(c)' = Answered(c) /\ Coming(c)' = Coming(c)
        /\ Arrived(c)' = Arrived(c) /\ Going(c)' = Going(c) /\ Returned(c)' = Returned(c)
        /\ Len(recv_cq[c])' = Len(recv_cq[c]) /\ Len(out[c][c])' = Len(out[c][c])
    BY DEF Sent, Answered, Coming, Arrived, Going, Returned
  <2>2. Ball(c)
    BY DEF BallInv
  <2>3. Len(recv_cq[c])' <= 1 /\ Len(out[c][c])' <= 1
    BY <2>1, <2>2 DEF Ball
  <2> HIDE DEF Sent, Answered, Coming, Arrived, Going, Returned, Unserved, InHand, InHands
  <2> QED  BY <2>1, <2>2, <2>3, BallKept
<1> QED  BY <1>1, <1>2 DEF BallInv

\* A step of one process from a to b.
LEMMA MovesOnly ==
  ASSUME Base, NEW x \in Nodes, NEW a, NEW b, Step(x, a, b)
  PROVE  /\ pc[x] = a /\ pc'[x] = b
         /\ \A y \in Nodes : y # x => pc'[y] = pc[y]
BY DEF Step, Base, TypeOK

LEMMA SetupBall ==
  ASSUME BallInv, NEW x \in Nodes,
         Prepare(x) \/ (x # Server /\ ClientConnect(x)) \/ (x = Server /\ ServerConnect)
  PROVE  BallInv'
<1>1. Base /\ Base'
  BY SetupTypes DEF BallInv
<1>2. UNCHANGED <<pp_cnt, out, recv_cq, wc>>
  BY DEF Prepare, ClientConnect, ServerConnect, ConnectQps, TcpOnly, link, queues, proc
<1>3. /\ \A y \in Nodes : y # x => pc'[y] = pc[y]
      /\ pc[x] \in Setup
      /\ pc'[x] \in Setup \cup {"serve"} \cup {"drain", "get_event", "poll"}
      /\ x = Server => pc'[x] \in Setup \/ (pc'[x] = "serve" /\ i' = 0)
  <2>1. CASE Prepare(x)
    BY <1>1, <2>1, MovesOnly DEF Prepare, Setup
  <2>2. CASE x # Server /\ ClientConnect(x)
    <3>1. PICK a, b : Step(x, a, b) /\ a \in Setup
                      /\ b \in Setup \cup {"drain", "get_event", "poll"}
      BY <2>2, PlaceFacts DEF ClientConnect, Setup
    <3> QED  BY <1>1, <2>2, <3>1, MovesOnly
  <2>3. CASE x = Server /\ ServerConnect
    <3>1. \E a, b : /\ Step(Server, a, b) /\ a \in Setup
                    /\ b \in Setup \/ (b = "serve" /\ i' = 0)
      <4>1. i \in Clients
        BY <1>1 DEF Base, TypeOK
      <4>2. ~ (i + 1 < NumClients) => (i + 1) % NumClients = 0
        BY <4>1, TurnFacts
      <4> QED  BY <2>3, <4>2 DEF ServerConnect, Setup
    <3> QED  BY <1>1, <2>3, <3>1, MovesOnly
  <2> QED  BY <2>1, <2>2, <2>3
<1>4. ASSUME NEW y \in Nodes PROVE Credit(y)'
  <2>1. Credit(y)
    BY DEF BallInv
  <2>2. CASE Prepare(x) /\ y = x
    <3>1. pc'[x] \notin {"start", "post_recv"} /\ pc[x] = "start"
      BY <1>1, <2>2, MovesOnly DEF Prepare
    <3>4. rq'[x] = Count(x)
      BY <1>1, <2>2 DEF Prepare, Base, TypeOK
    <3>2. recv_cq'[x] = <<>>
      BY <1>2, <2>1, <2>2, <3>1 DEF Credit
    <3>3. Count(x) \in Nat /\ Count(x)' = Count(x)
      BY CountFacts DEF Count, Links
    <3> QED  BY <2>2, <3>1, <3>2, <3>3, <3>4 DEF Credit, Bit
  <2>3. CASE y # x \/ ~ Prepare(x)
    <3>1. rq'[y] = rq[y]
      BY <1>1, <2>3 DEF Prepare, ClientConnect, ServerConnect, ConnectQps, TcpOnly, queues,
                        Base, TypeOK
    <3>2. y = x => pc[x] # "start" /\ pc'[x] # "start"
      BY <1>1, <2>3, MovesOnly, PlaceFacts DEF ClientConnect, ServerConnect
    <3> QED  BY <1>2, <1>3, <2>1, <3>1, <3>2, CreditKept DEF Setup, Over
  <2> QED  BY <2>2, <2>3
<1>5. ASSUME NEW c \in Clients
      PROVE  /\ Unserved(c)' => Unserved(c)
             /\ InHand(c)' => InHand(c)
             /\ InHands(c)' => InHands(c)
  <2>1. pc'[Server] = pc[Server] \/ (x = Server /\ pc[Server] \in Setup)
    BY <1>3, NodeFacts
  <2>2. Unserved(c)' => Unserved(c)
    <3>1. CASE x = Server
      BY <1>3, <3>1 DEF Unserved
    <3>2. CASE x # Server
      <4>1. i' = i \/ pc[Server] \in Setup
        BY <1>3, <3>2, NodeFacts DEF Prepare, ClientConnect, proc
      <4> QED  BY <2>1, <3>2, <4>1 DEF Unserved
    <3> QED  BY <3>1, <3>2
  <2> QED  BY <1>2, <1>3, <2>2, NodeFacts DEF InHand, InHands, Setup
<1> QED  BY <1>1, <1>2, <1>4, <1>5, QuietStep

\* The first send to client i.
LEMMA ServeBall == ASSUME BallInv, Serve PROVE BallInv'
<1>1. Base /\ Base' /\ Server \in Nodes
  BY LoopTypes, NodeFacts DEF BallInv
<1>2. PICK j \in Clients : j = i /\ PostSend(Server, j)
  BY <1>1 DEF Base, TypeOK, Serve
<1>3. PICK b : /\ Step(Server, "serve", b)
               /\ \/ b = "serve" /\ i + 1 < NumClients
                  \/ b \in {"drain", "get_event", "poll"}
  BY PlaceFacts DEF Serve
<1>4. /\ pc[Server] = "serve" /\ pc'[Server] = b
      /\ \A y \in Nodes : y # Server => pc'[y] = pc[y]
  BY <1>1, <1>3, MovesOnly
<1>5. Ball(j)
  BY <1>2 DEF BallInv
<1>6. Sent(j) \in Nat /\ Answered(j) \in Nat
  BY <1>1, <1>2, Numbers
<1>7. Unserved(j) /\ Sent(j) = 0 /\ Answered(j) = 0 /\ ~ Forth(j) /\ ~ Back(j)
  BY <1>2, <1>4, <1>5, <1>6, NodeFacts DEF Ball, Unserved, Clients
<1>8. /\ Posted' /\ Sent(j)' = Sent(j) + 1
      /\ \A c \in Clients : c # j => Sent(c)' = Sent(c) /\ (Coming(c)' <=> Coming(c))
      /\ \A c \in Clients : Answered(c)' = Answered(c) /\ out'[c][c] = out[c][c]
  <2>1. Posted /\ Sent(j) < NumTests /\ ~ Coming(j)
    BY <1>7, NodeFacts DEF BallInv, Forth
  <2> QED  BY <1>1, <1>2, <2>1, ServerSends
<1>9. UNCHANGED <<recv_cq, wc, rq>>
  BY DEF Serve
<1>10. \A c \in Clients : /\ Arrived(c)' = Arrived(c) /\ Going(c)' = Going(c)
                          /\ Returned(c)' = Returned(c) /\ InHand(c)' = InHand(c)
                          /\ ~ InHands(c)'
  BY <1>3, <1>4, <1>8, <1>9, NodeFacts DEF Arrived, Going, Returned, InHand, InHands
<1>11. ASSUME NEW c \in Clients, c # j PROVE Ball(c)'
  <2>1. Unserved(c)' => Unserved(c)
    <3>1. i' = (i + 1) % NumClients
      BY DEF Serve
    <3>2. i + 1 < NumClients => i' = i + 1
      BY <1>2, <3>1, TurnFacts
    <3> QED  BY <1>2, <1>3, <1>4, <3>2, NodeFacts DEF Unserved, Setup, Clients
  <2>2. Ball(c)
    BY DEF BallInv
  <2>3. Len(recv_cq[c])' <= 1 /\ Len(out[c][c])' <= 1
    BY <1>8, <1>9, <2>2 DEF Ball
  <2>4. /\ Sent(c)' = Sent(c) /\ Answered(c)' = Answered(c) /\ (Coming(c)' <=> Coming(c))
    BY <1>8, <1>11
  <2> QED  BY <1>10, <2>1, <2>2, <2>3, <2>4, BallKept
<1>12. ASSUME NEW c \in Clients, c = j PROVE Ball(c)'
  <2>1. ~ Unserved(c)'
    <3>1. i' = (i + 1) % NumClients
      BY DEF Serve
    <3>2. i + 1 < NumClients => i' = i + 1
      BY <1>2, <3>1, TurnFacts
    <3> QED  BY <1>2, <1>3, <1>4, <1>12, <3>2, NodeFacts DEF Unserved, Setup, Clients
  <2>2. ~ Arrived(c)' /\ ~ InHand(c)' /\ ~ Back(c)'
    BY <1>7, <1>10, <1>12 DEF Forth, Back
  <2>3. Sent(c)' = 1 /\ Answered(c)' = 0
    BY <1>7, <1>8, <1>12
  <2>4. Len(recv_cq[c])' <= 1 /\ Len(out[c][c])' <= 1
    BY <1>5, <1>8, <1>9, <1>12 DEF Ball
  <2>5. Bit(Coming(c))' + Bit(Arrived(c))' + Bit(InHand(c))' <= 1
    BY <2>2 DEF Bit
  <2>6. Bit(Going(c))' + Bit(Returned(c))' + Bit(InHands(c))' <= 1
    BY <2>2 DEF Bit, Back
  <2> QED  BY <2>1, <2>2, <2>3, <2>4, <2>5, <2>6, NodeFacts DEF Ball, Forth
<1>13. Answers'
  BY <1>8 DEF BallInv, Answers, Answered
<1>14. Distinct'
  BY <1>9 DEF BallInv, Distinct
<1>15. \A x \in Nodes : Credit(x)'
  BY <1>3, <1>4, <1>9, CreditKept DEF BallInv, Over
<1> QED  BY <1>1, <1>8, <1>11, <1>12, <1>13, <1>14, <1>15 DEF BallInv

\* Steps of the loop and of the termination that move no ball.
LEMMA OwnBall ==
  ASSUME BallInv, NEW x \in Nodes,
         \/ GetCqEvent(x) \/ ReqNotify(x) \/ PostRecv(x) \/ Drain(x)
         \/ PollCq(x) /\ recv_cq[x] = <<>>
         \/ x # Server /\ ClientTermination(x)
         \/ x = Server /\ ServerTermination
  PROVE  BallInv'
<1>1. Base /\ Base'
  BY LoopTypes, EndTypes DEF BallInv
<1>2. UNCHANGED <<pp_cnt, out, recv_cq, wc>>
  BY DEF GetCqEvent, ReqNotify, PostRecv, Drain, PollCq, ClientTermination,
         ServerTermination, TcpOnly, link, queues, proc
<1>3. PICK a, b : /\ Step(x, a, b)
                  /\ \/ /\ PostRecv(x) /\ a = "post_recv" /\ b = "reply"
                        /\ rq' = [rq EXCEPT ![x] = @ + 1]
                     \/ /\ {a, b} \cap (Setup \cup Over \cup {"serve", "post_recv", "reply"}) = {}
                        /\ rq' = rq
  <2>1. CASE GetCqEvent(x) \/ ReqNotify(x) \/ PostRecv(x)
    BY <2>1 DEF GetCqEvent, ReqNotify, PostRecv, Setup, Over
  <2>2. CASE Drain(x)
    <3>1. PICK b \in {"drain", "recv_end", "send_end"} : Step(x, "drain", b)
      BY <2>2 DEF Drain
    <3> QED  BY <2>2, <3>1 DEF Drain, Setup, Over
  <2>3. CASE PollCq(x) /\ recv_cq[x] = <<>>
    <3>1. PICK b \in {"drain", "get_event", "poll"} : Step(x, "poll", b)
      BY <2>3, PlaceFacts DEF PollCq
    <3> QED  BY <2>3, <3>1 DEF PollCq, Setup, Over, queues
  <2>4. CASE x # Server /\ ClientTermination(x)
    <3>1. PICK a, b : Step(x, a, b) /\ {a, b} \subseteq {"send_end", "recv_end", "close"}
      BY <2>4 DEF ClientTermination
    <3> QED  BY <2>4, <3>1 DEF ClientTermination, Setup, Over, queues, TcpOnly
  <2>5. CASE x = Server /\ ServerTermination
    <3>1. PICK a, b : Step(x, a, b) /\ {a, b} \subseteq {"send_end", "recv_end", "close"}
      BY <2>5 DEF ServerTermination
    <3> QED  BY <2>5, <3>1 DEF ServerTermination, Setup, Over, queues, TcpOnly
  <2> QED  BY <2>1, <2>2, <2>3, <2>4, <2>5
<1>4. pc[x] = a /\ pc'[x] = b /\ \A y \in Nodes : y # x => pc'[y] = pc[y]
  BY <1>1, <1>3, MovesOnly
<1>5. ASSUME NEW y \in Nodes PROVE Credit(y)'
  <2>1. Credit(y)
    BY DEF BallInv
  <2>2. CASE y = x /\ a = "post_recv" /\ b = "reply" /\ rq' = [rq EXCEPT ![x] = @ + 1]
    <3>1. rq'[x] = rq[x] + 1 /\ rq[x] \in Nat /\ Len(recv_cq[x]) \in Nat
      BY <1>1, <2>2 DEF Base, TypeOK
    <3>2. Count(x)' = Count(x) /\ Count(x) \in Nat
      BY CountFacts DEF Count, Links
    <3> QED  BY <1>2, <1>4, <2>1, <2>2, <3>1, <3>2 DEF Credit, Bit, Over
  <2>3. CASE y = x /\ {a, b} \cap (Setup \cup Over \cup {"serve", "post_recv", "reply"}) = {}
                   /\ rq' = rq
    BY <1>2, <1>4, <2>1, <2>3, CreditKept DEF Setup
  <2>4. CASE y # x
    <3>1. rq'[y] = rq[y]
      BY <1>1, <1>3, <2>4 DEF Base, TypeOK
    <3> QED  BY <1>2, <1>4, <2>1, <2>4, <3>1, CreditKept
  <2> QED  BY <1>3, <2>2, <2>3, <2>4
<1>6. ASSUME NEW c \in Clients
      PROVE  /\ Unserved(c)' => Unserved(c)
             /\ InHand(c)' => InHand(c)
             /\ InHands(c)' => InHands(c)
  <2>1. pc'[Server] \notin Setup \cup {"serve"} \/ pc'[Server] = pc[Server]
    BY <1>3, <1>4, NodeFacts DEF Setup
  <2>2. Unserved(c)' => Unserved(c)
    <3>1. i' = i \/ pc'[Server] \notin Setup \cup {"serve"}
      BY <1>3, <1>4 DEF GetCqEvent, ReqNotify, PostRecv, Drain, PollCq, ClientTermination,
                        ServerTermination, proc
    <3> QED  BY <2>1, <3>1 DEF Unserved
  <2>3. \A y \in Nodes : pc'[y] \in {"post_recv", "reply"} => pc[y] \in {"post_recv", "reply"}
    BY <1>3, <1>4
  <2> QED  BY <1>2, <2>2, <2>3, NodeFacts DEF InHand, InHands
<1> QED  BY <1>1, <1>2, <1>5, <1>6, QuietStep

\* A process takes a message from its queue.
LEMMA PollBall ==
  ASSUME BallInv, NEW x \in Nodes, PollCq(x), recv_cq[x] # <<>>
  PROVE  BallInv'
<1>1. Base /\ Base'
  BY LoopTypes DEF BallInv
<1>2. /\ Step(x, "poll", "post_recv") /\ wc' = [wc EXCEPT ![x] = Head(recv_cq[x])]
      /\ recv_cq' = [recv_cq EXCEPT ![x] = Tail(recv_cq[x])]
      /\ UNCHANGED <<i, pp_cnt, out, rq>>
  BY DEF PollCq, link
<1>3. pc[x] = "poll" /\ pc'[x] = "post_recv" /\ \A y \in Nodes : y # x => pc'[y] = pc[y]
  BY <1>1, <1>2, MovesOnly
<1>4. \A y \in Nodes : y # x => recv_cq'[y] = recv_cq[y]
  BY <1>1, <1>2 DEF Base, TypeOK
<1>5. /\ Len(recv_cq[x]) \in Nat \ {0} /\ Len(recv_cq'[x]) = Len(recv_cq[x]) - 1
      /\ wc'[x] = recv_cq[x][1] /\ 1 \in 1..Len(recv_cq[x])
      /\ Len(recv_cq[x]) <= 1 => recv_cq'[x] = <<>>
      /\ \A k \in 1..Len(recv_cq'[x]) : /\ recv_cq'[x][k] = recv_cq[x][k + 1]
                                        /\ k \in Nat /\ k + 1 \in 1..Len(recv_cq[x])
                                        /\ k + 1 # 1
  <2>1. recv_cq[x] \in Seq(Clients) /\ recv_cq'[x] = Tail(recv_cq[x]) /\ wc'[x] = Head(recv_cq[x])
    BY <1>1, <1>2 DEF Base, TypeOK
  <2> DEFINE s == recv_cq[x]
  <2>2. s \in Seq(Clients) /\ s # <<>>
    BY <2>1
  <2> HIDE DEF s
  <2>3. /\ Len(s) \in Nat \ {0} /\ Len(Tail(s)) = Len(s) - 1 /\ Head(s) = s[1]
        /\ 1 \in 1..Len(s) /\ (Len(s) <= 1 => Tail(s) = <<>>)
        /\ \A k \in 1..Len(Tail(s)) : Tail(s)[k] = s[k + 1]
    BY <2>2
  <2>4. \A k \in 1..(Len(s) - 1) : k \in Nat /\ k + 1 \in 1..Len(s) /\ k + 1 # 1
    BY <2>3
  <2> QED  BY <2>1, <2>3, <2>4 DEF s
<1>6. ASSUME NEW y \in Nodes PROVE Credit(y)'
  <2>1. Credit(y)
    BY DEF BallInv
  <2>2. CASE y = x
    <3>1. Count(x)' = Count(x) /\ Count(x) \in Nat /\ rq'[x] = rq[x] /\ rq[x] \in Nat
      BY <1>1, <1>2, CountFacts DEF Count, Links, Base, TypeOK
    <3> QED  BY <1>3, <1>4, <1>5, <2>1, <2>2, <3>1 DEF Credit, Bit, Over
  <2>3. CASE y # x
    BY <1>2, <1>3, <1>4, <2>1, <2>3, CreditKept
  <2> QED  BY <2>2, <2>3
<1>7. Posted' /\ Answers'
  BY <1>2 DEF BallInv, Posted, Answers, Sent, Answered
<1>8. Distinct'
  <2>1. CASE x = Server
    <3> SUFFICES ASSUME NEW j \in 1..Len(recv_cq'[Server]), NEW k \in 1..Len(recv_cq'[Server]),
                        recv_cq'[Server][j] = recv_cq'[Server][k]
                 PROVE  j = k
      BY DEF Distinct
    <3>3. /\ recv_cq[Server][j + 1] = recv_cq[Server][k + 1]
          /\ j + 1 \in 1..Len(recv_cq[Server]) /\ k + 1 \in 1..Len(recv_cq[Server])
      BY <1>5, <2>1
    <3>4. \A m, n \in 1..Len(recv_cq[Server]) : recv_cq[Server][m] = recv_cq[Server][n] => m = n
      BY DEF BallInv, Distinct
    <3>1. j + 1 = k + 1
      BY <3>3, <3>4
    <3>2. j \in Nat /\ k \in Nat
      BY <1>5, <2>1
    <3> QED  BY <3>1, <3>2
  <2>2. CASE x # Server
    BY <1>4, <2>2, NodeFacts DEF BallInv, Distinct
  <2> QED  BY <2>1, <2>2
<1>9. ASSUME NEW c \in Clients PROVE Ball(c)'
  <2>1. Ball(c)
    BY DEF BallInv
  <2>2. /\ Sent(c)' = Sent(c) /\ Answered(c)' = Answered(c)
        /\ Coming(c)' = Coming(c) /\ Going(c)' = Going(c)
        /\ (Unserved(c)' => Unserved(c))
    <3>1. pc'[Server] \in Setup \cup {"serve"} => pc'[Server] = pc[Server]
      BY <1>3, NodeFacts DEF Setup
    <3> QED  BY <1>2, <3>1 DEF Sent, Answered, Coming, Going, Unserved
  <2>3. Len(out[c][c])' <= 1
    BY <1>2, <2>1 DEF Ball
  <2>4. CASE x = c
    <3>1. pc'[Server] = pc[Server] /\ wc'[Server] = wc[Server] /\ recv_cq'[Server] = recv_cq[Server]
      BY <1>1, <1>2, <1>3, <1>4, <2>4, NodeFacts DEF Base, TypeOK
    <3>2. Returned(c)' = Returned(c) /\ InHands(c)' = InHands(c)
      BY <3>1 DEF Returned, InHands
    <3>3. Arrived(c) /\ ~ Arrived(c)' /\ ~ InHand(c) /\ InHand(c)' /\ Len(recv_cq[c])' <= 1
      <4>1. Len(recv_cq[c]) <= 1
        BY <2>1 DEF Ball
      <4>2. recv_cq'[c] = <<>>
        BY <1>5, <2>4, <4>1
      <4> QED  BY <1>3, <2>4, <4>2 DEF Arrived, InHand
    <3> HIDE DEF Sent, Answered, Coming, Arrived, Going, Returned, InHand, InHands, Unserved
    <3>4. /\ Bit(Coming(c))' + Bit(Arrived(c))' + Bit(InHand(c))' <= 1
          /\ Bit(Going(c))' + Bit(Returned(c))' + Bit(InHands(c))' <= 1
      BY <2>1, <2>2, <3>2, <3>3 DEF Ball, Bit
    <3> QED  BY <2>1, <2>2, <2>3, <3>2, <3>3, <3>4 DEF Ball, Forth, Back
  <2>5. CASE x = Server
    <3>1. pc'[c] = pc[c] /\ recv_cq'[c] = recv_cq[c] /\ Len(recv_cq[c])' <= 1
      BY <1>3, <1>4, <2>1, <2>5, NodeFacts DEF Ball
    <3>2. Arrived(c)' = Arrived(c) /\ InHand(c)' = InHand(c)
      BY <3>1 DEF Arrived, InHand
    <3>3. ~ InHands(c)
      BY <1>3, <2>5 DEF InHands
    <3>4. CASE c = wc'[Server]
      <4>1. Returned(c) /\ InHands(c)'
        BY <1>3, <1>4, <1>5, <2>5, <3>4 DEF Returned, InHands
      <4>2. ~ Returned(c)'
        BY <1>4, <1>5, <2>5, <3>4 DEF Returned, BallInv, Distinct
      <4> HIDE DEF Sent, Answered, Coming, Arrived, Going, Returned, InHand, InHands, Unserved
      <4>4. /\ Bit(Coming(c))' + Bit(Arrived(c))' + Bit(InHand(c))' <= 1
            /\ Bit(Going(c))' + Bit(Returned(c))' + Bit(InHands(c))' <= 1
        BY <2>1, <2>2, <3>2, <3>3, <4>1, <4>2 DEF Ball, Bit
      <4> QED  BY <2>1, <2>2, <2>3, <3>1, <3>2, <4>1, <4>2, <4>4 DEF Ball, Forth, Back
    <3>5. CASE c # wc'[Server]
      <4>1. ~ InHands(c)'
        BY <1>4, <2>5, <3>5 DEF InHands
      <4>2. Returned(c)' => Returned(c)
        BY <1>4, <1>5, <2>5 DEF Returned
      <4> QED  BY <2>1, <2>2, <2>3, <3>1, <3>2, <4>1, <4>2, BallKept
    <3> QED  BY <3>4, <3>5
  <2>6. CASE x # c /\ x # Server
    <3>1. /\ pc'[c] = pc[c] /\ recv_cq'[c] = recv_cq[c] /\ Len(recv_cq[c])' <= 1
          /\ pc'[Server] = pc[Server] /\ wc'[Server] = wc[Server]
          /\ recv_cq'[Server] = recv_cq[Server]
      BY <1>1, <1>2, <1>3, <1>4, <2>1, <2>6, NodeFacts DEF Ball, Base, TypeOK
    <3>2. /\ Arrived(c)' = Arrived(c) /\ InHand(c)' = InHand(c)
          /\ Returned(c)' = Returned(c) /\ InHands(c)' = InHands(c)
      BY <3>1 DEF Arrived, InHand, Returned, InHands
    <3> QED  BY <2>1, <2>2, <2>3, <3>1, <3>2, BallKept
  <2> QED  BY <2>4, <2>5, <2>6
<1> QED  BY <1>1, <1>6, <1>7, <1>8, <1>9 DEF BallInv

\* The server answers, or has sent enough.
LEMMA ServerReplies ==
  ASSUME BallInv, Reply(Server)
  PROVE  \E c \in Clients :
           /\ InHands(c) /\ c = wc[Server]
           /\ \/ /\ Sent(c) < NumTests /\ PostSend(Server, c)
                 /\ Sent(c)' = Sent(c) + 1
                 /\ \/ Coming(c)' /\ send_cq' = send_cq
                    \/ /\ ~ Coming(c)' /\ send_cq' = [send_cq EXCEPT ![Server] = @ + 1]
                       /\ \E q \in Clients : <<Server, q>> \in broken
              \/ /\ Sent(c) = NumTests /\ UNCHANGED <<pp_cnt, out, send_cq>>
                 /\ Sent(c)' = Sent(c) /\ ~ Coming(c)'
           /\ Posted' /\ ~ Forth(c)
           /\ \A d \in Clients : d # c => Sent(d)' = Sent(d) /\ (Coming(d)' <=> Coming(d))
           /\ \A d \in Clients : Answered(d)' = Answered(d) /\ out'[d][d] = out[d][d]
<1>1. Base /\ Base' /\ Server \in Nodes
  BY LoopTypes, NodeFacts DEF BallInv
<1>2. pc[Server] = "reply" /\ pc'[Server] = "poll"
  BY <1>1, MovesOnly DEF Reply
<1>3. PICK c \in Clients : c = wc[Server]
  BY <1>1, <1>2 DEF Base
<1>4. InHands(c) /\ Ball(c)
  BY <1>2, <1>3 DEF InHands, BallInv
<1>5. Sent(c) \in Nat /\ Answered(c) \in Nat
  BY <1>1, Numbers
<1>6. Sent(c) <= NumTests /\ ~ Forth(c) /\ ~ Coming(c)
  BY <1>4, <1>5 DEF Ball, Back, Forth
<1>7. CASE Sent(c) < NumTests
  <2>1. PostSend(Server, c)
    BY <1>3, <1>7 DEF Reply, Sent
  <2> QED  BY <1>1, <1>3, <1>4, <1>6, <1>7, <2>1, ServerSends DEF BallInv
<1>8. CASE ~ (Sent(c) < NumTests)
  <2>1. UNCHANGED <<pp_cnt, out, send_cq>>
    BY <1>3, <1>8 DEF Reply, Sent
  <2>2. Sent(c) = NumTests
    BY <1>5, <1>6, <1>8, NodeFacts
  <2>3. /\ \A d \in Clients : Sent(d)' = Sent(d) /\ Answered(d)' = Answered(d)
        /\ \A d \in Clients : Coming(d)' <=> Coming(d)
        /\ Posted'
    BY <2>1 DEF Sent, Answered, Coming, BallInv, Posted
  <2> QED  BY <1>3, <1>4, <1>6, <2>1, <2>2, <2>3
<1> QED  BY <1>7, <1>8

\* A client answers.
LEMMA ClientReplies ==
  ASSUME BallInv, NEW c \in Clients, Reply(c)
  PROVE  /\ InHand(c) /\ Answered(c) < NumTests /\ ~ Going(c) /\ ~ Back(c)
         /\ Answers' /\ Answered(c)' = Answered(c) + 1 /\ Sent(c) = Answered(c) + 1
         /\ \A d \in Clients : Sent(d)' = Sent(d) /\ out'[Server][d] = out[Server][d]
         /\ \A d \in Clients : d # c => Answered(d)' = Answered(d) /\ out'[d][d] = out[d][d]
         /\ Len(out'[c][c]) <= 1
         /\ \/ Going(c)' /\ send_cq' = send_cq
            \/ /\ ~ Going(c)' /\ send_cq' = [send_cq EXCEPT ![c] = @ + 1]
               /\ <<c, c>> \in broken
<1>1. Base /\ Base' /\ c \in Nodes /\ c # Server
  BY LoopTypes, NodeFacts DEF BallInv
<1>2. pc[c] = "reply"
  BY <1>1, MovesOnly DEF Reply
<1>3. InHand(c) /\ Ball(c)
  BY <1>2 DEF InHand, BallInv
<1>4. Sent(c) \in Nat /\ Answered(c) \in Nat
  BY <1>1, Numbers
<1>5. Sent(c) = Answered(c) + 1 /\ Answered(c) < NumTests /\ ~ Going(c) /\ ~ Back(c)
  BY <1>3, <1>4, NodeFacts DEF Ball, Forth, Back
<1>6. PostSend(c, c)
  BY <1>1, <1>5 DEF Reply, Answered
<1> QED  BY <1>1, <1>3, <1>5, <1>6, ClientSends DEF BallInv

LEMMA ReplyBall == ASSUME BallInv, NEW x \in Nodes, Reply(x) PROVE BallInv'
<1>1. Base /\ Base'
  BY LoopTypes DEF BallInv
<1>2. /\ Step(x, "reply", "poll")
      /\ UNCHANGED <<i, wc, rq, recv_cq>>
  BY DEF Reply
<1>3. pc[x] = "reply" /\ pc'[x] = "poll" /\ \A y \in Nodes : y # x => pc'[y] = pc[y]
  BY <1>1, <1>2, MovesOnly
<1>4. \A y \in Nodes : Credit(y)'
  BY <1>2, <1>3, CreditKept DEF BallInv, Over
<1>5. Distinct'
  BY <1>2 DEF BallInv, Distinct
<1>6. \A d \in Clients : /\ Arrived(d)' = Arrived(d) /\ Returned(d)' = Returned(d)
                         /\ (Unserved(d)' => Unserved(d))
                         /\ (InHand(d)' => InHand(d))
                         /\ (InHands(d)' => InHands(d))
  <2>1. /\ pc'[Server] \in Setup \cup {"serve", "post_recv", "reply"} => pc'[Server] = pc[Server]
        /\ \A d \in Clients : pc'[d] \in {"post_recv", "reply"} => pc'[d] = pc[d]
    BY <1>3, NodeFacts DEF Setup
  <2> QED  BY <1>2, <2>1 DEF Arrived, Returned, Unserved, InHand, InHands
<1>7. \A d \in Clients : Ball(d) /\ Len(recv_cq[d])' <= 1 /\ Sent(d) \in Nat /\ Answered(d) \in Nat
  BY <1>1, <1>2, Numbers DEF BallInv, Ball
<1>8. CASE x = Server
  <2>1. PICK c \in Clients :
           /\ InHands(c) /\ c = wc[Server]
           /\ \/ Sent(c) < NumTests /\ Sent(c)' = Sent(c) + 1
              \/ Sent(c)' = Sent(c) /\ ~ Coming(c)'
           /\ Posted' /\ ~ Forth(c)
           /\ \A d \in Clients : d # c => Sent(d)' = Sent(d) /\ (Coming(d)' <=> Coming(d))
           /\ \A d \in Clients : Answered(d)' = Answered(d) /\ out'[d][d] = out[d][d]
    BY <1>8, ServerReplies
  <2>2. Answers'
    BY <2>1, SMTT(20) DEF BallInv, Answers, Answered
  <2>3. \A d \in Clients : Going(d)' = Going(d) /\ Len(out[d][d])' <= 1 /\ ~ InHands(d)'
    BY <1>3, <1>7, <1>8, <2>1 DEF Going, Ball, InHands
  <2>4. ASSUME NEW d \in Clients, d # c PROVE Ball(d)'
    BY <1>6, <1>7, <2>1, <2>3, <2>4, BallKept
  <2>5. Ball(c)'
    <3>1. ~ Arrived(c)' /\ ~ InHand(c)' /\ ~ Unserved(c)' /\ ~ Going(c)' /\ ~ Returned(c)'
      <4>1. pc'[Server] = "poll"
        BY <1>3, <1>8
      <4>2. ~ Unserved(c)'
        BY <4>1 DEF Unserved, Setup
      <4> HIDE DEF Going, Returned, InHands, Arrived, InHand
      <4>3. ~ Going(c) /\ ~ Returned(c)
        BY <1>7, <2>1 DEF Ball, Bit
      <4> QED  BY <1>6, <2>1, <2>3, <4>2, <4>3 DEF Forth
    <3>2. Sent(c) = Answered(c)
      BY <1>7, <2>1 DEF Ball, Back
    <3> HIDE DEF Going, Returned, InHands, Arrived, InHand, Coming, Sent, Answered, Unserved
    <3>3. /\ Bit(Coming(c))' + Bit(Arrived(c))' + Bit(InHand(c))' <= 1
          /\ Bit(Going(c))' + Bit(Returned(c))' + Bit(InHands(c))' <= 1
      BY <2>3, <3>1 DEF Bit
    <3> QED  BY <1>7, <2>1, <2>3, <3>1, <3>2, <3>3, NodeFacts DEF Ball, Forth, Back
  <2> QED  BY <1>1, <1>4, <1>5, <2>1, <2>2, <2>4, <2>5 DEF BallInv
<1>9. CASE x # Server
  <2>1. PICK c \in Clients : c = x
    BY <1>9, NodeFacts
  <2>2. /\ InHand(c) /\ Answered(c) < NumTests /\ ~ Going(c) /\ ~ Back(c)
        /\ Answers' /\ Answered(c)' = Answered(c) + 1 /\ Sent(c) = Answered(c) + 1
        /\ \A d \in Clients : Sent(d)' = Sent(d) /\ out'[Server][d] = out[Server][d]
        /\ \A d \in Clients : d # c => Answered(d)' = Answered(d) /\ out'[d][d] = out[d][d]
        /\ Len(out'[c][c]) <= 1
    BY <2>1, ClientReplies
  <2>3. \A d \in Clients : Coming(d)' <=> Coming(d)
    BY <2>2, ComingSame
  <2>4. Posted'
    <3>1. \A q \in Clients : Shift(out'[Server][q], out[Server][q])
      BY <1>1, <2>2, Numbers, ShiftFacts
    <3> QED  BY <1>1, <2>2, <3>1, PostedKept DEF BallInv
  <2>5. ASSUME NEW d \in Clients, d # c PROVE Ball(d)'
    <3>1. Going(d)' = Going(d) /\ Len(out[d][d])' <= 1
      BY <1>7, <2>2, <2>5 DEF Going, Ball
    <3> QED  BY <1>6, <1>7, <2>2, <2>3, <2>5, <3>1, BallKept
  <2>6. Ball(c)'
    <3>1. ~ InHand(c)' /\ Len(out[c][c])' <= 1
      BY <1>3, <2>1, <2>2 DEF InHand
    <3>2. ~ Unserved(c)
      BY <1>7, <2>2, <2>1 DEF Ball
    <3> HIDE DEF Going, Returned, InHands, Arrived, InHand, Coming, Sent, Answered, Unserved
    <3>3. /\ ~ Coming(c)' /\ ~ Arrived(c)' /\ ~ Returned(c)' /\ ~ InHands(c)'
      BY <1>6, <1>7, <2>2, <2>3 DEF Ball, Bit, Back
    <3>4. /\ Bit(Coming(c))' + Bit(Arrived(c))' + Bit(InHand(c))' <= 1
          /\ Bit(Going(c))' + Bit(Returned(c))' + Bit(InHands(c))' <= 1
      BY <3>1, <3>3 DEF Bit
    <3> QED  BY <1>6, <1>7, <2>2, <3>1, <3>2, <3>3, <3>4, NodeFacts DEF Ball, Forth, Back
  <2> QED  BY <1>1, <1>4, <1>5, <2>2, <2>4, <2>5, <2>6 DEF BallInv
<1> QED  BY <1>8, <1>9

\* A message arrives.
LEMMA DeliverBall ==
  ASSUME BallInv, NEW x \in Nodes, NEW j \in Links(x), Deliver(x, j)
  PROVE  BallInv'
<1>1. Base /\ Base'
  BY AdapterTypes DEF BallInv
<1>2. UNCHANGED <<pc, i, wc, pp_cnt>>
  BY DEF Deliver, proc
<1>3. \A d \in Clients : /\ Ball(d) /\ Sent(d)' = Sent(d) /\ Answered(d)' = Answered(d)
                         /\ Unserved(d)' = Unserved(d) /\ InHand(d)' = InHand(d)
                         /\ InHands(d)' = InHands(d)
                         /\ Sent(d) \in Nat /\ Answered(d) \in Nat
  BY <1>1, <1>2, Numbers DEF BallInv, Sent, Answered, Unserved, InHand, InHands
<1>4. ASSUME NEW y \in Nodes, NEW c \in Clients, pc[y] \notin Over, rq[y] > 0,
             rq' = [rq EXCEPT ![y] = @ - 1], recv_cq' = [recv_cq EXCEPT ![y] = Append(@, c)]
      PROVE  \A z \in Nodes : Credit(z)'
  <2> TAKE z \in Nodes
  <2>1. Credit(z) /\ rq \in [Nodes -> Nat] /\ recv_cq \in [Nodes -> Seq(Clients)]
    BY <1>1 DEF BallInv, Base, TypeOK
  <2>2. CASE z = y
    <3>1. /\ rq'[y] = rq[y] - 1 /\ rq[y] \in Nat
          /\ Len(recv_cq'[y]) = Len(recv_cq[y]) + 1 /\ Len(recv_cq[y]) \in Nat
      BY <1>4, <2>1
    <3>2. Count(y)' = Count(y) /\ Count(y) \in Nat
      BY CountFacts DEF Count, Links
    <3>3. pc[y] # "start" /\ pc'[y] = pc[y]
      BY <1>2, <1>4, <2>1, <2>2, <3>1 DEF Credit
    <3>4. rq[y] + Len(recv_cq[y]) + Bit(pc[y] = "post_recv") = Count(y)
      BY <1>4, <2>1, <2>2, <3>3 DEF Credit
    <3>5. Bit(pc[y] = "post_recv") \in Nat /\ Bit(pc[y] = "post_recv")' = Bit(pc[y] = "post_recv")
      BY <3>3 DEF Bit
    <3>6. rq'[y] + Len(recv_cq'[y]) + Bit(pc[y] = "post_recv")' = Count(y)'
      BY <3>1, <3>2, <3>4, <3>5
    <3> QED  BY <2>2, <3>3, <3>6 DEF Credit
  <2>3. CASE z # y
    BY <1>2, <1>4, <2>1, <2>3, CreditKept
  <2> QED  BY <2>2, <2>3
<1>5. CASE x = Server
  <2>1. PICK y : y = Head(out[Server][j]).to
    OBVIOUS
  <2>2. j \in Clients /\ Deliver(Server, j)
    BY <1>5, NodeFacts
  <2>3. /\ y \in Clients
        /\ Coming(y) /\ ~ Coming(y)'
        /\ \A c \in Clients : c # y => (Coming(c)' <=> Coming(c))
        /\ \A c \in Clients : out'[c][c] = out[c][c]
        /\ Posted'
        /\ pc[y] \notin Over /\ rq[y] > 0 /\ rq' = [rq EXCEPT ![y] = @ - 1]
        /\ recv_cq' = [recv_cq EXCEPT ![y] = Append(@, y)]
    BY <1>1, <2>1, <2>2, ClientGets DEF BallInv
  <2>4. y \in Nodes /\ y # Server
    BY <2>3, NodeFacts
  <2>5. \A z \in Nodes : Credit(z)'
    BY <1>4, <2>3, <2>4
  <2>6. /\ \A z \in Nodes : z # y => recv_cq'[z] = recv_cq[z]
        /\ recv_cq'[y] = Append(recv_cq[y], y) /\ recv_cq[y] \in Seq(Clients)
    BY <1>1, <2>3, <2>4 DEF Base, TypeOK
  <2>7. Answers' /\ Distinct'
    <3>1. Distinct'
      BY <2>4, <2>6, NodeFacts DEF BallInv, Distinct
    <3>2. \A c \in Clients : out'[c][c] = out[c][c] /\ Answered(c)' = Answered(c)
      BY <1>3, <2>3
    <3>3. Answers'
      BY <3>2 DEF BallInv, Answers
    <3> QED  BY <3>1, <3>3
  <2>8. \A d \in Clients : /\ Going(d)' = Going(d) /\ Len(out[d][d])' <= 1
                           /\ Returned(d)' = Returned(d)
                           /\ (d # y => Arrived(d)' = Arrived(d) /\ Len(recv_cq[d])' <= 1)
    <3> TAKE d \in Clients
    <3>1. Going(d)' = Going(d) /\ Len(out[d][d])' <= 1
      BY <1>3, <2>3 DEF Going, Ball
    <3>2. recv_cq'[Server] = recv_cq[Server]
      BY <2>4, <2>6, NodeFacts
    <3>3. Returned(d)' = Returned(d)
      BY <3>2 DEF Returned
    <3>4. d # y => recv_cq'[d] = recv_cq[d]
      BY <2>6, NodeFacts
    <3>5. d # y => Arrived(d)' = Arrived(d) /\ Len(recv_cq[d])' <= 1
      BY <1>3, <3>4 DEF Arrived, Ball
    <3> QED  BY <3>1, <3>3, <3>5
  <2>9. ASSUME NEW d \in Clients, d # y PROVE Ball(d)'
    BY <1>3, <2>3, <2>8, <2>9, BallKept
  <2>10. Ball(y)'
    <3>1. ~ Arrived(y) /\ ~ InHand(y)
      <4> HIDE DEF Arrived, InHand, Coming
      <4> QED  BY <1>3, <2>3 DEF Ball, Bit
    <3>2. Len(recv_cq[y])' <= 1
      BY <2>6, <3>1 DEF Arrived
    <3> HIDE DEF Going, Returned, InHands, Arrived, InHand, Coming, Sent, Answered, Unserved
    <3>3. /\ Bit(Coming(y))' + Bit(Arrived(y))' + Bit(InHand(y))' <= 1
          /\ Bit(Going(y))' + Bit(Returned(y))' + Bit(InHands(y))' <= 1
      BY <1>3, <2>3, <2>8, <3>1 DEF Bit, Ball
    <3> QED  BY <1>3, <2>3, <2>8, <3>2, <3>3 DEF Ball, Forth, Back
  <2> QED  BY <1>1, <2>3, <2>5, <2>7, <2>9, <2>10 DEF BallInv
<1>6. CASE x # Server
  <2>1. PICK c \in Clients : c = x /\ c = j
    BY <1>6, NodeFacts
  <2>2. /\ Going(c) /\ ~ Going(c)' /\ out'[c][c] = <<>>
        /\ \A d \in Clients : out'[Server][d] = out[Server][d]
        /\ \A d \in Clients : d # c => out'[d][d] = out[d][d]
        /\ Answers'
        /\ pc[Server] \notin Over /\ rq[Server] > 0
        /\ rq' = [rq EXCEPT ![Server] = @ - 1]
        /\ recv_cq' = [recv_cq EXCEPT ![Server] = Append(@, c)]
    BY <1>1, <1>3, <2>1, ServerGets DEF BallInv
  <2>3. \A z \in Nodes : Credit(z)'
    BY <1>4, <2>2, NodeFacts
  <2>4. /\ \A d \in Clients : recv_cq'[d] = recv_cq[d]
        /\ recv_cq'[Server] = Append(recv_cq[Server], c) /\ recv_cq[Server] \in Seq(Clients)
    <3>1. recv_cq \in [Nodes -> Seq(Clients)] /\ Server \in Nodes /\ c \in Clients
      BY <1>1, <2>1, NodeFacts DEF Base, TypeOK
    <3>2. recv_cq[Server] \in Seq(Clients) /\ recv_cq'[Server] = Append(recv_cq[Server], c)
      BY <2>2, <3>1
    <3>3. \A d \in Clients : recv_cq'[d] = recv_cq[d]
      BY <2>2, <3>1, NodeFacts
    <3> QED  BY <3>2, <3>3
  <2>5. ~ Returned(c) /\ ~ InHands(c)
    <3> HIDE DEF Going, Returned, InHands
    <3> QED  BY <1>3, <2>2 DEF Ball, Bit
  <2>6. /\ Len(recv_cq'[Server]) = Len(recv_cq[Server]) + 1 /\ Len(recv_cq[Server]) \in Nat
        /\ recv_cq'[Server][Len(recv_cq[Server]) + 1] = c
        /\ \A k \in 1..Len(recv_cq[Server]) : recv_cq'[Server][k] = recv_cq[Server][k]
    BY <2>4
  <2>7. Distinct'
    <3> SUFFICES ASSUME NEW m \in 1..Len(recv_cq'[Server]), NEW n \in 1..Len(recv_cq'[Server]),
                        recv_cq'[Server][m] = recv_cq'[Server][n]
                 PROVE  m = n
      BY DEF Distinct
    <3>1. \A k \in 1..Len(recv_cq[Server]) : recv_cq'[Server][k] # c
      BY <2>5, <2>6 DEF Returned
    <3>2. CASE m = Len(recv_cq[Server]) + 1 \/ n = Len(recv_cq[Server]) + 1
      BY <2>6, <3>1, <3>2
    <3>3. CASE m \in 1..Len(recv_cq[Server]) /\ n \in 1..Len(recv_cq[Server])
      BY <2>6, <3>3 DEF BallInv, Distinct
    <3> QED  BY <2>6, <3>2, <3>3
  <2>8. \A d \in Clients : Coming(d)' <=> Coming(d)
    BY <2>2, ComingSame
  <2>9. Posted'
    <3>1. \A q \in Clients : Shift(out'[Server][q], out[Server][q])
      BY <1>1, <2>2, Numbers, ShiftFacts
    <3> QED  BY <1>1, <1>3, <3>1, PostedKept DEF BallInv
  <2>10. \A d \in Clients : /\ Arrived(d)' = Arrived(d) /\ Len(recv_cq[d])' <= 1
                            /\ (d # c => /\ Going(d)' = Going(d) /\ Len(out[d][d])' <= 1
                                         /\ (Returned(d)' => Returned(d)))
    <3> TAKE d \in Clients
    <3>1. Arrived(d)' = Arrived(d) /\ Len(recv_cq[d])' <= 1
      BY <1>3, <2>4 DEF Arrived, Ball
    <3>2. d # c => Going(d)' = Going(d) /\ Len(out[d][d])' <= 1
      BY <1>3, <2>2 DEF Going, Ball
    <3>3. ASSUME d # c, Returned(d)' PROVE Returned(d)
      <4>1. PICK k \in 1..Len(recv_cq'[Server]) : recv_cq'[Server][k] = d
        BY <3>3 DEF Returned
      <4>2. k \in 1..Len(recv_cq[Server])
        BY <2>6, <3>3, <4>1
      <4> QED  BY <2>6, <4>1, <4>2 DEF Returned
    <3> QED  BY <3>1, <3>2, <3>3
  <2>11. ASSUME NEW d \in Clients, d # c PROVE Ball(d)'
    BY <1>3, <2>8, <2>10, <2>11, BallKept
  <2>12. Ball(c)'
    <3>1. Len(out[c][c])' <= 1
      BY <2>2
    <3>2. Sent(c) = Answered(c) /\ Answered(c) > 0
      BY <1>3, <2>2 DEF Ball, Back
    <3> HIDE DEF Going, Returned, InHands, Arrived, InHand, Coming, Sent, Answered, Unserved
    <3>3. /\ Bit(Coming(c))' + Bit(Arrived(c))' + Bit(InHand(c))' <= 1
          /\ Bit(Going(c))' + Bit(Returned(c))' + Bit(InHands(c))' <= 1
      BY <1>3, <2>2, <2>5, <2>8, <2>10 DEF Bit, Ball
    <3> QED  BY <1>3, <2>8, <2>10, <3>1, <3>2, <3>3 DEF Ball, Forth, Back
  <2> QED  BY <1>1, <2>2, <2>3, <2>7, <2>9, <2>11, <2>12 DEF BallInv
<1> QED  BY <1>5, <1>6

\* A queue pair gives up, or a process leaves, with what it has in hand.
LEMMA LostBall ==
  ASSUME BallInv, NEW x \in Nodes,
         \/ \E j \in Links(x) : GiveUp(x, j)
         \/ \E how \in {"ok", "failed"} : Leave(x, how)
  PROVE  BallInv'
<1>1. Base /\ Base'
  BY AdapterTypes, LeaveTypes DEF BallInv
<1>2. UNCHANGED <<i, wc, pp_cnt, rq, recv_cq>>
  BY DEF GiveUp, Leave, proc, queues
<1>3. \A y \in Nodes : pc'[y] = pc[y] \/ pc'[y] \in Over
  BY <1>1 DEF GiveUp, Leave, Over, Base, TypeOK
<1>4. \A y \in Nodes : Credit(y)'
  BY <1>2, <1>3, CreditKept DEF BallInv
<1>5. /\ Posted' /\ Answers'
      /\ \A c \in Clients : /\ Coming(c)' => Coming(c)
                            /\ Going(c)' => Going(c)
                            /\ Len(out[c][c]) <= 1 => Len(out'[c][c]) <= 1
  BY <1>1, <1>2, RowsLost, BallsLost DEF BallInv
<1>6. Distinct'
  BY <1>2 DEF BallInv, Distinct
<1>7. ASSUME NEW c \in Clients PROVE Ball(c)'
  <2>1. /\ Sent(c)' = Sent(c) /\ Answered(c)' = Answered(c)
        /\ Arrived(c)' = Arrived(c) /\ Returned(c)' = Returned(c)
        /\ (Unserved(c)' => Unserved(c)) /\ (InHand(c)' => InHand(c))
        /\ (InHands(c)' => InHands(c))
    BY <1>2, <1>3, NodeFacts DEF Sent, Answered, Arrived, Returned, Unserved, InHand, InHands,
                                 Setup, Over
  <2>2. Ball(c)
    BY DEF BallInv
  <2>3. Len(recv_cq[c])' <= 1 /\ Len(out[c][c])' <= 1
    BY <1>2, <1>5, <2>2 DEF Ball
  <2> QED  BY <1>5, <2>1, <2>2, <2>3, BallKept
<1> QED  BY <1>1, <1>4, <1>5, <1>6, <1>7 DEF BallInv

LEMMA BallInit == Init => BallInv
<1> SUFFICES ASSUME Init PROVE BallInv
  OBVIOUS
<1>1. Base
  BY InitBase
<1>2. /\ \A x \in Nodes : pc[x] = "start" /\ rq[x] = 0 /\ recv_cq[x] = <<>>
      /\ \A x \in Nodes : \A j \in Links(x) : out[x][j] = <<>> /\ pp_cnt[x][j] = 0
  BY DEF Init, Of
<1>3. Posted /\ Answers /\ Distinct
  BY <1>2, NodeFacts DEF Posted, Answers, Distinct
<1>4. \A x \in Nodes : Credit(x)
  BY <1>2 DEF Credit
<1>5. ASSUME NEW c \in Clients PROVE Ball(c)
  <2>1. Sent(c) = 0 /\ Answered(c) = 0
    BY <1>2, NodeFacts DEF Sent, Answered
  <2>2. /\ ~ Coming(c) /\ ~ Arrived(c) /\ ~ InHand(c)
        /\ ~ Going(c) /\ ~ Returned(c) /\ ~ InHands(c)
    BY <1>2, NodeFacts DEF Coming, Arrived, InHand, Going, Returned, InHands
  <2>3. Len(recv_cq[c]) <= 1 /\ Len(out[c][c]) <= 1
    BY <1>2, NodeFacts
  <2> QED  BY <2>1, <2>2, <2>3, NodeFacts DEF Ball, Forth, Back, Bit
<1> QED  BY <1>1, <1>3, <1>4, <1>5 DEF BallInv

LEMMA BallStep == ASSUME BallInv, [Next]_vars PROVE BallInv'
<1>1. CASE UNCHANGED vars
  <2>1. Base' /\ UNCHANGED <<pc, i, wc, pp_cnt, out, recv_cq, rq>>
    BY <1>1, BaseStep DEF BallInv, vars, proc, link, queues
  <2>2. \A y \in Nodes : Credit(y)'
    BY <2>1, CreditKept DEF BallInv
  <2> QED  BY <2>1, <2>2, QuietStep DEF Unserved, InHand, InHands
<1>2. ASSUME NEW x \in Nodes, Program(x) PROVE BallInv'
  <2>1. CASE PollCq(x)
    BY <2>1, OwnBall, PollBall
  <2>2. CASE CloseCtx(x)
    BY <2>2, LostBall DEF CloseCtx
  <2> QED  BY <1>2, <2>1, <2>2, SetupBall, ServeBall, OwnBall, ReplyBall DEF Program
<1>3. ASSUME NEW x \in Nodes, CallFails(x) PROVE BallInv'
  BY <1>3, LostBall DEF CallFails
<1>4. ASSUME NEW x \in Nodes, Acknowledge(x) PROVE BallInv'
  <2>1. Base' /\ UNCHANGED <<pc, i, wc, pp_cnt, out, recv_cq, rq>>
    BY <1>4, AdapterTypes DEF Acknowledge, proc, BallInv
  <2>2. \A y \in Nodes : Credit(y)'
    BY <2>1, CreditKept DEF BallInv
  <2> QED  BY <2>1, <2>2, QuietStep DEF Unserved, InHand, InHands
<1>5. ASSUME NEW x \in Nodes, NEW j \in Links(x), Deliver(x, j) PROVE BallInv'
  BY <1>5, DeliverBall
<1>6. ASSUME NEW x \in Nodes, NEW j \in Links(x), GiveUp(x, j) PROVE BallInv'
  BY <1>6, LostBall
<1> QED  BY <1>1, <1>2, <1>3, <1>4, <1>5, <1>6 DEF Next, Done

LEMMA BallHolds == Spec => []BallInv
BY BallInit, BallStep, PTL DEF Spec

-----------------------------------------------------------------------------
(* A receive for each message.                                             *)

LEMMA Injects ==
  ASSUME NEW S, NEW T, IsFiniteSet(T), NEW f \in [S -> T],
         \A a, b \in S : f[a] = f[b] => a = b
  PROVE  IsFiniteSet(S) /\ Cardinality(S) <= Cardinality(T)
<1>1. f \in Injection(S, T)
  BY DEF Injection, IsInjective
<1> QED  BY <1>1, FS_Injection

\* One message at most is under way to a client, and then it has its receive.
LEMMA ClientRoom ==
  ASSUME BallInv, NEW c \in Clients, pc[c] \notin {"start"} \cup Over
  PROVE  Cardinality(InFlight(c)) <= rq[c]
<1>1. Base /\ Posted /\ Answers /\ Ball(c) /\ Credit(c) /\ c \in Nodes /\ c # Server
      /\ rq[c] \in Nat /\ recv_cq[c] \in Seq(Clients)
  BY NodeFacts DEF BallInv, Base, TypeOK
<1>2. \A e \in InFlight(c) : \E q \in Clients : \E k \in 1..Len(out[Server][q]) :
         e = <<Server, q, k>> /\ out[Server][q][k].to = c
  <2> SUFFICES ASSUME NEW e \in InFlight(c)
               PROVE  \E q \in Clients : \E k \in 1..Len(out[Server][q]) :
                        e = <<Server, q, k>> /\ out[Server][q][k].to = c
    OBVIOUS
  <2>1. PICK y \in Nodes, q \in Clients, k \in 1..NumTests * NumClients : e = <<y, q, k>>
    BY DEF InFlight
  <2>2. q \in Links(y) /\ k \in DOMAIN out[y][q] /\ out[y][q][k].to = c
    BY <2>1 DEF InFlight
  <2>3. out[y][q] \in Seq(Messages)
    BY <1>1, <2>2, TableRead DEF Base, TypeOK
  <2>4. k \in 1..Len(out[y][q])
    BY <2>2, <2>3
  <2>5. y = Server
    <3> SUFFICES ASSUME y \in Clients PROVE FALSE
      BY NodeFacts
    <3>1. q = y
      BY <2>2, NodeFacts
    <3>2. out[y][y][k].to = Server
      <4>1. k \in 1..Len(out[y][y])
        BY <2>4, <3>1
      <4>2. out[y][y][k] = [to |-> Server, last |-> Answered(y) = NumTests]
        BY <1>1, <4>1 DEF Answers
      <4> QED  BY <4>2
    <3> QED  BY <1>1, <2>2, <3>1, <3>2
  <2> QED  BY <2>1, <2>2, <2>4, <2>5
<1>3. CASE InFlight(c) = {}
  BY <1>1, <1>3, FS_EmptySet
<1>4. CASE InFlight(c) # {}
  <2>1. PICK q \in Clients : \E k \in 1..Len(out[Server][q]) : out[Server][q][k].to = c
    BY <1>2, <1>4
  <2>2. PICK k \in 1..Len(out[Server][q]) : out[Server][q][k].to = c
    BY <2>1
  <2>3. InFlight(c) \subseteq {<<Server, q, k>>}
    BY <1>1, <1>2, <2>2, SMTT(20) DEF Posted
  <2>4. Cardinality(InFlight(c)) = 1
    <3>1. InFlight(c) = {<<Server, q, k>>}
      BY <1>4, <2>3
    <3> QED  BY <3>1, FS_Singleton
  <2>5. Coming(c)
    BY <2>2 DEF Coming
  <2>6. ~ Arrived(c) /\ ~ InHand(c)
    <3> HIDE DEF Arrived, InHand, Coming
    <3> QED  BY <1>1, <2>5 DEF Ball, Bit
  <2>7. Len(recv_cq[c]) = 0 /\ Bit(pc[c] = "post_recv") = 0
    BY <2>6 DEF Arrived, InHand, Bit
  <2>8. rq[c] = 1
    BY <1>1, <2>7, CountFacts DEF Credit
  <2> QED  BY <2>4, <2>8
<1> QED  BY <1>3, <1>4

\* The clients whose answers are under way, arrived or in hand are all
\* different, and the server has a receive for each.
LEMMA ServerRoom ==
  ASSUME BallInv, pc[Server] \notin {"start"} \cup Over
  PROVE  Cardinality(InFlight(Server)) <= rq[Server]
<1> DEFINE G == {c \in Clients : Going(c)}
           R == {c \in Clients : Returned(c)}
           H == {c \in Clients : InHands(c)}
           n == Len(recv_cq[Server])
<1>1. Base /\ Answers /\ Distinct /\ Credit(Server) /\ Server \in Nodes
      /\ rq[Server] \in Nat /\ recv_cq[Server] \in Seq(Clients) /\ n \in Nat
  <2>1. Base /\ Answers /\ Distinct /\ Credit(Server) /\ Server \in Nodes
    BY NodeFacts DEF BallInv
  <2>2. rq[Server] \in Nat /\ recv_cq[Server] \in Seq(Clients)
    BY <2>1 DEF Base, TypeOK
  <2> QED  BY <2>1, <2>2
<1>2. IsFiniteSet(Clients) /\ Cardinality(Clients) = NumClients
  BY FS_Interval, NodeFacts DEF Clients
<1>3. /\ IsFiniteSet(G) /\ IsFiniteSet(R) /\ IsFiniteSet(H)
      /\ IsFiniteSet(G \cup R) /\ IsFiniteSet(G \cup R \cup H)
      /\ Cardinality(G \cup R \cup H) <= NumClients
  BY <1>2, FS_Subset
<1>4. G \cap R = {} /\ (G \cup R) \cap H = {}
  <2>1. ASSUME NEW c \in Clients
        PROVE  ~ (Going(c) /\ Returned(c)) /\ ~ ((Going(c) \/ Returned(c)) /\ InHands(c))
    <3>1. Ball(c)
      BY DEF BallInv
    <3> HIDE DEF Going, Returned, InHands
    <3> QED  BY <3>1 DEF Ball, Bit
  <2> QED  BY <2>1
<1>5. Cardinality(G) + Cardinality(R) + Cardinality(H) <= NumClients
  <2>1. /\ Cardinality(G) \in Nat /\ Cardinality(R) \in Nat /\ Cardinality(H) \in Nat
        /\ Cardinality(G \cap R) = 0 /\ Cardinality((G \cup R) \cap H) = 0
    BY <1>3, <1>4, FS_CardinalityType, FS_EmptySet
  <2>2. Cardinality(G \cup R) = Cardinality(G) + Cardinality(R) - Cardinality(G \cap R)
    BY <1>3, FS_Union
  <2>3. Cardinality((G \cup R) \cup H) =
          Cardinality(G \cup R) + Cardinality(H) - Cardinality((G \cup R) \cap H)
    BY <1>3, FS_Union
  <2> HIDE DEF G, R, H
  <2> QED  BY <1>3, <2>1, <2>2, <2>3
<1>6. n <= Cardinality(R)
  <2> DEFINE f == [k \in 1..n |-> recv_cq[Server][k]]
  <2>1. f \in [1..n -> R]
    BY <1>1 DEF Returned
  <2>2. \A a, b \in 1..n : f[a] = f[b] => a = b
    BY <1>1 DEF Distinct
  <2>3. Cardinality(1..n) = n
    BY <1>1, FS_Interval
  <2> HIDE DEF f, R, n
  <2>4. Cardinality(1..n) <= Cardinality(R)
    BY <1>3, <2>1, <2>2, Injects, Zenon
  <2> QED  BY <2>3, <2>4
<1>7. Bit(pc[Server] = "post_recv") <= Cardinality(H) /\ Cardinality(H) \in Nat
  <2>1. Cardinality(H) \in Nat
    BY <1>3, FS_CardinalityType
  <2>2. CASE pc[Server] = "post_recv"
    <3>1. wc[Server] \in H
      BY <1>1, <2>2 DEF InHands, Base
    <3>2. Cardinality(H) # 0
      BY <1>3, <3>1, FS_EmptySet
    <3> QED  BY <2>1, <3>2 DEF Bit
  <2>3. CASE pc[Server] # "post_recv"
    BY <2>1, <2>3 DEF Bit
  <2> QED  BY <2>2, <2>3
<1>8. IsFiniteSet(InFlight(Server)) /\ Cardinality(InFlight(Server)) <= Cardinality(G)
  <2> DEFINE f == [e \in InFlight(Server) |-> e[1]]
  <2>1. \A e \in InFlight(Server) : \E c \in Clients : e = <<c, c, 1>> /\ c \in G
    <3> SUFFICES ASSUME NEW e \in InFlight(Server)
                 PROVE  \E c \in Clients : e = <<c, c, 1>> /\ c \in G
      OBVIOUS
    <3>1. PICK y \in Nodes, q \in Clients, k \in 1..NumTests * NumClients : e = <<y, q, k>>
      BY DEF InFlight
    <3>2. q \in Links(y) /\ k \in DOMAIN out[y][q] /\ out[y][q][k].to = Server
      BY <3>1 DEF InFlight
    <3>3. out[y][q] \in Seq(Messages)
      BY <1>1, <3>2, TableRead DEF Base, TypeOK
    <3>4. k \in 1..Len(out[y][q]) /\ out[y][q] # <<>>
      BY <3>2, <3>3
    <3>5. y \in Clients
      <4> SUFFICES ASSUME y = Server PROVE FALSE
        BY NodeFacts
      <4>1. out[Server][q] \in Seq([to : Clients, last : BOOLEAN])
        BY <1>1 DEF Base, Addressed
      <4>2. out[Server][q][k] \in [to : Clients, last : BOOLEAN]
        BY <3>4, <4>1, ElementOfQueue
      <4> QED  BY <3>2, <4>2, NodeFacts
    <3>6. q = y
      BY <3>2, <3>5, NodeFacts
    <3>7. Ball(y)
      BY <3>5 DEF BallInv
    <3>8. k = 1
      BY <3>3, <3>4, <3>6, <3>7 DEF Ball
    <3> QED  BY <3>1, <3>4, <3>5, <3>6, <3>8 DEF Going
  <2>2. f \in [InFlight(Server) -> G]
    BY <2>1
  <2>3. \A a, b \in InFlight(Server) : f[a] = f[b] => a = b
    BY <2>1
  <2> HIDE DEF f, G
  <2> QED  BY <1>3, <2>2, <2>3, Injects
<1>9. rq[Server] + n + Bit(pc[Server] = "post_recv") = NumClients
  BY CountFacts, <1>1 DEF Credit
<1>10. /\ Cardinality(G) \in Nat /\ Cardinality(R) \in Nat
       /\ Cardinality(InFlight(Server)) \in Nat
  BY <1>3, <1>8, FS_CardinalityType
<1>11. Bit(pc[Server] = "post_recv") \in Nat
  BY DEF Bit
<1> HIDE DEF G, R, H, n
<1> QED  BY <1>1, <1>5, <1>6, <1>7, <1>8, <1>9, <1>10, <1>11, NodeFacts

\* Every message finds a receive, and no queue overflows: a process posts the
\* next receive before it replies, and each partner has one message under way at
\* most.
THEOREM OneForEachHolds == Spec => []OneForEach
<1>1. ASSUME BallInv, NEW x \in Nodes, pc[x] \notin {"start"} \cup Over
      PROVE  /\ Cardinality(InFlight(x)) <= rq[x]
             /\ rq[x] + Len(recv_cq[x]) <= Count(x)
  <2>1. Cardinality(InFlight(x)) <= rq[x]
    BY <1>1, ClientRoom, ServerRoom, NodeFacts
  <2>2. Credit(x) /\ rq[x] \in Nat /\ Len(recv_cq[x]) \in Nat /\ Count(x) \in Nat
    BY <1>1, CountFacts DEF BallInv, Base, TypeOK
  <2>3. rq[x] + Len(recv_cq[x]) <= Count(x)
    BY <1>1, <2>2 DEF Credit, Bit
  <2> QED  BY <2>1, <2>3
<1>2. BallInv => OneForEach
  BY <1>1 DEF OneForEach
<1> QED  BY <1>2, BallHolds, PTL

-----------------------------------------------------------------------------
(* The end.                                                                *)

\* A step of a process leaves the others as they were.
LEMMA OthersKept ==
  ASSUME Base, NEW x \in Nodes, Program(x) \/ CallFails(x), NEW y \in Nodes, y # x
  PROVE  /\ pc'[y] = pc[y] /\ cnt'[y] = cnt[y] /\ acks'[y] = acks[y]
         /\ send_cq'[y] = send_cq[y]
         /\ \A k \in Links(y) : pp_cnt'[y][k] = pp_cnt[y][k] /\ out'[y][k] = out[y][k]
         /\ \A j \in Clients : <<y, j>> \in conn' <=> <<y, j>> \in conn
         /\ broken' = broken
         /\ x # Server => i' = i
<1>1. CASE Prepare(x)
  BY <1>1 DEF Prepare, Step, proc, link, Base, TypeOK
<1>2. CASE x # Server /\ ClientConnect(x)
  BY <1>2 DEF ClientConnect, Step, ConnectQps, TcpOnly, link, queues, Base, TypeOK
<1>3. CASE x # Server /\ ClientTermination(x)
  BY <1>3 DEF ClientTermination, Step, TcpOnly, link, queues, Base, TypeOK
<1>4. CASE x = Server /\ ServerConnect
  BY <1>4 DEF ServerConnect, Step, ConnectQps, TcpOnly, link, queues, Base, TypeOK
<1>5. CASE x = Server /\ ServerTermination
  BY <1>5 DEF ServerTermination, Step, TcpOnly, link, queues, Base, TypeOK
<1>6. CASE GetCqEvent(x) \/ ReqNotify(x) \/ PostRecv(x)
  BY <1>6 DEF GetCqEvent, ReqNotify, PostRecv, Step, proc, link, Base, TypeOK
<1>7. CASE PollCq(x)
  BY <1>7 DEF PollCq, Step, link, queues, Base, TypeOK
<1>8. CASE Drain(x)
  BY <1>8 DEF Drain, Step, link, Base, TypeOK
<1>9. ASSUME NEW j \in Links(x), PostSend(x, j)
      PROVE  /\ send_cq'[y] = send_cq[y]
             /\ \A k \in Links(y) : pp_cnt'[y][k] = pp_cnt[y][k] /\ out'[y][k] = out[y][k]
  <2>1. /\ Updated(pp_cnt', pp_cnt, Nat, x, j, pp_cnt[x][j] + 1)
        /\ \E q \in Links(x) :
              \/ /\ out' = out
                 /\ send_cq' = [send_cq EXCEPT ![x] = @ + 1]
              \/ /\ send_cq' = send_cq
                 /\ Updated(out', out, Seq(Messages), x, q, Append(out[x][q],
                      [to |-> Far(x, j), last |-> pp_cnt[x][j] + 1 >= NumTests]))
    BY <1>9, SendEffect
  <2>2. \A k \in Links(y) : pp_cnt'[y][k] = pp_cnt[y][k]
    BY <2>1 DEF Updated, Only
  <2>3. send_cq'[y] = send_cq[y]
    BY <2>1 DEF Base, TypeOK
  <2>4. \A k \in Links(y) : out'[y][k] = out[y][k]
    BY <2>1 DEF Updated, Only
  <2> QED  BY <2>2, <2>3, <2>4
<1>10. CASE x = Server /\ Serve
  <2>1. i \in Links(Server) /\ PostSend(Server, i)
    BY <1>10, NodeFacts DEF Serve, Base, TypeOK
  <2>2. UNCHANGED <<cnt, conn, broken, acks>> /\ pc'[y] = pc[y]
    BY <1>10 DEF Serve, Step, Base, TypeOK
  <2>3. PICK j \in Links(x) : PostSend(x, j)
    BY <1>10, <2>1
  <2> QED  BY <1>9, <1>10, <2>2, <2>3
<1>11. CASE Reply(x)
  <2>1. UNCHANGED <<i, conn, broken, acks>> /\ pc'[y] = pc[y] /\ cnt'[y] = cnt[y]
    BY <1>11 DEF Reply, Step, Base, TypeOK
  <2>2. (IF x = Server THEN wc[x] ELSE x) \in Links(x)
    BY <1>11, NodeFacts DEF Reply, Step, Base
  <2>3. (\E j \in Links(x) : PostSend(x, j)) \/ UNCHANGED <<pp_cnt, out, send_cq>>
    BY <1>11, <2>2 DEF Reply
  <2> QED  BY <1>9, <2>1, <2>3
<1>12. ASSUME NEW how, Leave(x, how)
       PROVE  /\ pc'[y] = pc[y] /\ cnt'[y] = cnt[y] /\ acks'[y] = acks[y]
              /\ send_cq'[y] = send_cq[y]
              /\ \A k \in Links(y) : pp_cnt'[y][k] = pp_cnt[y][k] /\ out'[y][k] = out[y][k]
              /\ \A j \in Clients : <<y, j>> \in conn' <=> <<y, j>> \in conn
              /\ broken' = broken /\ i' = i
  <2>1. UNCHANGED <<i, cnt, pp_cnt, send_cq, broken>>
    BY <1>12 DEF Leave, proc, queues
  <2>2. pc'[y] = pc[y] /\ acks'[y] = acks[y]
    BY <1>12 DEF Leave, Base, TypeOK
  <2>3. \A k \in Links(y) : out'[y][k] = out[y][k]
    BY <1>12, LeaveEffect DEF UpdatedRow, OnlyRow
  <2>4. \A j \in Clients : <<y, j>> \in conn' <=> <<y, j>> \in conn
    BY <1>12 DEF Leave
  <2> QED  BY <2>1, <2>2, <2>3, <2>4
<1>13. CASE CloseCtx(x) \/ CallFails(x)
  BY <1>12, <1>13 DEF CloseCtx, CallFails
<1> QED  BY <1>1, <1>2, <1>3, <1>4, <1>5, <1>6, <1>7, <1>8, <1>10, <1>11, <1>13 DEF Program

\* What its own steps make of a client that counts its messages.
LEMMA CountingMoves ==
  ASSUME NEW c \in Clients, Counting(c), cnt'[c] = cnt[c], Answered(c)' = Answered(c),
         \/ pc'[c] \in {pc[c], "failed"}
         \/ \E P \in {Setup, Loop, After \cup {"ok"}} : {pc[c], pc'[c]} \subseteq P
  PROVE  Counting(c)'
BY DEF Counting, Setup, Loop, After

LEMMA LoopStart == \A x \in Nodes : LoopHead(x, 0) \in {"get_event", "poll"}
BY CountFacts DEF LoopHead

LEMMA ClientCounts ==
  ASSUME BallInv, NEW c \in Clients, Counting(c), Program(c) \/ CallFails(c)
  PROVE  Counting(c)'
<1>1. Base /\ c \in Nodes /\ c # Server /\ Ball(c) /\ Answered(c) \in Nat /\ Sent(c) \in Nat
      /\ Total(c) = NumTests /\ NumTests \in Nat
  BY NodeFacts, CountFacts, Numbers DEF BallInv
<1>2. CASE Prepare(c) \/ ClientConnect(c)
  <2>1. cnt'[c] = cnt[c] /\ Answered(c)' = Answered(c)
    BY <1>2 DEF Prepare, ClientConnect, ConnectQps, TcpOnly, proc, Answered
  <2>2. \E a, b : Step(c, a, b) /\ a \in Setup /\ b \in Setup \cup {"get_event", "poll"}
    BY <1>1, <1>2, LoopStart DEF Prepare, ClientConnect, Setup
  <2>3. pc[c] \in Setup /\ pc'[c] \in Setup \cup {"get_event", "poll"}
    BY <1>1, <2>2, MovesOnly
  <2>4. cnt[c] = 0 /\ Answered(c) = 0
    BY <2>3 DEF Counting
  <2> QED  BY <2>1, <2>3, <2>4 DEF Counting, Setup, Loop, After
<1>3. CASE GetCqEvent(c) \/ ReqNotify(c) \/ PostRecv(c) \/ (PollCq(c) /\ recv_cq[c] # <<>>)
  <2>1. cnt'[c] = cnt[c] /\ Answered(c)' = Answered(c)
    BY <1>3 DEF GetCqEvent, ReqNotify, PostRecv, PollCq, proc, Answered
  <2>2. \E a, b : Step(c, a, b) /\ a \in Loop /\ b \in Loop
    BY <1>3 DEF GetCqEvent, ReqNotify, PostRecv, PollCq, Loop
  <2>3. pc[c] \in Loop /\ pc'[c] \in Loop
    BY <1>1, <2>2, MovesOnly
  <2> QED  BY <2>1, <2>3, CountingMoves
<1>4. CASE PollCq(c) /\ recv_cq[c] = <<>>
  <2>1. /\ Step(c, "poll", LoopHead(c, cnt[c])) /\ pp_cnt' = pp_cnt
        /\ cnt' = [cnt EXCEPT ![c] = IF cnt[c] >= Total(c) THEN 0 ELSE cnt[c]]
    BY <1>4 DEF PollCq
  <2>2. pc[c] = "poll" /\ pc'[c] = LoopHead(c, cnt[c])
    BY <1>1, <2>1, MovesOnly
  <2>3. Answered(c)' = Answered(c) /\ cnt[c] = Answered(c)
    BY <2>1, <2>2 DEF Answered, Counting, Loop
  <2>4. cnt'[c] = IF cnt[c] >= Total(c) THEN 0 ELSE cnt[c]
    BY <1>1, <2>1 DEF Base, TypeOK
  <2>5. CASE cnt[c] >= Total(c)
    <3>1. pc'[c] = "drain" /\ Answered(c)' = NumTests
      BY <1>1, <2>2, <2>3, <2>5 DEF LoopHead, Ball
    <3> QED  BY <3>1 DEF Counting, Setup, Loop, After
  <2>6. CASE ~ (cnt[c] >= Total(c))
    <3>1. pc'[c] \in {"get_event", "poll"} /\ cnt'[c] = Answered(c)'
      BY <2>2, <2>3, <2>4, <2>6 DEF LoopHead
    <3> QED  BY <3>1 DEF Counting, Setup, Loop, After
  <2> QED  BY <2>5, <2>6
<1>5. CASE Reply(c)
  <2>1. cnt'[c] = cnt[c] + 1 /\ pc[c] = "reply" /\ pc'[c] = "poll"
    BY <1>1, <1>5, MovesOnly DEF Reply, Base, TypeOK
  <2>2. Answered(c)' = Answered(c) + 1
    BY <1>5, ClientReplies
  <2> QED  BY <2>1, <2>2 DEF Counting, Setup, Loop, After
<1>6. CASE Drain(c) \/ ClientTermination(c)
  <2>1. Answered(c)' = Answered(c)
    BY <1>6 DEF Drain, ClientTermination, TcpOnly, Answered
  <2>2. \E a, b : Step(c, a, b) /\ a \in After /\ b \in After
    BY <1>1, <1>6 DEF Drain, ClientTermination, After
  <2>3. pc[c] \in After /\ pc'[c] \in After
    BY <1>1, <2>2, MovesOnly
  <2> QED  BY <2>1, <2>3 DEF Counting, Setup, Loop, After
<1>7. CASE CloseCtx(c) \/ CallFails(c)
  <2>1. Answered(c)' = Answered(c) /\ cnt'[c] = cnt[c]
    BY <1>7 DEF CloseCtx, CallFails, Leave, proc, Answered
  <2>2. (pc[c] = "close" /\ pc'[c] = "ok") \/ pc'[c] = "failed"
    BY <1>1, <1>7 DEF CloseCtx, CallFails, Leave, Base, TypeOK
  <2> QED  BY <2>1, <2>2, CountingMoves DEF After
<1> QED  BY <1>1, <1>2, <1>3, <1>4, <1>5, <1>6, <1>7 DEF Program

LEMMA OwnDraining ==
  ASSUME Base, NEW x \in Nodes, Draining(x), Program(x) \/ CallFails(x)
  PROVE  Draining(x)'
<1>1. Count(x)' = Count(x) /\ Count(x) \in Nat \ {0} /\ Total(x) \in Nat \ {0} /\ cnt[x] \in Nat
  BY CountFacts DEF Count, Links, Base, TypeOK
<1>2. CASE Prepare(x) \/ (x # Server /\ ClientConnect(x)) \/ (x = Server /\ ServerConnect)
  <2>1. \E a, b : Step(x, a, b) /\ b # "drain"
    BY <1>2, LoopStart DEF Prepare, ClientConnect, ServerConnect
  <2> QED  BY <2>1, MovesOnly DEF Draining
<1>3. CASE x = Server /\ Serve
  <2>1. \E a, b : Step(x, a, b) /\ b # "drain"
    BY <1>3, LoopStart DEF Serve
  <2> QED  BY <2>1, MovesOnly DEF Draining
<1>4. CASE GetCqEvent(x) \/ ReqNotify(x) \/ PostRecv(x) \/ (PollCq(x) /\ recv_cq[x] # <<>>)
           \/ Reply(x)
  <2>1. \E a, b : Step(x, a, b) /\ b # "drain"
    BY <1>4 DEF GetCqEvent, ReqNotify, PostRecv, PollCq, Reply
  <2> QED  BY <2>1, MovesOnly DEF Draining
<1>5. CASE PollCq(x) /\ recv_cq[x] = <<>>
  <2>1. /\ Step(x, "poll", LoopHead(x, cnt[x]))
        /\ cnt' = [cnt EXCEPT ![x] = IF cnt[x] >= Total(x) THEN 0 ELSE cnt[x]]
    BY <1>5 DEF PollCq
  <2>2. pc'[x] = LoopHead(x, cnt[x])
    BY <2>1, MovesOnly
  <2>3. cnt'[x] = IF cnt[x] >= Total(x) THEN 0 ELSE cnt[x]
    BY <2>1 DEF Base, TypeOK
  <2> QED  BY <1>1, <2>2, <2>3 DEF Draining, LoopHead
<1>6. CASE Drain(x)
  <2>1. /\ cnt'[x] = cnt[x] + 1
        /\ pc'[x] = "drain" => cnt[x] + 1 < Count(x)
    BY <1>6 DEF Drain, Step, Base, TypeOK
  <2> QED  BY <1>1, <2>1 DEF Draining
<1>7. CASE (x # Server /\ ClientTermination(x)) \/ (x = Server /\ ServerTermination)
  <2>1. \E a, b : Step(x, a, b) /\ b # "drain"
    BY <1>7 DEF ClientTermination, ServerTermination
  <2> QED  BY <2>1, MovesOnly DEF Draining
<1>8. CASE CloseCtx(x) \/ CallFails(x)
  BY <1>8 DEF CloseCtx, CallFails, Leave, Base, TypeOK, Draining
<1> QED  BY <1>2, <1>3, <1>4, <1>5, <1>6, <1>7, <1>8 DEF Program

\* A process that runs has not left, and a process that leaves leaves nothing.
LEMMA OwnLeft ==
  ASSUME Base, NEW x \in Nodes, Program(x) \/ CallFails(x)
  PROVE  Left(x)' /\ pc[x] \notin Over
<1>1. CASE CloseCtx(x) \/ CallFails(x)
  <2>1. acks'[x] = 0 /\ \A j \in Links(x) : out'[x][j] = <<>>
    BY <1>1, LeaveEffect DEF CloseCtx, CallFails, UpdatedRow, Base, TypeOK
  <2> QED  BY <1>1, <2>1 DEF Left, Links, CloseCtx, CallFails, Over
<1>2. CASE ~ (CloseCtx(x) \/ CallFails(x))
  <2>1. \E a, b : Step(x, a, b) /\ a \notin Over /\ b \notin Over
    <3>1. CASE Prepare(x)
      BY <3>1 DEF Prepare, Over
    <3>2. CASE (x # Server /\ ClientConnect(x)) \/ (x = Server /\ ServerConnect)
      BY <3>2, LoopStart DEF ClientConnect, ServerConnect, Over
    <3>3. CASE x = Server /\ Serve
      BY <3>3, LoopStart DEF Serve, Over
    <3>4. CASE GetCqEvent(x) \/ ReqNotify(x) \/ PostRecv(x) \/ Reply(x)
      BY <3>4 DEF GetCqEvent, ReqNotify, PostRecv, Reply, Over
    <3>5. CASE PollCq(x)
      BY <3>5, PlaceFacts DEF PollCq, Over
    <3>6. CASE Drain(x)
      BY <3>6 DEF Drain, Over
    <3>7. CASE (x # Server /\ ClientTermination(x)) \/ (x = Server /\ ServerTermination)
      BY <3>7 DEF ClientTermination, ServerTermination, Over
    <3> QED  BY <1>2, <3>1, <3>2, <3>3, <3>4, <3>5, <3>6, <3>7 DEF Program
  <2> QED  BY <2>1, MovesOnly DEF Left
<1> QED  BY <1>1, <1>2

LEMMA OwnTurn == ASSUME Base, Turn, Program(Server) \/ CallFails(Server) PROVE Turn'
<1>1. i \in Clients /\ Server \in Nodes /\ NumClients \in Nat
  BY NodeFacts DEF Base, TypeOK
<1> DEFINE next == (i + 1) % NumClients
<1>8. next = IF i + 1 < NumClients THEN i + 1 ELSE 0
  BY <1>1, TurnFacts
<1>9. /\ i \in Nat /\ i + 1 <= NumClients
      /\ \A j \in Clients : j \in Nat /\ j < NumClients /\ (j < i + 1 <=> j < i \/ j = i)
  BY <1>1, NodeFacts
<1> HIDE DEF next
<1>2. CASE Prepare(Server)
  <2>1. pc[Server] = "start" /\ pc'[Server] = "recv_dest" /\ i' = i /\ conn' = conn
    BY <1>1, <1>2, MovesOnly DEF Prepare, proc, link
  <2> QED  BY <2>1 DEF Turn, Setup, Loop, Over
<1>3. CASE ServerConnect
  <2>1. CASE pc[Server] # "connect"
    <3>1. i' = i /\ conn' = conn
      BY <1>1, <1>3, <2>1, MovesOnly DEF ServerConnect, TcpOnly, link
    <3>2. \E a, b : Step(Server, a, b) /\ a \in Setup /\ b \in Setup
      BY <1>3, <2>1, <1>1 DEF ServerConnect, Setup, Step
    <3>3. pc[Server] \in Setup /\ pc'[Server] \in Setup
      BY <1>1, <3>2, MovesOnly
    <3> QED  BY <3>1, <3>3 DEF Turn, Setup, Loop, Over
  <2>2. CASE pc[Server] = "connect"
    <3>1. /\ Step(Server, "connect", IF i + 1 < NumClients THEN "recv_dest" ELSE "serve")
          /\ i' = next /\ conn' = conn \cup {<<Server, i>>}
      BY <1>3, <2>2 DEF ServerConnect, Step, ConnectQps, next
    <3>2. pc'[Server] = IF i + 1 < NumClients THEN "recv_dest" ELSE "serve"
      BY <1>1, <3>1, MovesOnly
    <3>3. \A j \in Clients : j < i => <<Server, j>> \in conn
      BY <2>2 DEF Turn, Over
    <3>4. ASSUME NEW j \in Clients, j < i + 1 PROVE <<Server, j>> \in conn'
      <4>1. j < i \/ j = i
        BY <1>9, <3>4
      <4> QED  BY <3>1, <3>3, <4>1
    <3>5. CASE i + 1 < NumClients
      <4>1. i' = i + 1 /\ pc'[Server] = "recv_dest"
        BY <1>8, <3>1, <3>2, <3>5
      <4> QED  BY <3>4, <4>1 DEF Turn, Loop, Setup
    <3>6. CASE ~ (i + 1 < NumClients)
      <4>1. pc'[Server] = "serve" /\ \A j \in Clients : <<Server, j>> \in conn'
        <5>1. \A j \in Clients : j < i + 1
          BY <1>1, <1>9, <3>6
        <5> QED  BY <3>2, <3>4, <3>6, <5>1
      <4> QED  BY <4>1 DEF Turn, Loop
    <3> QED  BY <3>5, <3>6
  <2> QED  BY <2>1, <2>2
<1>4. CASE Serve
  <2>1. pc[Server] = "serve" /\ conn' = conn /\ i' = next
        /\ (pc'[Server] = "serve" \/ (pc'[Server] \in Loop /\ ~ (i + 1 < NumClients)))
    BY <1>1, <1>4, MovesOnly, LoopStart DEF Serve, Loop, next
  <2> QED  BY <1>8, <2>1 DEF Turn, Setup, Loop, Over
<1>5. CASE GetCqEvent(Server) \/ ReqNotify(Server) \/ PostRecv(Server) \/ PollCq(Server)
           \/ Reply(Server) \/ Drain(Server)
  <2>1. i' = i /\ conn' = conn
    BY <1>5 DEF GetCqEvent, ReqNotify, PostRecv, PollCq, Reply, Drain, proc, link
  <2>2. \E a, b : Step(Server, a, b) /\ a \in Loop \cup {"drain"}
                  /\ b \in Loop \cup {"drain", "recv_end", "send_end"}
    BY <1>5, PlaceFacts DEF GetCqEvent, ReqNotify, PostRecv, PollCq, Reply, Drain, Loop
  <2>3. pc[Server] \in Loop \cup {"drain"}
        /\ pc'[Server] \in Loop \cup {"drain", "recv_end", "send_end"}
    BY <1>1, <2>2, MovesOnly
  <2> QED  BY <2>1, <2>3 DEF Turn, Setup, Loop, Over
<1>6. CASE ServerTermination
  <2>1. conn' = conn
    BY <1>6 DEF ServerTermination, TcpOnly, link
  <2>2. \E a, b : Step(Server, a, b) /\ {a, b} \subseteq {"recv_end", "send_end", "close"}
    BY <1>6 DEF ServerTermination
  <2>3. {pc[Server], pc'[Server]} \subseteq {"recv_end", "send_end", "close"}
    BY <1>1, <2>2, MovesOnly
  <2> QED  BY <2>1, <2>3 DEF Turn, Setup, Loop, Over
<1>7. CASE CloseCtx(Server) \/ CallFails(Server)
  <2>1. pc'[Server] \in Over
    BY <1>1, <1>7 DEF CloseCtx, CallFails, Leave, Over, Base, TypeOK
  <2> QED  BY <2>1 DEF Turn, Loop, Over
<1> QED  BY <1>2, <1>3, <1>4, <1>5, <1>6, <1>7 DEF Program

\* What the adapters do to a process that has left: nothing.
LEMMA AdapterLeft ==
  ASSUME Base, NEW x \in Nodes, \A y \in Nodes : Left(y),
         Acknowledge(x) \/ (\E j \in Links(x) : Deliver(x, j) \/ GiveUp(x, j))
  PROVE  \A y \in Nodes : Left(y)'
<1>1. pc' = pc
  BY DEF Acknowledge, Deliver, GiveUp
<1>2. ASSUME NEW y \in Nodes, y # x
      PROVE  acks'[y] = acks[y] /\ \A j \in Links(y) : out'[y][j] = out[y][j]
  <2>1. CASE Acknowledge(x)
    BY <1>2, <2>1 DEF Acknowledge, Base, TypeOK
  <2>2. ASSUME NEW j \in Links(x), Deliver(x, j)
        PROVE  acks'[y] = acks[y] /\ \A k \in Links(y) : out'[y][k] = out[y][k]
    <3>1. acks'[y] = acks[y]
      BY <1>2, <2>2 DEF Deliver, Base, TypeOK
    <3> QED  BY <1>2, <2>2, <3>1, DeliverEffect DEF Updated, Only
  <2>3. ASSUME NEW j \in Links(x), GiveUp(x, j)
        PROVE  acks'[y] = acks[y] /\ \A k \in Links(y) : out'[y][k] = out[y][k]
    BY <1>2, <2>3, GiveUpEffect DEF GiveUp, Updated, Only
  <2> QED  BY <2>1, <2>2, <2>3
<1>3. pc[x] \notin Over
  <2>1. CASE Acknowledge(x)
    BY <2>1 DEF Acknowledge, Left, Base, TypeOK
  <2>2. CASE \E j \in Links(x) : Deliver(x, j) \/ GiveUp(x, j)
    BY <2>2 DEF Deliver, GiveUp, Left
  <2> QED  BY <2>1, <2>2
<1>4. ASSUME NEW y \in Nodes PROVE Left(y)'
  BY <1>1, <1>2, <1>3 DEF Left, Links
<1> QED  BY <1>4

LEMMA TrackInit == Init => Track
<1> SUFFICES ASSUME Init PROVE Track
  OBVIOUS
<1>1. \A x \in Nodes : pc[x] = "start" /\ cnt[x] = 0 /\ acks[x] = 0
  BY DEF Init
<1>2. \A c \in Clients : Answered(c) = 0
  BY NodeFacts DEF Init, Of, Answered
<1>3. Turn
  BY <1>1, NodeFacts DEF Turn, Loop, Init, Setup, Over
<1> QED  BY <1>1, <1>2, <1>3, NodeFacts DEF Track, Counting, Draining, Left, Setup, Loop, After, Over

LEMMA TrackStep == ASSUME BallInv, Track, [Next]_vars PROVE Track'
<1>1. ASSUME pc' = pc, i' = i, cnt' = cnt, pp_cnt' = pp_cnt,
             \A j \in Clients : <<Server, j>> \in conn' <=> <<Server, j>> \in conn
      PROVE  Turn' /\ (\A c \in Clients : Counting(c)') /\ \A x \in Nodes : Draining(x)'
  BY <1>1 DEF Track, Turn, Counting, Draining, Answered, Count, Links
<1>2. CASE UNCHANGED vars
  <2>1. UNCHANGED <<pc, i, cnt, pp_cnt, conn, acks, out>>
    BY <1>2 DEF vars, proc, link
  <2>2. \A x \in Nodes : Left(x)'
    BY <2>1 DEF Track, Left, Links
  <2> QED  BY <1>1, <2>1, <2>2 DEF Track
<1>3. ASSUME NEW x \in Nodes, Program(x) \/ CallFails(x) PROVE Track'
  <2>1. Base
    BY DEF BallInv
  <2>2. ASSUME NEW y \in Nodes, y # x
        PROVE  /\ Draining(y)' /\ Left(y)'
               /\ y \in Clients => Counting(y)'
               /\ y = Server => Turn'
    <3>1. /\ pc'[y] = pc[y] /\ cnt'[y] = cnt[y] /\ acks'[y] = acks[y]
          /\ \A k \in Links(y) : pp_cnt'[y][k] = pp_cnt[y][k] /\ out'[y][k] = out[y][k]
          /\ \A j \in Clients : <<y, j>> \in conn' <=> <<y, j>> \in conn
          /\ x # Server => i' = i
      BY <1>3, <2>1, <2>2, OthersKept
    <3>2. Draining(y)' /\ Left(y)'
      BY <3>1 DEF Track, Draining, Left, Count, Links
    <3>3. y \in Clients => Counting(y)'
      BY <3>1, NodeFacts, CountingMoves DEF Track, Answered
    <3>4. y = Server => Turn'
      BY <2>2, <3>1 DEF Track, Turn
    <3> QED  BY <3>2, <3>3, <3>4
  <2>3. Draining(x)' /\ Left(x)'
    BY <1>3, <2>1, OwnDraining, OwnLeft DEF Track
  <2>4. x \in Clients => Counting(x)'
    BY <1>3, ClientCounts DEF Track
  <2>5. x = Server => Turn'
    BY <1>3, <2>1, OwnTurn DEF Track
  <2> QED  BY <2>2, <2>3, <2>4, <2>5, NodeFacts DEF Track
<1>4. ASSUME NEW x \in Nodes,
             Acknowledge(x) \/ (\E j \in Links(x) : Deliver(x, j) \/ GiveUp(x, j))
      PROVE  Track'
  <2>1. UNCHANGED <<pc, i, cnt, pp_cnt, conn>>
    BY <1>4 DEF Acknowledge, Deliver, GiveUp, proc
  <2> QED  BY <1>1, <1>4, <2>1, AdapterLeft DEF Track, BallInv
<1> QED  BY <1>2, <1>3, <1>4 DEF Next, Done

-----------------------------------------------------------------------------
(* Balls that are lost.                                                    *)

LEMMA LostStands ==
  ASSUME NEW c \in Clients, Lost(c), Sent(c)' = Sent(c), Answered(c)' = Answered(c),
         Coming(c)' => Coming(c), recv_cq'[c] = recv_cq[c], InHand(c)' => InHand(c)
  PROVE  Lost(c)'
<1>1. Arrived(c)' = Arrived(c)
  BY DEF Arrived
<1> HIDE DEF Sent, Answered, Coming, Arrived, InHand
<1> QED  BY <1>1 DEF Lost, Forth

\* The server sends no second ball.
LEMMA ServerLost ==
  ASSUME BallInv, NEW c \in Clients, Lost(c), Program(Server) \/ CallFails(Server)
  PROVE  Lost(c)'
<1>1. Base /\ Server \in Nodes /\ c \in Nodes /\ c # Server /\ Ball(c)
      /\ Sent(c) \in Nat /\ Answered(c) \in Nat
  BY NodeFacts, Numbers DEF BallInv
<1>2. ~ Unserved(c) /\ ~ Back(c)
  BY <1>1 DEF Lost, Ball
<1>3. pc'[c] = pc[c] /\ \A k \in Links(c) : pp_cnt'[c][k] = pp_cnt[c][k]
  BY <1>1, OthersKept
<1>4. InHand(c)' = InHand(c) /\ Answered(c)' = Answered(c)
  BY <1>3, NodeFacts DEF InHand, Answered
<1>5. recv_cq'[c] = recv_cq[c]
  <2>1. recv_cq' = recv_cq \/ recv_cq' = [recv_cq EXCEPT ![Server] = Tail(@)]
    BY <1>1 DEF Program, CallFails, CloseCtx, Leave, Prepare, ServerConnect, ServerTermination,
                Serve, GetCqEvent, ReqNotify, PollCq, PostRecv, Reply, Drain, ConnectQps,
                TcpOnly, queues
  <2> QED  BY <1>1, <2>1 DEF Base, TypeOK
<1>6. Sent(c)' = Sent(c) /\ (Coming(c)' => Coming(c))
  <2>1. CASE Serve
    <3>1. PICK j \in Clients : j = i /\ PostSend(Server, j)
      BY <1>1, <2>1 DEF Base, TypeOK, Serve
    <3>2. pc[Server] = "serve"
      BY <2>1 DEF Serve, Step
    <3>3. Unserved(j) /\ j # c
      BY <1>2, <3>1, <3>2, NodeFacts DEF Unserved
    <3>4. Sent(j) = 0 /\ ~ Coming(j)
      <4>1. Ball(j) /\ Answered(j) \in Nat
        BY <1>1, Numbers DEF BallInv
      <4> QED  BY <3>3, <4>1 DEF Ball, Forth
    <3>5. Base' /\ Posted
      BY <1>1, <2>1, LoopTypes DEF BallInv
    <3> QED  BY <1>1, <3>1, <3>3, <3>4, <3>5, ServerSends, NodeFacts
  <2>2. CASE Reply(Server)
    <3>1. PICK d \in Clients :
            /\ InHands(d)
            /\ \A e \in Clients : e # d => Sent(e)' = Sent(e) /\ (Coming(e)' <=> Coming(e))
      BY <2>2, ServerReplies
    <3>2. c # d
      BY <1>2, <3>1 DEF Back
    <3> QED  BY <3>1, <3>2
  <2>3. CASE CloseCtx(Server) \/ CallFails(Server)
    <3>1. PICK how \in {"ok", "failed"} : Leave(Server, how)
      BY <2>3 DEF CloseCtx, CallFails
    <3>2. Base' /\ pp_cnt' = pp_cnt
      BY <1>1, <3>1, LeaveTypes DEF Leave, proc
    <3>3. Coming(c)' => Coming(c)
      BY <1>1, <3>1, <3>2, RowsLost, BallsLost DEF BallInv
    <3> QED  BY <3>2, <3>3 DEF Sent
  <2>4. CASE ~ (Serve \/ Reply(Server) \/ CloseCtx(Server) \/ CallFails(Server))
    <3>1. UNCHANGED <<pp_cnt, out>>
      BY <1>1, <2>4 DEF Program, Prepare, ServerConnect, ServerTermination, GetCqEvent, ReqNotify,
                PollCq, PostRecv, Drain, ConnectQps, TcpOnly, proc, link
    <3> QED  BY <3>1 DEF Sent, Coming
  <2> QED  BY <2>1, <2>2, <2>3, <2>4
<1> QED  BY <1>4, <1>5, <1>6, LostStands

\* A client has nothing to take, nor to answer.
LEMMA ClientLost ==
  ASSUME BallInv, NEW c \in Clients, Lost(c), NEW x \in Clients, Program(x) \/ CallFails(x)
  PROVE  Lost(c)'
<1>1. Base /\ Server \in Nodes /\ c \in Nodes /\ x \in Nodes /\ c # Server /\ x # Server
      /\ Links(Server) = Clients /\ Links(c) = {c}
  BY NodeFacts DEF BallInv
<1>2. \A q \in Clients : pp_cnt'[Server][q] = pp_cnt[Server][q] /\ out'[Server][q] = out[Server][q]
  BY <1>1, OthersKept
<1>3. Sent(c)' = Sent(c) /\ (Coming(c)' <=> Coming(c))
  BY <1>2, ComingSame DEF Sent
<1>4. ~ Arrived(c) /\ ~ InHand(c)
  BY DEF Lost, Forth
<1>5. CASE x # c
  <2>1. pc'[c] = pc[c] /\ pp_cnt'[c][c] = pp_cnt[c][c]
    BY <1>1, <1>5, OthersKept
  <2>2. recv_cq' = recv_cq \/ recv_cq' = [recv_cq EXCEPT ![x] = Tail(@)]
    BY <1>1 DEF Program, CallFails, CloseCtx, Leave, Prepare, ClientConnect, ClientTermination,
                GetCqEvent, ReqNotify, PollCq, PostRecv, Reply, Drain, ConnectQps,
                TcpOnly, queues
  <2>3. recv_cq'[c] = recv_cq[c]
    BY <1>1, <1>5, <2>2 DEF Base, TypeOK
  <2> QED  BY <1>3, <2>1, <2>3, LostStands DEF InHand, Answered
<1>6. CASE x = c
  <2>1. pc[c] \notin {"post_recv", "reply"} /\ recv_cq[c] = <<>>
    BY <1>4 DEF InHand, Arrived
  <2>2. \A n : LoopHead(c, n) \notin {"post_recv", "reply"}
    BY PlaceFacts
  <2>3. pc'[c] \notin {"post_recv", "reply"}
    <3>1. CASE CloseCtx(c) \/ CallFails(c)
      BY <1>1, <3>1, SMTT(20) DEF CloseCtx, CallFails, Leave, Base, TypeOK
    <3>2. CASE Prepare(c) \/ ClientTermination(c) \/ GetCqEvent(c) \/ ReqNotify(c) \/ Drain(c)
      BY <1>1, <3>2 DEF Prepare, ClientTermination, GetCqEvent, ReqNotify, Drain, Step, Base, TypeOK
    <3>3. CASE ClientConnect(c)
      BY <1>1, <2>2, <3>3, SMTT(20) DEF ClientConnect, Step, Base, TypeOK
    <3>4. CASE PollCq(c)
      BY <1>1, <2>1, <2>2, <3>4 DEF PollCq, Step, Base, TypeOK
    <3>5. CASE PostRecv(c) \/ Reply(c)
      BY <2>1, <3>5 DEF PostRecv, Reply, Step
    <3> QED  BY <1>1, <1>6, <3>1, <3>2, <3>3, <3>4, <3>5 DEF Program
  <2>4. UNCHANGED <<pp_cnt, recv_cq>>
    BY <1>1, <1>6, <2>1 DEF Program, CallFails, CloseCtx, Leave, Prepare, ClientConnect,
                ClientTermination, GetCqEvent, ReqNotify, PollCq, PostRecv, Reply, Drain,
                ConnectQps, TcpOnly, proc, queues, Step
  <2> QED  BY <1>3, <2>3, <2>4, LostStands DEF InHand, Answered
<1> QED  BY <1>5, <1>6

LEMMA AdapterLost ==
  ASSUME BallInv, NEW c \in Clients, Lost(c), NEW x \in Nodes,
         Acknowledge(x) \/ (\E j \in Links(x) : Deliver(x, j) \/ GiveUp(x, j))
  PROVE  Lost(c)'
<1>1. Base /\ Base' /\ c \in Nodes /\ c # Server /\ Server \in Nodes
  BY AdapterTypes, NodeFacts DEF BallInv
<1>2. UNCHANGED <<pc, pp_cnt>>
  BY DEF Acknowledge, Deliver, GiveUp, proc
<1>3. Sent(c)' = Sent(c) /\ Answered(c)' = Answered(c) /\ InHand(c)' = InHand(c)
  BY <1>2 DEF Sent, Answered, InHand
<1>4. (Coming(c)' => Coming(c)) /\ recv_cq'[c] = recv_cq[c]
  <2>1. CASE Acknowledge(x)
    BY <2>1 DEF Acknowledge, Coming
  <2>2. CASE \E j \in Links(x) : GiveUp(x, j)
    <3>1. recv_cq' = recv_cq
      BY <2>2 DEF GiveUp
    <3> QED  BY <1>1, <1>2, <2>2, <3>1, RowsLost, BallsLost DEF BallInv
  <2>3. ASSUME NEW j \in Links(x), Deliver(x, j), x = Server
        PROVE  (Coming(c)' => Coming(c)) /\ recv_cq'[c] = recv_cq[c]
    <3>1. PICK y : y = Head(out[Server][j]).to
      OBVIOUS
    <3>2. /\ y \in Clients /\ Coming(y)
          /\ \A d \in Clients : d # y => (Coming(d)' <=> Coming(d))
          /\ recv_cq' = [recv_cq EXCEPT ![y] = Append(@, y)]
      BY <1>1, <2>3, <3>1, ClientGets, NodeFacts, SMTT(20) DEF BallInv
    <3>3. y # c
      BY <3>2 DEF Lost, Forth
    <3> QED  BY <1>1, <3>2, <3>3 DEF Base, TypeOK
  <2>4. ASSUME NEW j \in Links(x), Deliver(x, j), x # Server
        PROVE  (Coming(c)' => Coming(c)) /\ recv_cq'[c] = recv_cq[c]
    <3>1. PICK d \in Clients : d = x /\ d = j
      BY <2>4, NodeFacts
    <3>2. /\ \A q \in Clients : out'[Server][q] = out[Server][q]
          /\ recv_cq' = [recv_cq EXCEPT ![Server] = Append(@, d)]
      BY <1>1, <2>4, <3>1, ServerGets DEF BallInv
    <3> QED  BY <1>1, <3>2, ComingSame DEF Base, TypeOK
  <2> QED  BY <2>1, <2>2, <2>3, <2>4
<1> QED  BY <1>3, <1>4, LostStands

\* What the server had posted first on a queue pair that gives up.
LEMMA LossBegins ==
  ASSUME BallInv, NEW j \in Clients, GiveUp(Server, j)
  PROVE  \E c \in Clients : Lost(c)'
<1>1. Base /\ j \in Links(Server) /\ Server \in Nodes
  BY NodeFacts DEF BallInv
<1>2. /\ out[Server][j] \in Seq(Messages) /\ out[Server][j] # <<>>
      /\ Updated(out', out, Seq(Messages), Server, j, <<>>)
  BY <1>1, GiveUpEffect
<1>3. 1 \in 1..Len(out[Server][j])
  BY <1>2
<1>4. out[Server][j][1].to \in Clients
  <2>1. out[Server][j] \in Seq([to : Clients, last : BOOLEAN])
    BY <1>1 DEF Base, Addressed
  <2>2. out[Server][j][1] \in [to : Clients, last : BOOLEAN]
    BY <1>3, <2>1, ElementOfQueue
  <2> QED  BY <2>2
<1>5. PICK c \in Clients : c = out[Server][j][1].to
  BY <1>4
<1>6. Coming(c) /\ Ball(c) /\ Sent(c) \in Nat /\ Answered(c) \in Nat
  BY <1>1, <1>3, <1>5, Numbers DEF Coming, BallInv
<1>7. Answered(c) < Sent(c) /\ ~ Arrived(c) /\ ~ InHand(c)
  <2> HIDE DEF Coming, Arrived, InHand, Sent, Answered
  <2> QED  BY <1>6 DEF Ball, Forth, Bit
<1>8. UNCHANGED <<pc, pp_cnt, recv_cq>>
  BY DEF GiveUp, proc
<1>9. /\ Sent(c)' = Sent(c) /\ Answered(c)' = Answered(c)
      /\ Arrived(c)' = Arrived(c) /\ InHand(c)' = InHand(c)
  BY <1>8 DEF Sent, Answered, Arrived, InHand
<1>10. ~ Coming(c)'
  <2> SUFFICES ASSUME NEW r \in Clients, NEW k \in 1..Len(out'[Server][r]),
                      out'[Server][r][k].to = c
               PROVE  FALSE
    BY DEF Coming
  <2>1. out'[Server][j] = <<>>
    BY <1>2 DEF Updated
  <2>2. r # j
    BY <2>1
  <2>3. out'[Server][r] = out[Server][r]
    BY <1>1, <1>2, <2>2, NodeFacts DEF Updated, Only
  <2> QED  BY <1>3, <1>5, <2>2, <2>3 DEF BallInv, Posted
<1> HIDE DEF Coming, Arrived, InHand, Sent, Answered
<1> QED  BY <1>7, <1>9, <1>10 DEF Lost, Forth

LEMMA LossStep == ASSUME BallInv, LossInv, [Next]_vars PROVE LossInv'
<1>1. ASSUME NEW c \in Clients, Lost(c) PROVE Lost(c)'
  <2>1. CASE UNCHANGED vars
    BY <1>1, <2>1, LostStands DEF vars, proc, link, queues, Sent, Answered, Coming, InHand
  <2>2. ASSUME NEW x \in Nodes, Program(x) \/ CallFails(x) PROVE Lost(c)'
    BY <1>1, <2>2, ServerLost, ClientLost, NodeFacts
  <2>3. ASSUME NEW x \in Nodes,
               Acknowledge(x) \/ (\E j \in Links(x) : Deliver(x, j) \/ GiveUp(x, j))
        PROVE  Lost(c)'
    BY <1>1, <2>3, AdapterLost
  <2> QED  BY <2>1, <2>2, <2>3 DEF Next, Done
<1>2. (\E j \in Clients : GiveUp(Server, j))
        \/ \A j \in Clients : <<Server, j>> \in broken' => <<Server, j>> \in broken
  <2>1. CASE UNCHANGED vars
    BY <2>1 DEF vars, link
  <2>2. ASSUME NEW x \in Nodes, Program(x) \/ CallFails(x) PROVE broken' = broken
    <3>1. 0 \in Clients
      BY NodeFacts DEF Clients
    <3>2. PICK y \in Nodes : y # x
      BY <3>1, NodeFacts
    <3> QED  BY <2>2, <3>2, OthersKept DEF BallInv
  <2>3. ASSUME NEW x \in Nodes,
               Acknowledge(x) \/ (\E j \in Links(x) : Deliver(x, j) \/ (GiveUp(x, j) /\ x # Server))
        PROVE  \A j \in Clients : <<Server, j>> \in broken' => <<Server, j>> \in broken
    <3>1. CASE Acknowledge(x) \/ \E j \in Links(x) : Deliver(x, j)
      BY <3>1 DEF Acknowledge, Deliver
    <3>2. ASSUME NEW k \in Links(x), GiveUp(x, k), x # Server
          PROVE  \A j \in Clients : <<Server, j>> \in broken' => <<Server, j>> \in broken
      BY <3>2 DEF GiveUp
    <3> QED  BY <2>3, <3>1, <3>2
  <2> QED  BY <2>1, <2>2, <2>3, NodeFacts DEF Next, Done
<1>3. CASE \E j \in Clients : GiveUp(Server, j)
  BY <1>3, LossBegins DEF LossInv
<1>4. CASE \A j \in Clients : <<Server, j>> \in broken' => <<Server, j>> \in broken
  BY <1>1, <1>4 DEF LossInv
<1> QED  BY <1>2, <1>3, <1>4

LEMMA LossInit == Init => LossInv
BY DEF Init, LossInv

-----------------------------------------------------------------------------
(* Who has finished.                                                       *)

LEMMA AllAnswered ==
  ASSUME BallInv, \A c \in Clients : Answered(c) = NumTests
  PROVE  /\ \A c \in Clients : Sent(c) = NumTests /\ ~ Coming(c) /\ ~ Lost(c)
         /\ \A q \in Clients : out[Server][q] = <<>>
<1>1. ASSUME NEW c \in Clients PROVE Sent(c) = NumTests /\ ~ Coming(c) /\ ~ Lost(c)
  <2>1. Ball(c) /\ Sent(c) \in Nat /\ Answered(c) = NumTests
    BY Numbers DEF BallInv
  <2> HIDE DEF Coming
  <2> QED  BY <2>1, NodeFacts DEF Ball, Forth, Lost
<1>2. ASSUME NEW q \in Clients, out[Server][q] # <<>> PROVE FALSE
  <2>1. out[Server][q] \in Seq([to : Clients, last : BOOLEAN])
    BY DEF BallInv, Base, Addressed
  <2>2. 1 \in 1..Len(out[Server][q])
    BY <1>2, <2>1
  <2>3. out[Server][q][1] \in [to : Clients, last : BOOLEAN]
    BY <2>1, <2>2, ElementOfQueue
  <2>4. PICK c \in Clients : c = out[Server][q][1].to
    BY <2>3
  <2>5. Coming(c)
    BY <2>2, <2>4 DEF Coming
  <2> QED  BY <1>1, <2>5
<1> QED  BY <1>1, <1>2

\* When the server has the word of all clients, nothing is under way.
LEMMA EndBegins ==
  ASSUME BallInv, Track, LossInv, EndInv, pc[Server] = "recv_end",
         \A c \in Clients : Settled(c)
  PROVE  \A x \in Nodes : acks[x] = 0 /\ \A j \in Links(x) : out[x][j] = <<>>
<1>1. \A c \in Clients : Answered(c) = NumTests
  BY DEF Settled
<1>2. Base /\ acks \in [Nodes -> Nat] /\ send_cq \in [Nodes -> Nat] /\ Server \in Nodes
  BY NodeFacts DEF BallInv, Base, TypeOK
<1>3. acks[Server] = 0
  <2>1. \A j \in Clients : <<Server, j>> \notin broken
    BY <1>1, AllAnswered DEF LossInv
  <2>2. acks[Server] + send_cq[Server] + Drained(Server) = Cardinality(Reached)
    BY <2>1 DEF EndInv, ServerCompletions, Over
  <2>3. Drained(Server) = NumClients
    BY CountFacts DEF Drained, After
  <2>4. IsFiniteSet(Clients) /\ Cardinality(Clients) = NumClients
    BY FS_Interval, NodeFacts DEF Clients
  <2>5. Cardinality(Reached) <= NumClients /\ Cardinality(Reached) \in Nat
    <3>1. Reached \in SUBSET Clients
      BY DEF Reached
    <3> QED  BY <2>4, <3>1, FS_Subset, FS_CardinalityType
  <2>6. acks[Server] \in Nat /\ send_cq[Server] \in Nat
    BY <1>2
  <2> QED  BY <2>2, <2>3, <2>5, <2>6, NodeFacts
<1>4. ASSUME NEW c \in Clients PROVE acks[c] = 0 /\ out[c][c] = <<>>
  <2>1. c \in Nodes /\ c \in Links(c) /\ Count(c) = 1
    BY NodeFacts, CountFacts
  <2>2. CASE pc[c] \in Over
    BY <2>1, <2>2 DEF Track, Left
  <2>3. CASE pc[c] \notin Over
    <3>1. pc[c] \in {"recv_end", "close"}
      BY <2>3 DEF Settled
    <3>2. Drained(c) = 1
      BY <2>1, <3>1 DEF Drained, After
    <3>3. acks[c] + send_cq[c] + Drained(c) = Bit(Answered(c) = NumTests /\ ~ Going(c))
      BY <2>3 DEF EndInv, ClientCompletions
    <3>4. acks[c] \in Nat /\ send_cq[c] \in Nat
      BY <1>2, <2>1
    <3>5. Bit(Answered(c) = NumTests /\ ~ Going(c)) \in {0, 1}
      BY DEF Bit
    <3>6. acks[c] = 0 /\ Bit(Answered(c) = NumTests /\ ~ Going(c)) = 1
      BY <3>2, <3>3, <3>4, <3>5
    <3>7. ~ Going(c)
      BY <3>6 DEF Bit
    <3> QED  BY <3>6, <3>7 DEF Going
  <2> QED  BY <2>2, <2>3
<1> QED  BY <1>1, <1>3, <1>4, AllAnswered, NodeFacts

LEMMA EndOfQueue ==
  ASSUME NEW s \in Seq({"dest", "END"})
  PROVE  /\ s # <<>> => (HasEnd(Tail(s)) => HasEnd(s)) /\ (Head(s) = "END" => HasEnd(s))
         /\ HasEnd(Append(s, "dest")) => HasEnd(s)
<1>1. ASSUME s # <<>>, HasEnd(Tail(s)) PROVE HasEnd(s)
  <2>1. PICK k \in 1..Len(Tail(s)) : Tail(s)[k] = "END"
    BY <1>1 DEF HasEnd
  <2>2. k + 1 \in 1..Len(s) /\ s[k + 1] = "END"
    BY <1>1, <2>1
  <2> QED  BY <2>2 DEF HasEnd
<1>2. ASSUME s # <<>>, Head(s) = "END" PROVE HasEnd(s)
  <2>1. 1 \in 1..Len(s) /\ s[1] = "END"
    BY <1>2
  <2> QED  BY <2>1 DEF HasEnd
<1>3. ASSUME HasEnd(Append(s, "dest")) PROVE HasEnd(s)
  <2>1. PICK k \in 1..Len(Append(s, "dest")) : Append(s, "dest")[k] = "END"
    BY <1>3 DEF HasEnd
  <2>2. k \in 1..Len(s) /\ s[k] = "END"
    BY <2>1
  <2> QED  BY <2>2 DEF HasEnd
<1> QED  BY <1>1, <1>2, <1>3

\* Who writes "END": a client that has its completions, and the server.
LEMMA EndsWritten ==
  ASSUME Base, [Next]_vars, NEW x \in Nodes, NEW j \in Links(x), HasEnd(tcp[x][j])'
  PROVE  \/ HasEnd(tcp[x][j])
         \/ /\ x = Server /\ ClientTermination(j) /\ pc[j] = "send_end"
         \/ /\ x # Server /\ ServerTermination /\ pc[Server] = "send_end"
<1>1. j \in Clients /\ (x = Server \/ x = j) /\ tcp[x][j] \in Seq({"dest", "END"})
      /\ Server \in Nodes /\ i \in Clients /\ j \in Nodes
  <2>1. tcp[x][j] \in Seq({"dest", "END"})
    BY TableRead DEF Base, TypeOK
  <2> QED  BY <2>1, NodeFacts DEF Base, TypeOK
<1>2. ASSUME NEW y \in Nodes, NEW k \in Links(y), NEW m \in {"dest", "END"}, Read(y, k, m)
      PROVE  HasEnd(tcp[x][j])
  <2>1. /\ Updated(tcp', tcp, Seq({"dest", "END"}), y, k, Tail(tcp[y][k]))
        /\ tcp[y][k] # <<>>
    BY <1>2, TcpEffect
  <2>2. CASE x = y /\ j = k
    <3>1. tcp'[x][j] = Tail(tcp[x][j]) /\ tcp[x][j] # <<>>
      BY <2>1, <2>2 DEF Updated
    <3> QED  BY <1>1, <3>1, EndOfQueue
  <2>3. CASE ~ (x = y /\ j = k)
    <3>1. tcp'[x][j] = tcp[x][j]
      BY <2>1, <2>3 DEF Updated, Only
    <3> QED  BY <3>1
  <2> QED  BY <2>2, <2>3
<1>3. ASSUME NEW y \in Nodes, NEW k \in Links(y), NEW m \in {"dest", "END"}, Write(y, k, m)
      PROVE  HasEnd(tcp[x][j]) \/ (m = "END" /\ x = Far(y, k) /\ j = k)
  <2>1. Updated(tcp', tcp, Seq({"dest", "END"}), Far(y, k), k, Append(tcp[Far(y, k)][k], m))
    BY <1>3, TcpEffect
  <2>2. CASE x = Far(y, k) /\ j = k /\ m = "dest"
    <3>1. tcp'[x][j] = Append(tcp[x][j], "dest")
      BY <2>1, <2>2 DEF Updated
    <3> QED  BY <1>1, <3>1, EndOfQueue
  <2>3. CASE ~ (x = Far(y, k) /\ j = k)
    <3>1. tcp'[x][j] = tcp[x][j]
      BY <2>1, <2>3 DEF Updated, Only
    <3> QED  BY <3>1
  <2> QED  BY <2>2, <2>3
<1>4. CASE tcp' = tcp
  BY <1>4
<1>5. ASSUME NEW y \in Clients, ClientConnect(y)
      PROVE  HasEnd(tcp[x][j])
  <2>1. y \in Nodes /\ y \in Links(y)
    BY NodeFacts
  <2>2. Write(y, y, "dest") \/ Read(y, y, "dest") \/ tcp' = tcp
    BY <1>5 DEF ClientConnect, ConnectQps
  <2> QED  BY <1>2, <1>3, <1>4, <2>1, <2>2
<1>6. CASE ServerConnect
  <2>1. Write(Server, i, "dest") \/ Read(Server, i, "dest") \/ tcp' = tcp
    BY <1>6 DEF ServerConnect, ConnectQps
  <2>2. i \in Links(Server)
    BY <1>1, NodeFacts
  <2> QED  BY <1>1, <1>2, <1>3, <1>4, <2>1, <2>2
<1>7. ASSUME NEW y \in Clients, ClientTermination(y)
      PROVE  HasEnd(tcp[x][j]) \/ (x = Server /\ ClientTermination(j) /\ pc[j] = "send_end")
  <2>1. y \in Nodes /\ y \in Links(y) /\ Far(y, y) = Server
    BY NodeFacts
  <2>2. (Write(y, y, "END") /\ pc[y] = "send_end") \/ Read(y, y, "END")
    BY <1>7 DEF ClientTermination, Step
  <2> QED  BY <1>2, <1>3, <1>7, <2>1, <2>2
<1>8. CASE ServerTermination
  <2>1. (Write(Server, i, "END") /\ pc[Server] = "send_end") \/ Read(Server, i, "END")
    BY <1>8 DEF ServerTermination, Step
  <2>2. i \in Links(Server) /\ Far(Server, i) # Server
    BY <1>1, NodeFacts
  <2> QED  BY <1>1, <1>2, <1>3, <1>8, <2>1, <2>2
<1>9. ASSUME NEW y \in Nodes, Program(y), ~ (y # Server /\ (ClientConnect(y) \/ ClientTermination(y))),
             ~ (y = Server /\ (ServerConnect \/ ServerTermination))
      PROVE  tcp' = tcp
  BY <1>9 DEF Program, Prepare, Serve, GetCqEvent, ReqNotify, PollCq, PostRecv, Reply, Drain,
              CloseCtx, Leave
<1>10. ASSUME NEW y \in Nodes,
              CallFails(y) \/ Acknowledge(y) \/ (\E k \in Links(y) : Deliver(y, k) \/ GiveUp(y, k))
       PROVE  tcp' = tcp
  BY <1>10 DEF CallFails, Leave, Acknowledge, Deliver, GiveUp
<1>11. CASE UNCHANGED vars
  BY <1>4, <1>11 DEF vars
<1> QED  BY <1>4, <1>5, <1>6, <1>7, <1>8, <1>9, <1>10, <1>11, NodeFacts DEF Next, Done

LEMMA SettledKept ==
  ASSUME Base, [Next]_vars, NEW c \in Clients, Settled(c)
  PROVE  Settled(c)'
<1>1. c \in Nodes /\ c # Server /\ c \in Links(c)
  BY NodeFacts
<1>2. CASE pc' = pc /\ pp_cnt' = pp_cnt
  BY <1>2 DEF Settled, Answered
<1>3. ASSUME NEW x \in Nodes, Program(x) \/ CallFails(x), x # c PROVE Settled(c)'
  <2>1. pc'[c] = pc[c] /\ pp_cnt'[c][c] = pp_cnt[c][c]
    BY <1>1, <1>3, OthersKept
  <2> QED  BY <2>1 DEF Settled, Answered
<1>4. ASSUME Program(c) \/ CallFails(c) PROVE Settled(c)'
  <2>1. pc[c] \in {"recv_end", "close"}
    BY <1>1, <1>4, OwnLeft DEF Settled
  <2>2. ClientTermination(c) \/ CloseCtx(c) \/ CallFails(c)
    BY <1>1, <1>4, <2>1, PlaceFacts
       DEF Program, Prepare, ClientConnect, GetCqEvent, ReqNotify, PollCq, PostRecv, Reply, Drain,
           Step
  <2>3. pp_cnt' = pp_cnt
    BY <2>2 DEF ClientTermination, CloseCtx, CallFails, Leave, TcpOnly, proc
  <2>4. pc'[c] \in {"close"} \cup Over
    <3>1. CASE ClientTermination(c)
      BY <1>1, <2>1, <3>1, MovesOnly DEF ClientTermination
    <3>2. CASE CloseCtx(c) \/ CallFails(c)
      BY <1>1, <3>2 DEF CloseCtx, CallFails, Leave, Over, Base, TypeOK
    <3> QED  BY <2>2, <3>1, <3>2
  <2> QED  BY <2>3, <2>4 DEF Settled, Answered
<1>5. ASSUME NEW x \in Nodes,
             Acknowledge(x) \/ (\E j \in Links(x) : Deliver(x, j) \/ GiveUp(x, j))
      PROVE  Settled(c)'
  <2>1. pc' = pc /\ pp_cnt' = pp_cnt
    BY <1>5 DEF Acknowledge, Deliver, GiveUp, proc
  <2> QED  BY <1>2, <2>1
<1>6. CASE UNCHANGED vars
  BY <1>2, <1>6 DEF vars, proc
<1> QED  BY <1>3, <1>4, <1>5, <1>6 DEF Next, Done

\* The server, too, goes on to its end only.
LEMMA ServerMoves ==
  ASSUME Base, Turn, [Next]_vars
  PROVE  \/ pc'[Server] = pc[Server] /\ (i' = i \/ pc[Server] # "recv_end")
         \/ pc'[Server] \notin {"recv_end", "send_end", "close", "ok"}
              /\ (pc'[Server] = "failed" \/ pc[Server] \notin {"recv_end", "send_end", "close"} \cup Over)
         \/ pc[Server] = "drain" /\ pc'[Server] = "recv_end" /\ i' = 0
         \/ ServerTermination
         \/ pc[Server] = "close" /\ pc'[Server] = "ok"
<1>1. Server \in Nodes
  BY NodeFacts
<1>2. ASSUME NEW x \in Nodes, Program(x) \/ CallFails(x), x # Server
      PROVE  pc'[Server] = pc[Server] /\ i' = i
  BY <1>1, <1>2, OthersKept
<1>3. ASSUME NEW x \in Nodes,
             Acknowledge(x) \/ (\E j \in Links(x) : Deliver(x, j) \/ GiveUp(x, j))
      PROVE  pc' = pc /\ i' = i
  BY <1>3 DEF Acknowledge, Deliver, GiveUp, proc
<1>4. CASE CallFails(Server)
  BY <1>1, <1>4 DEF CallFails, Leave, Base, TypeOK
<1>5. CASE CloseCtx(Server)
  BY <1>1, <1>5 DEF CloseCtx, Leave, Base, TypeOK
<1>6. CASE Drain(Server)
  <2>1. pc[Server] = "drain" /\ pc'[Server] \in {"drain", "recv_end"} /\ i' = i /\ i = 0
    BY <1>1, <1>6, MovesOnly DEF Drain, Turn
  <2> QED  BY <2>1
<1>7. CASE Program(Server) /\ ~ (CloseCtx(Server) \/ Drain(Server) \/ ServerTermination)
  <2>1. \E a, b : /\ Step(Server, a, b)
                  /\ a \notin {"recv_end", "send_end", "close"} \cup Over
                  /\ b \notin {"recv_end", "send_end", "close", "ok"}
    <3>1. CASE Prepare(Server)
      BY <3>1 DEF Prepare, Over
    <3>2. CASE ServerConnect \/ Serve
      BY <1>1, <3>2, LoopStart DEF ServerConnect, Serve, Over
    <3>3. CASE GetCqEvent(Server) \/ ReqNotify(Server) \/ PostRecv(Server) \/ Reply(Server)
      BY <3>3 DEF GetCqEvent, ReqNotify, PostRecv, Reply, Over
    <3>4. CASE PollCq(Server)
      BY <3>4, PlaceFacts DEF PollCq, Over
    <3> QED  BY <1>7, <3>1, <3>2, <3>3, <3>4 DEF Program
  <2> QED  BY <1>1, <2>1, MovesOnly
<1>8. CASE UNCHANGED vars
  BY <1>8 DEF vars, proc
<1> QED  BY <1>2, <1>3, <1>4, <1>5, <1>6, <1>7, <1>8 DEF Next, Done

\* What the server does at the end.
LEMMA ServerEnds ==
  ASSUME Base, ServerTermination
  PROVE  /\ \/ /\ pc[Server] = "recv_end" /\ HasEnd(tcp[Server][i])
               /\ \/ pc'[Server] = "recv_end" /\ i' = i + 1
                  \/ pc'[Server] = "send_end" /\ \A c \in Clients : c <= i
            \/ pc[Server] = "send_end" /\ pc'[Server] \in {"send_end", "close"}
         /\ UNCHANGED <<out, acks>>
<1>1. i \in Clients /\ Server \in Nodes /\ i \in Links(Server) /\ NumClients \in Nat
  BY NodeFacts DEF Base, TypeOK
<1> DEFINE next == (i + 1) % NumClients
<1>2. i' = next /\ UNCHANGED <<out, acks>>
  BY DEF ServerTermination, TcpOnly, link
<1>3. next = IF i + 1 < NumClients THEN i + 1 ELSE 0
  BY <1>1, TurnFacts
<1> HIDE DEF next
<1>4. ~ (i + 1 < NumClients) => \A c \in Clients : c <= i
  BY <1>1, NodeFacts
<1>5. CASE Step(Server, "recv_end", IF i + 1 < NumClients THEN "recv_end" ELSE "send_end")
           /\ Read(Server, i, "END")
  <2>1. /\ pc[Server] = "recv_end"
        /\ pc'[Server] = IF i + 1 < NumClients THEN "recv_end" ELSE "send_end"
    BY <1>1, <1>5, MovesOnly
  <2>2. tcp[Server][i] \in Seq({"dest", "END"})
    BY <1>1, TableRead DEF Base, TypeOK
  <2>3. HasEnd(tcp[Server][i])
    BY <1>5, <2>2, EndOfQueue DEF Read
  <2> QED  BY <1>2, <1>3, <1>4, <2>1, <2>3
<1>6. CASE Step(Server, "send_end", IF i + 1 < NumClients THEN "send_end" ELSE "close")
  <2>1. pc[Server] = "send_end" /\ pc'[Server] \in {"send_end", "close"}
    BY <1>1, <1>6, MovesOnly
  <2> QED  BY <1>2, <2>1
<1> QED  BY <1>5, <1>6 DEF ServerTermination

LEMMA ToldBefore ==
  ASSUME BallInv, Track, [Next]_vars, NEW c \in Clients, Told(c)'
  PROVE  Told(c) \/ (ClientTermination(c) /\ pc[c] = "send_end")
<1>1. Base /\ Turn /\ Server \in Nodes /\ c \in Links(Server) /\ c \in Nat /\ i \in Nat
  BY NodeFacts DEF BallInv, Track, Base, TypeOK
<1>2. CASE HasEnd(tcp[Server][c])'
  BY <1>1, <1>2, EndsWritten DEF Told
<1>3. CASE ServerTermination
  <2>1. pc[Server] \in {"recv_end", "send_end"}
    BY <1>1, <1>3, ServerEnds
  <2>2. CASE pc[Server] = "send_end"
    BY <2>2 DEF Told
  <2>3. CASE pc[Server] = "recv_end" /\ pc'[Server] = "recv_end" /\ ~ HasEnd(tcp[Server][c])'
    <3>1. HasEnd(tcp[Server][i]) /\ i' = i + 1
      BY <1>1, <1>3, <2>3, ServerEnds
    <3>2. c < i'
      BY <2>3 DEF Told
    <3>3. c < i \/ c = i
      BY <1>1, <3>1, <3>2
    <3> QED  BY <2>3, <3>1, <3>3 DEF Told
  <2>4. CASE pc[Server] = "recv_end" /\ pc'[Server] # "recv_end"
    <3>1. HasEnd(tcp[Server][i]) /\ c <= i
      BY <1>1, <1>3, <2>4, ServerEnds
    <3>2. c < i \/ c = i
      BY <1>1, <3>1
    <3> QED  BY <2>4, <3>1, <3>2 DEF Told
  <2> QED  BY <1>2, <2>1, <2>2, <2>3, <2>4
<1>4. CASE ~ ServerTermination /\ ~ HasEnd(tcp[Server][c])'
  <2>1. (pc'[Server] = "recv_end" /\ c < i') \/ pc'[Server] \in {"send_end", "close", "ok"}
    BY <1>4 DEF Told
  <2>2. ~ (c < 0)
    BY <1>1
  <2> QED  BY <1>1, <1>4, <2>1, <2>2, ServerMoves DEF Told
<1> QED  BY <1>2, <1>3, <1>4

LEMMA FinishedBefore ==
  ASSUME BallInv, Track, [Next]_vars, Finished'
  PROVE  \/ Finished
         \/ ServerTermination /\ pc[Server] = "recv_end" /\ pc'[Server] = "send_end"
<1>1. Base /\ Turn /\ Server \in Nodes
  BY NodeFacts DEF BallInv, Track
<1>2. CASE pc'[Server] \in {"send_end", "close", "ok"}
  <2>1. CASE ServerTermination
    BY <1>1, <1>2, <2>1, ServerEnds DEF Finished
  <2>2. CASE ~ ServerTermination
    BY <1>1, <1>2, <2>2, ServerMoves DEF Finished
  <2> QED  BY <2>1, <2>2
<1>3. ASSUME NEW c \in Clients, HasEnd(tcp[c][c])' PROVE Finished
  <2>1. c \in Nodes /\ c \in Links(c) /\ c # Server
    BY NodeFacts
  <2>2. HasEnd(tcp[c][c]) \/ pc[Server] = "send_end"
    BY <1>1, <1>3, <2>1, EndsWritten
  <2> QED  BY <2>2 DEF Finished
<1>4. ASSUME NEW c \in Clients, pc'[c] \in {"close", "ok"} PROVE Finished
  <2>1. c \in Nodes /\ c \in Links(c) /\ c # Server
    BY NodeFacts
  <2>2. CASE pc[c] \in {"close", "ok"}
    BY <2>2 DEF Finished
  <2>3. CASE pc[c] \notin {"close", "ok"}
    <3>1. Program(c)
      <4>1. ~ UNCHANGED vars /\ ~ Done
        BY <1>4, <2>3 DEF vars, Done
      <4>2. ASSUME NEW x \in Nodes, Program(x) \/ CallFails(x) PROVE x = c /\ Program(x)
        <5>1. x = c
          BY <1>1, <1>4, <2>1, <2>3, <4>2, OthersKept
        <5>2. ~ CallFails(c)
          BY <1>1, <1>4, <2>1, SMTT(20) DEF CallFails, Leave, Base, TypeOK
        <5> QED  BY <4>2, <5>1, <5>2
      <4>3. ASSUME NEW x \in Nodes,
                   Acknowledge(x) \/ (\E j \in Links(x) : Deliver(x, j) \/ GiveUp(x, j))
            PROVE  FALSE
        BY <1>4, <2>3, <4>3 DEF Acknowledge, Deliver, GiveUp
      <4> QED  BY <4>1, <4>2, <4>3 DEF Next
    <3>2. ClientTermination(c) /\ pc[c] = "recv_end"
      <4>1. ~ CloseCtx(c)
        BY <2>3 DEF CloseCtx
      <4>2. CASE ClientTermination(c)
        BY <1>1, <1>4, <2>1, <4>2, MovesOnly DEF ClientTermination
      <4>3. CASE ~ ClientTermination(c)
        <5>1. \E a, b : Step(c, a, b) /\ b \notin {"close", "ok"}
          BY <2>1, <3>1, <4>1, <4>3, LoopStart, PlaceFacts
             DEF Program, Prepare, ClientConnect, GetCqEvent, ReqNotify, PollCq, PostRecv, Reply,
                 Drain
        <5> QED  BY <1>1, <1>4, <2>1, <5>1, MovesOnly
      <4> QED  BY <4>2, <4>3
    <3>3. HasEnd(tcp[c][c])
      <4>1. tcp[c][c] \in Seq({"dest", "END"})
        BY <1>1, <2>1, TableRead DEF Base, TypeOK
      <4>2. Read(c, c, "END")
        BY <3>2 DEF ClientTermination, Step
      <4> QED  BY <4>1, <4>2, EndOfQueue DEF Read
    <3> QED  BY <3>3 DEF Finished
  <2> QED  BY <2>2, <2>3
<1> QED  BY <1>2, <1>3, <1>4 DEF Finished

\* With nothing under way, and no process left to send, nothing gets under way.
LEMMA NothingStarts ==
  ASSUME BallInv, [Next]_vars,
         pc[Server] \in {"recv_end", "send_end", "close"} \cup Over,
         \A c \in Clients : Settled(c),
         \A x \in Nodes : acks[x] = 0 /\ \A j \in Links(x) : out[x][j] = <<>>
  PROVE  \A x \in Nodes : acks'[x] = 0 /\ \A j \in Links(x) : out'[x][j] = <<>>
<1>1. Base /\ \A x \in Nodes : pc[x] \in {"recv_end", "send_end", "close"} \cup Over
  BY NodeFacts DEF BallInv, Settled
<1>2. CASE UNCHANGED <<acks, out>>
  BY <1>2
<1>3. ASSUME NEW x \in Nodes, CloseCtx(x) \/ CallFails(x), NEW y \in Nodes
      PROVE  acks'[y] = 0 /\ \A j \in Links(y) : out'[y][j] = <<>>
  <2>1. PICK how \in {"ok", "failed"} : Leave(x, how)
    BY <1>3 DEF CloseCtx, CallFails
  <2>2. acks'[y] = 0
    BY <1>1, <2>1 DEF Leave, Base, TypeOK
  <2>3. \A j \in Links(y) : out'[y][j] = <<>>
    BY <1>1, <2>1, LeaveEffect DEF UpdatedRow, OnlyRow
  <2> QED  BY <2>2, <2>3
<1>4. ASSUME NEW x \in Nodes, Program(x), ~ CloseCtx(x) PROVE UNCHANGED <<acks, out>>
  <2>1. pc[x] \in {"recv_end", "send_end", "close"}
    BY <1>1, <1>4, OwnLeft
  <2>2. (x # Server /\ ClientTermination(x)) \/ (x = Server /\ ServerTermination)
    BY <1>4, <2>1 DEF Program, Prepare, ClientConnect, ServerConnect, Serve, GetCqEvent, ReqNotify,
                      PollCq, PostRecv, Reply, Drain, Step
  <2> QED  BY <2>2 DEF ClientTermination, ServerTermination, TcpOnly, link
<1>5. ASSUME NEW x \in Nodes,
             Acknowledge(x) \/ (\E j \in Links(x) : Deliver(x, j) \/ GiveUp(x, j))
      PROVE  FALSE
  <2>1. ~ Acknowledge(x)
    BY DEF Acknowledge
  <2> QED  BY <1>5, <2>1 DEF Deliver, GiveUp
<1>6. CASE UNCHANGED vars
  BY <1>2, <1>6 DEF vars, link
<1> QED  BY <1>2, <1>3, <1>4, <1>5, <1>6 DEF Next, Done

LEMMA EndingStep ==
  ASSUME BallInv, Track, LossInv, EndInv, [Next]_vars
  PROVE  Ending'
<1>1. Base /\ Turn /\ Ending /\ Server \in Nodes
  BY NodeFacts DEF BallInv, Track, EndInv
<1>2. ASSUME NEW c \in Clients, Told(c)' PROVE Settled(c)'
  <2>1. CASE Told(c)
    BY <1>1, <2>1, SettledKept DEF Ending
  <2>2. CASE ClientTermination(c) /\ pc[c] = "send_end"
    <3>1. c \in Nodes /\ pp_cnt' = pp_cnt
      BY <2>2, NodeFacts DEF ClientTermination, TcpOnly
    <3>2. pc'[c] = "recv_end"
      BY <1>1, <2>2, <3>1, MovesOnly DEF ClientTermination, Step
    <3>3. Answered(c) = NumTests
      BY <2>2 DEF Track, Counting, After
    <3> QED  BY <3>1, <3>2, <3>3 DEF Settled, Answered
  <2> QED  BY <1>2, <2>1, <2>2, ToldBefore
<1>3. CASE Finished
  <2>1. /\ pc[Server] \in {"send_end", "close"} \cup Over
        /\ \A c \in Clients : Settled(c)
        /\ \A x \in Nodes : acks[x] = 0 /\ \A j \in Links(x) : out[x][j] = <<>>
    BY <1>1, <1>3 DEF Ending
  <2>2. pc'[Server] \in {"send_end", "close"} \cup Over
    BY <1>1, <2>1, ServerMoves, ServerEnds DEF Over
  <2>3. \A c \in Clients : Settled(c)'
    BY <1>1, <2>1, SettledKept
  <2>4. \A x \in Nodes : acks'[x] = 0 /\ \A j \in Links(x) : out'[x][j] = <<>>
    BY <2>1, NothingStarts
  <2> QED  BY <1>2, <2>2, <2>3, <2>4 DEF Ending, Links
<1>4. CASE ServerTermination /\ pc[Server] = "recv_end" /\ pc'[Server] = "send_end"
  <2>1. \A c \in Clients : Told(c)
    <3> TAKE c \in Clients
    <3>1. HasEnd(tcp[Server][i]) /\ c <= i
      BY <1>1, <1>4, ServerEnds
    <3>2. c < i \/ c = i
      BY <1>1, <3>1, NodeFacts DEF Base, TypeOK
    <3> QED  BY <1>4, <3>1, <3>2 DEF Told
  <2>2. \A c \in Clients : Settled(c)
    BY <1>1, <2>1 DEF Ending
  <2>3. \A x \in Nodes : acks[x] = 0 /\ \A j \in Links(x) : out[x][j] = <<>>
    BY <1>4, <2>2, EndBegins
  <2>4. \A x \in Nodes : acks'[x] = 0 /\ \A j \in Links(x) : out'[x][j] = <<>>
    BY <1>4, <2>2, <2>3, NothingStarts
  <2>5. \A c \in Clients : Settled(c)'
    BY <1>1, <2>2, SettledKept
  <2> QED  BY <1>2, <1>4, <2>4, <2>5 DEF Ending, Links
<1>5. CASE ~ Finished'
  BY <1>2, <1>5 DEF Ending
<1> QED  BY <1>3, <1>4, <1>5, FinishedBefore

-----------------------------------------------------------------------------
(* Completions.                                                            *)

LEMMA OverStays ==
  ASSUME Base, [Next]_vars, NEW x \in Nodes, pc[x] \in Over
  PROVE  pc'[x] = pc[x]
<1>1. ASSUME NEW y \in Nodes, Program(y) \/ CallFails(y) PROVE pc'[x] = pc[x]
  BY <1>1, OwnLeft, OthersKept
<1>2. ASSUME NEW y \in Nodes,
             Acknowledge(y) \/ (\E j \in Links(y) : Deliver(y, j) \/ GiveUp(y, j))
      PROVE  pc' = pc
  BY <1>2 DEF Acknowledge, Deliver, GiveUp
<1> QED  BY <1>1, <1>2 DEF Next, Done, vars

\* Steps of a process that leave its completions and their count alone.
LEMMA QuietCompletions ==
  ASSUME Base, NEW x \in Nodes, Program(x), ~ Reply(x), ~ Drain(x), ~ CloseCtx(x),
         ~ (x = Server /\ Serve)
  PROVE  /\ UNCHANGED <<acks, send_cq, out, pp_cnt, broken>>
         /\ Drained(x)' = Drained(x)
<1>1. UNCHANGED <<acks, send_cq, out, pp_cnt, broken>>
  BY DEF Program, Prepare, ClientConnect, ServerConnect, ClientTermination, ServerTermination,
         GetCqEvent, ReqNotify, PollCq, PostRecv, ConnectQps, TcpOnly, proc, link, queues
<1>2. Count(x)' = Count(x)
  BY DEF Count, Links
<1>3. CASE Prepare(x) \/ (x # Server /\ ClientConnect(x)) \/ (x = Server /\ ServerConnect)
           \/ GetCqEvent(x) \/ ReqNotify(x) \/ PostRecv(x) \/ (PollCq(x) /\ recv_cq[x] # <<>>)
  <2>1. \E a, b : Step(x, a, b) /\ a \notin After /\ b \notin After
    <3>1. CASE Prepare(x)
      BY <3>1 DEF Prepare, After
    <3>2. CASE (x # Server /\ ClientConnect(x)) \/ (x = Server /\ ServerConnect)
      BY <3>2, LoopStart DEF ClientConnect, ServerConnect, After
    <3>3. CASE GetCqEvent(x) \/ ReqNotify(x) \/ PostRecv(x) \/ (PollCq(x) /\ recv_cq[x] # <<>>)
      BY <3>3 DEF GetCqEvent, ReqNotify, PostRecv, PollCq, After
    <3> QED  BY <1>3, <3>1, <3>2, <3>3
  <2>2. pc[x] \notin After /\ pc'[x] \notin After
    BY <2>1, MovesOnly
  <2> QED  BY <1>1, <2>2 DEF Drained, After
<1>4. CASE PollCq(x) /\ recv_cq[x] = <<>>
  <2>1. /\ Step(x, "poll", LoopHead(x, cnt[x]))
        /\ cnt' = [cnt EXCEPT ![x] = IF cnt[x] >= Total(x) THEN 0 ELSE cnt[x]]
    BY <1>4 DEF PollCq
  <2>2. pc[x] = "poll" /\ pc'[x] = LoopHead(x, cnt[x])
    BY <2>1, MovesOnly
  <2>3. cnt'[x] = IF cnt[x] >= Total(x) THEN 0 ELSE cnt[x]
    BY <2>1 DEF Base, TypeOK
  <2> QED  BY <1>1, <2>2, <2>3 DEF Drained, After, LoopHead
<1>5. CASE (x # Server /\ ClientTermination(x)) \/ (x = Server /\ ServerTermination)
  <2>1. \E a, b : Step(x, a, b) /\ a \in After \ {"drain"} /\ b \in After \ {"drain"}
    BY <1>5 DEF ClientTermination, ServerTermination, After
  <2>2. pc[x] \in After \ {"drain"} /\ pc'[x] \in After \ {"drain"}
    BY <2>1, MovesOnly
  <2> QED  BY <1>1, <1>2, <2>2 DEF Drained, After
<1> QED  BY <1>1, <1>3, <1>4, <1>5 DEF Program

LEMMA DrainCompletions ==
  ASSUME Base, NEW x \in Nodes, Draining(x), Drain(x)
  PROVE  /\ UNCHANGED <<acks, out, pp_cnt, broken>>
         /\ send_cq[x] > 0 /\ send_cq'[x] = send_cq[x] - 1
         /\ Drained(x) \in Nat /\ Drained(x)' = Drained(x) + 1
<1>1. cnt[x] \in Nat /\ Count(x) \in Nat /\ Count(x)' = Count(x)
  BY CountFacts DEF Count, Links, Base, TypeOK
<1>2. /\ UNCHANGED <<acks, out, pp_cnt, broken>>
      /\ send_cq[x] > 0 /\ send_cq'[x] = send_cq[x] - 1
      /\ cnt'[x] = cnt[x] + 1
  BY DEF Drain, link, Base, TypeOK
<1>3. /\ pc[x] = "drain"
      /\ pc'[x] = IF cnt[x] + 1 < Count(x) THEN "drain"
                  ELSE IF x = Server THEN "recv_end" ELSE "send_end"
  BY MovesOnly DEF Drain
<1>4. cnt[x] < Count(x)
  BY <1>3 DEF Draining
<1>5. CASE cnt[x] + 1 < Count(x)
  BY <1>1, <1>2, <1>3, <1>5 DEF Drained
<1>6. CASE ~ (cnt[x] + 1 < Count(x))
  <2>1. Count(x) = cnt[x] + 1
    BY <1>1, <1>4, <1>6
  <2>2. pc'[x] \in After \ {"drain"}
    BY <1>3, <1>6 DEF After
  <2> QED  BY <1>1, <1>2, <1>3, <2>1, <2>2 DEF Drained
<1> QED  BY <1>5, <1>6

LEMMA DrainedType == ASSUME Base, NEW x \in Nodes PROVE Drained(x) \in Nat
BY CountFacts DEF Drained, Base, TypeOK

LEMMA ClientCompletionsStep ==
  ASSUME BallInv, Track, EndInv, [Next]_vars, NEW c \in Clients
  PROVE  ClientCompletions(c)'
<1>1. Base /\ Turn /\ c \in Nodes /\ c # Server /\ Server \in Nodes /\ c \in Links(c)
      /\ Links(c) = {c} /\ Ball(c) /\ ClientCompletions(c) /\ Draining(c)
      /\ Drained(c) \in Nat
  BY NodeFacts, DrainedType DEF BallInv, Track, EndInv
<1>2. acks[c] \in Nat /\ send_cq[c] \in Nat
  BY <1>1 DEF Base, TypeOK
<1>3. /\ pc[c] \in Over => pc'[c] \in Over
      /\ pc[Server] = "failed" => pc'[Server] = "failed"
  BY <1>1, OverStays DEF Over
<1>4. ASSUME acks'[c] = acks[c], send_cq'[c] = send_cq[c], Drained(c)' = Drained(c),
             Answered(c)' = Answered(c), Going(c)' = Going(c),
             <<c, c>> \in broken' => <<c, c>> \in broken
      PROVE  ClientCompletions(c)'
  <2>1. Bit(Answered(c) = NumTests /\ ~ Going(c))' = Bit(Answered(c) = NumTests /\ ~ Going(c))
    BY <1>4 DEF Bit
  <2> HIDE DEF Drained, Answered, Going, Bit
  <2> QED  BY <1>1, <1>3, <1>4, <2>1 DEF ClientCompletions
<1>5. ASSUME NEW x \in Nodes, Program(x) \/ CallFails(x), x # c PROVE ClientCompletions(c)'
  <2>1. /\ pc'[c] = pc[c] /\ cnt'[c] = cnt[c] /\ acks'[c] = acks[c] /\ send_cq'[c] = send_cq[c]
        /\ pp_cnt'[c][c] = pp_cnt[c][c] /\ out'[c][c] = out[c][c] /\ broken' = broken
    BY <1>1, <1>5, OthersKept
  <2>2. Drained(c)' = Drained(c)
    BY <2>1 DEF Drained, Count, Links
  <2> QED  BY <1>4, <2>1, <2>2 DEF Answered, Going
<1>6. ASSUME CloseCtx(c) \/ CallFails(c) PROVE ClientCompletions(c)'
  <2>1. pc'[c] \in Over /\ broken' = broken
    BY <1>1, <1>6 DEF CloseCtx, CallFails, Leave, Over, Base, TypeOK
  <2> QED  BY <1>1, <1>3, <2>1 DEF ClientCompletions
<1>7. ASSUME Reply(c) PROVE ClientCompletions(c)'
  <2>1. /\ Answered(c) < NumTests /\ ~ Going(c) /\ Answered(c)' = Answered(c) + 1
        /\ \/ Going(c)' /\ send_cq' = send_cq
           \/ <<c, c>> \in broken
    BY <1>7, ClientReplies
  <2>2. acks' = acks /\ broken' = broken
    BY <1>7 DEF Reply
  <2>3. Drained(c)' = 0 /\ Drained(c) = 0
    BY <1>1, <1>7, MovesOnly DEF Reply, Drained, After
  <2>4. CASE <<c, c>> \in broken
    BY <1>1, <1>3, <2>2, <2>4 DEF ClientCompletions
  <2>5. CASE <<c, c>> \notin broken
    <3>1. Bit(Answered(c) = NumTests /\ ~ Going(c))' = 0
      BY <2>1, <2>5 DEF Bit
    <3>2. Bit(Answered(c) = NumTests /\ ~ Going(c)) = 0
      <4>1. Answered(c) # NumTests
        BY <1>1, <2>1, Numbers, NodeFacts
      <4> QED  BY <4>1 DEF Bit
    <3>3. pc[c] = "reply"
      BY <1>1, <1>7, MovesOnly DEF Reply
    <3> HIDE DEF Drained, Answered, Going, Bit
    <3> QED  BY <1>1, <1>3, <2>1, <2>2, <2>3, <2>5, <3>1, <3>2, <3>3
             DEF ClientCompletions, Over
  <2> QED  BY <2>4, <2>5
<1>8. ASSUME Drain(c) PROVE ClientCompletions(c)'
  <2>1. /\ UNCHANGED <<acks, out, pp_cnt, broken>>
        /\ send_cq[c] > 0 /\ send_cq'[c] = send_cq[c] - 1 /\ Drained(c)' = Drained(c) + 1
    BY <1>1, <1>8, DrainCompletions
  <2>2. Bit(Answered(c) = NumTests /\ ~ Going(c))' = Bit(Answered(c) = NumTests /\ ~ Going(c))
    BY <2>1 DEF Answered, Going, Bit
  <2> HIDE DEF Drained, Answered, Going, Bit
  <2> QED  BY <1>1, <1>2, <1>3, <2>1, <2>2 DEF ClientCompletions
<1>9. ASSUME Program(c), ~ (CloseCtx(c) \/ Reply(c) \/ Drain(c)) PROVE ClientCompletions(c)'
  <2>1. UNCHANGED <<acks, send_cq, out, pp_cnt, broken>> /\ Drained(c)' = Drained(c)
    BY <1>1, <1>9, QuietCompletions
  <2> QED  BY <1>4, <2>1 DEF Answered, Going
<1>10. ASSUME NEW x \in Nodes, Acknowledge(x) PROVE ClientCompletions(c)'
  <2>1. UNCHANGED <<pc, cnt, pp_cnt, out, broken>>
    BY <1>10 DEF Acknowledge, proc
  <2>2. Drained(c)' = Drained(c)
    BY <2>1 DEF Drained, Count, Links
  <2>3. CASE x = c
    <3>1. acks[c] > 0 /\ acks'[c] = acks[c] - 1 /\ send_cq'[c] = send_cq[c] + 1
      BY <1>1, <1>10, <2>3 DEF Acknowledge, Base, TypeOK
    <3>2. Bit(Answered(c) = NumTests /\ ~ Going(c))' = Bit(Answered(c) = NumTests /\ ~ Going(c))
      BY <2>1 DEF Answered, Going, Bit
    <3> HIDE DEF Drained, Answered, Going, Bit
    <3> QED  BY <1>1, <1>2, <1>3, <2>1, <2>2, <3>1, <3>2 DEF ClientCompletions
  <2>4. CASE x # c
    <3>1. acks'[c] = acks[c] /\ send_cq'[c] = send_cq[c]
      BY <1>1, <1>10, <2>4 DEF Acknowledge, Base, TypeOK
    <3> QED  BY <1>4, <2>1, <2>2, <3>1 DEF Answered, Going
  <2> QED  BY <2>3, <2>4
<1>11. ASSUME NEW x \in Nodes, NEW j \in Links(x), Deliver(x, j) PROVE ClientCompletions(c)'
  <2>1. UNCHANGED <<pc, cnt, pp_cnt, send_cq, broken>>
    BY <1>11 DEF Deliver, proc
  <2>2. Drained(c)' = Drained(c) /\ Answered(c)' = Answered(c)
    BY <2>1 DEF Drained, Count, Links, Answered
  <2>3. CASE x # c
    <3>1. acks'[c] = acks[c] /\ out'[c][c] = out[c][c]
      <4>1. acks'[c] = acks[c]
        BY <1>1, <1>11, <2>3 DEF Deliver, Base, TypeOK
      <4> QED  BY <1>1, <1>11, <2>3, <4>1, DeliverEffect DEF Updated, Only
    <3> QED  BY <1>4, <2>1, <2>2, <3>1 DEF Going
  <2>4. CASE x = c
    <3>1. j = c
      BY <1>1, <2>4
    <3>2. Base' /\ Answers
      BY <1>1, <1>11, AdapterTypes DEF BallInv
    <3>3. /\ Going(c) /\ ~ Going(c)'
          /\ acks' = [acks EXCEPT ![c] = IF Answered(c) = NumTests THEN @ + 1 ELSE @]
      BY <1>1, <1>11, <2>4, <3>1, <3>2, ServerGets
    <3>4. acks'[c] = acks[c] + Bit(Answered(c) = NumTests)
      BY <1>1, <1>2, <3>3 DEF Bit, Base, TypeOK
    <3>5. /\ Bit(Answered(c) = NumTests /\ ~ Going(c)) = 0
          /\ Bit(Answered(c) = NumTests /\ ~ Going(c))' = Bit(Answered(c) = NumTests)
      BY <2>2, <3>3 DEF Bit
    <3>6. Bit(Answered(c) = NumTests) \in Nat
      BY DEF Bit
    <3> HIDE DEF Drained, Answered, Going, Bit
    <3> QED  BY <1>1, <1>2, <1>3, <2>1, <2>2, <3>4, <3>5, <3>6 DEF ClientCompletions
  <2> QED  BY <2>3, <2>4
<1>12. ASSUME NEW x \in Nodes, NEW j \in Links(x), GiveUp(x, j) PROVE ClientCompletions(c)'
  <2>1. UNCHANGED <<pc, cnt, pp_cnt, acks>> /\ broken' = broken \cup {<<x, j>>}
    BY <1>12 DEF GiveUp, proc
  <2>2. Drained(c)' = Drained(c) /\ Answered(c)' = Answered(c)
    BY <2>1 DEF Drained, Count, Links, Answered
  <2>3. CASE x # c
    <3>1. send_cq'[c] = send_cq[c] /\ out'[c][c] = out[c][c]
      <4>1. send_cq'[c] = send_cq[c]
        BY <1>1, <1>12, <2>3 DEF GiveUp, Base, TypeOK
      <4> QED  BY <1>1, <1>12, <2>3, <4>1, GiveUpEffect DEF Updated, Only
    <3> QED  BY <1>4, <2>1, <2>2, <2>3, <3>1 DEF Going
  <2>4. CASE x = c
    <3>1. j = c /\ Far(c, c) = Server
      BY <1>1, <2>4, NodeFacts
    <3>2. out[c][c] # <<>> /\ <<Server, c>> \notin conn
      BY <1>12, <2>4, <3>1 DEF GiveUp
    <3>3. Answered(c) > 0 /\ Sent(c) = Answered(c)
      BY <1>1, <3>2 DEF Ball, Back, Going
    <3>4. pc[Server] \notin Setup
      BY <1>1, <3>3, Numbers DEF Ball, Unserved
    <3>5. pc[Server] \in Over
      BY <1>1, <3>2, <3>4 DEF Turn
    <3>6. pc[Server] # "ok"
      BY <1>1, <3>2 DEF EndInv, Ending, Finished
    <3>7. pc'[Server] = "failed"
      BY <2>1, <3>5, <3>6 DEF Over
    <3> QED  BY <3>7 DEF ClientCompletions
  <2> QED  BY <2>3, <2>4
<1>13. CASE UNCHANGED vars
  <2>1. UNCHANGED <<pc, cnt, pp_cnt, acks, send_cq, out, broken>>
    BY <1>13 DEF vars, proc, link, queues
  <2>2. Drained(c)' = Drained(c)
    BY <2>1 DEF Drained, Count, Links
  <2> QED  BY <1>4, <2>1, <2>2 DEF Answered, Going
<1> QED  BY <1>5, <1>6, <1>7, <1>8, <1>9, <1>10, <1>11, <1>12, <1>13 DEF Next, Done

\* A step that sends nothing for the last time and delivers nothing keeps Reached.
LEMMA ReachedSame ==
  ASSUME \A c \in Clients : Sent(c)' = Sent(c), \A c \in Clients : Coming(c)' <=> Coming(c)
  PROVE  Reached' = Reached
BY DEF Reached

LEMMA ReachedSends ==
  ASSUME NEW j \in Clients, Sent(j) < NumTests, Sent(j) \in Nat, Coming(j)',
         \A c \in Clients : c # j => Sent(c)' = Sent(c) /\ (Coming(c)' <=> Coming(c))
  PROVE  Reached' = Reached
<1>1. j \notin Reached /\ j \notin Reached'
  BY NodeFacts DEF Reached
<1>2. \A c \in Clients : c # j => (c \in Reached' <=> c \in Reached)
  BY DEF Reached
<1>3. Reached \subseteq Clients /\ Reached' \subseteq Clients
  BY DEF Reached
<1> QED  BY <1>1, <1>2, <1>3

LEMMA ServerCompletionsStep ==
  ASSUME BallInv, Track, EndInv, [Next]_vars
  PROVE  ServerCompletions'
<1>1. Base /\ Server \in Nodes /\ Links(Server) = Clients /\ ServerCompletions
      /\ Draining(Server) /\ Drained(Server) \in Nat /\ Posted
  BY NodeFacts, DrainedType DEF BallInv, Track, EndInv
<1>2. acks[Server] \in Nat /\ send_cq[Server] \in Nat
  BY <1>1 DEF Base, TypeOK
<1>3. IsFiniteSet(Reached) /\ Cardinality(Reached) \in Nat
  <2>1. IsFiniteSet(Clients)
    BY FS_Interval, NodeFacts DEF Clients
  <2>2. Reached \in SUBSET Clients
    BY DEF Reached
  <2> QED  BY <2>1, <2>2, FS_Subset, FS_CardinalityType
<1>4. /\ pc[Server] \in Over => pc'[Server] \in Over
      /\ \A j \in Clients : <<Server, j>> \in broken => <<Server, j>> \in broken'
  <2> DEFINE Grown == \A b \in broken : b \in broken'
  <2>1. ASSUME NEW x \in Nodes, Program(x) \/ CallFails(x) PROVE Grown
    <3>1. 0 \in Clients
      BY NodeFacts DEF Clients
    <3>2. PICK y \in Nodes : y # x
      BY <3>1, NodeFacts
    <3> QED  BY <1>1, <2>1, <3>2, OthersKept
  <2>2. ASSUME NEW x \in Nodes,
               Acknowledge(x) \/ (\E j \in Links(x) : Deliver(x, j) \/ GiveUp(x, j))
        PROVE  Grown
    BY <2>2 DEF Acknowledge, Deliver, GiveUp
  <2>3. ASSUME UNCHANGED vars PROVE Grown
    BY <2>3 DEF vars, link
  <2> HIDE DEF Grown
  <2>4. Grown
    BY <2>1, <2>2, <2>3 DEF Next, Done
  <2> QED  BY <1>1, <2>4, OverStays DEF Grown
<1> DEFINE Alive == pc[Server] \notin Over /\ \A j \in Clients : <<Server, j>> \notin broken
<1>5. SUFFICES ASSUME Alive, Alive'
               PROVE  acks'[Server] + send_cq'[Server] + Drained(Server)' = Cardinality(Reached')
  BY <1>4 DEF ServerCompletions
<1>6. acks[Server] + send_cq[Server] + Drained(Server) = Cardinality(Reached)
  BY <1>1, <1>5 DEF ServerCompletions
<1>7. ASSUME acks'[Server] = acks[Server], send_cq'[Server] = send_cq[Server],
             Drained(Server)' = Drained(Server), Reached' = Reached
      PROVE  acks'[Server] + send_cq'[Server] + Drained(Server)' = Cardinality(Reached')
  BY <1>6, <1>7
<1>8. ASSUME UNCHANGED <<pp_cnt, out>> PROVE Reached' = Reached
  BY <1>8, ReachedSame DEF Sent, Coming
<1>9. ASSUME NEW x \in Nodes, Program(x) \/ CallFails(x), x # Server
      PROVE  acks'[Server] + send_cq'[Server] + Drained(Server)' = Cardinality(Reached')
  <2>1. /\ pc'[Server] = pc[Server] /\ cnt'[Server] = cnt[Server]
        /\ acks'[Server] = acks[Server] /\ send_cq'[Server] = send_cq[Server]
        /\ \A q \in Clients : pp_cnt'[Server][q] = pp_cnt[Server][q]
                              /\ out'[Server][q] = out[Server][q]
    BY <1>1, <1>9, OthersKept
  <2>2. Drained(Server)' = Drained(Server)
    BY <2>1 DEF Drained, Count, Links
  <2>3. Reached' = Reached
    BY <2>1, ReachedSame, ComingSame DEF Sent
  <2> QED  BY <1>7, <2>1, <2>2, <2>3
<1>10. ~ CloseCtx(Server) /\ ~ CallFails(Server)
  BY <1>1, <1>5 DEF CloseCtx, CallFails, Leave, Over, Base, TypeOK
<1>11. CASE Serve
  <2>1. PICK j \in Clients : j = i /\ PostSend(Server, j)
    BY <1>1, <1>11 DEF Base, TypeOK, Serve
  <2>2. pc[Server] = "serve" /\ pc'[Server] \notin After /\ acks' = acks /\ Base'
    BY <1>1, <1>11, MovesOnly, LoopStart, LoopTypes DEF Serve, After
  <2>3. Sent(j) = 0 /\ ~ Coming(j)
    <3>1. Ball(j) /\ Answered(j) \in Nat
      BY <1>1, Numbers DEF BallInv
    <3>2. Unserved(j)
      BY <2>1, <2>2, NodeFacts DEF Unserved
    <3> QED  BY <3>1, <3>2 DEF Ball, Forth
  <2>4. /\ Coming(j)' /\ send_cq' = send_cq
        /\ \A c \in Clients : c # j => Sent(c)' = Sent(c) /\ (Coming(c)' <=> Coming(c))
    <3>1. Sent(j) < NumTests
      BY <2>3, NodeFacts
    <3>2. \/ Coming(j)' /\ send_cq' = send_cq
          \/ \E q \in Clients : <<Server, q>> \in broken
      BY <1>1, <2>1, <2>2, <2>3, <3>1, ServerSends
    <3>3. \A c \in Clients : c # j => Sent(c)' = Sent(c) /\ (Coming(c)' <=> Coming(c))
      BY <1>1, <2>1, <2>2, <2>3, <3>1, ServerSends
    <3> QED  BY <1>5, <3>2, <3>3
  <2>5. Reached' = Reached
    BY <2>3, <2>4, ReachedSends, NodeFacts
  <2>6. Drained(Server)' = Drained(Server)
    BY <2>2 DEF Drained, After
  <2> QED  BY <1>7, <2>2, <2>4, <2>5, <2>6
<1>12. CASE Reply(Server)
  <2>1. PICK c \in Clients :
           /\ \/ /\ Sent(c) < NumTests
                 /\ (Coming(c)' /\ send_cq' = send_cq) \/ \E q \in Clients : <<Server, q>> \in broken
              \/ UNCHANGED <<pp_cnt, out, send_cq>>
           /\ \A d \in Clients : d # c => Sent(d)' = Sent(d) /\ (Coming(d)' <=> Coming(d))
    BY <1>12, ServerReplies
  <2>2. Reached' = Reached /\ send_cq' = send_cq
    <3>1. CASE UNCHANGED <<pp_cnt, out, send_cq>>
      BY <1>8, <3>1
    <3>2. CASE Sent(c) < NumTests /\ Coming(c)' /\ send_cq' = send_cq
      BY <1>1, <2>1, <3>2, ReachedSends, Numbers
    <3> QED  BY <1>5, <2>1, <3>1, <3>2
  <2>3. acks' = acks
    BY <1>12 DEF Reply
  <2>4. Drained(Server)' = Drained(Server)
    BY <1>1, <1>12, MovesOnly DEF Reply, Drained, After
  <2> QED  BY <1>7, <2>2, <2>3, <2>4
<1>13. CASE Drain(Server)
  <2>1. /\ UNCHANGED <<acks, out, pp_cnt, broken>>
        /\ send_cq[Server] > 0 /\ send_cq'[Server] = send_cq[Server] - 1
        /\ Drained(Server)' = Drained(Server) + 1
    BY <1>1, <1>13, DrainCompletions
  <2>2. Reached' = Reached
    BY <1>8, <2>1
  <2> HIDE DEF Drained, Reached
  <2> QED  BY <1>1, <1>2, <1>6, <2>1, <2>2
<1>14. CASE Program(Server) /\ ~ (Serve \/ Reply(Server) \/ Drain(Server))
  <2>1. UNCHANGED <<acks, send_cq, out, pp_cnt, broken>> /\ Drained(Server)' = Drained(Server)
    BY <1>1, <1>10, <1>14, QuietCompletions
  <2> QED  BY <1>7, <1>8, <2>1
<1>15. ASSUME NEW x \in Nodes, Acknowledge(x)
       PROVE  acks'[Server] + send_cq'[Server] + Drained(Server)' = Cardinality(Reached')
  <2>1. UNCHANGED <<pc, cnt, pp_cnt, out, broken>>
    BY <1>15 DEF Acknowledge, proc
  <2>2. Drained(Server)' = Drained(Server) /\ Reached' = Reached
    BY <1>8, <2>1 DEF Drained, Count, Links
  <2>3. CASE x = Server
    <3>1. /\ acks[Server] > 0 /\ acks'[Server] = acks[Server] - 1
          /\ send_cq'[Server] = send_cq[Server] + 1
      BY <1>1, <1>15, <2>3 DEF Acknowledge, Base, TypeOK
    <3> HIDE DEF Drained, Reached
    <3> QED  BY <1>1, <1>2, <1>6, <2>2, <3>1
  <2>4. CASE x # Server
    <3>1. acks'[Server] = acks[Server] /\ send_cq'[Server] = send_cq[Server]
      BY <1>1, <1>15, <2>4 DEF Acknowledge, Base, TypeOK
    <3> QED  BY <1>7, <2>2, <3>1
  <2> QED  BY <2>3, <2>4
<1>16. ASSUME NEW x \in Nodes, NEW j \in Links(x), Deliver(x, j)
       PROVE  acks'[Server] + send_cq'[Server] + Drained(Server)' = Cardinality(Reached')
  <2>1. UNCHANGED <<pc, cnt, pp_cnt, send_cq>> /\ Base'
    BY <1>1, <1>16, AdapterTypes DEF Deliver, proc
  <2>2. Drained(Server)' = Drained(Server) /\ \A c \in Clients : Sent(c)' = Sent(c)
    BY <2>1 DEF Drained, Count, Links, Sent
  <2>3. CASE x = Server
    <3>1. PICK y : y = Head(out[Server][j]).to
      OBVIOUS
    <3>2. /\ y \in Clients /\ Coming(y) /\ ~ Coming(y)'
          /\ \A c \in Clients : c # y => (Coming(c)' <=> Coming(c))
          /\ acks' = [acks EXCEPT ![Server] = IF Sent(y) = NumTests THEN @ + 1 ELSE @]
      BY <1>1, <1>16, <2>1, <2>3, <3>1, ClientGets
    <3>3. acks'[Server] = IF Sent(y) = NumTests THEN acks[Server] + 1 ELSE acks[Server]
      BY <1>1, <3>2 DEF Base, TypeOK
    <3>4. y \notin Reached
      BY <3>2 DEF Reached
    <3>5. CASE Sent(y) = NumTests
      <4>1. Reached' = Reached \cup {y}
        <5> HIDE DEF Coming, Sent
        <5> QED  BY <2>2, <3>2, <3>5 DEF Reached
      <4>2. Cardinality(Reached') = Cardinality(Reached) + 1
        BY <1>3, <3>4, <4>1, FS_AddElement
      <4> HIDE DEF Drained, Reached
      <4> QED  BY <1>1, <1>2, <1>3, <1>6, <2>1, <2>2, <3>3, <3>5, <4>2
    <3>6. CASE Sent(y) # NumTests
      <4>1. Reached' = Reached
        <5> HIDE DEF Coming, Sent
        <5> QED  BY <2>2, <3>2, <3>6 DEF Reached
      <4> QED  BY <1>7, <2>1, <2>2, <3>3, <3>6, <4>1
    <3> QED  BY <3>5, <3>6
  <2>4. CASE x # Server
    <3>1. acks'[Server] = acks[Server]
      BY <1>1, <1>16, <2>4 DEF Deliver, Base, TypeOK
    <3>2. \A q \in Clients : out'[Server][q] = out[Server][q]
      BY <1>1, <1>16, <2>4, DeliverEffect DEF Updated, Only
    <3>3. Reached' = Reached
      BY <2>2, <3>2, ReachedSame, ComingSame
    <3> QED  BY <1>7, <2>1, <2>2, <3>1, <3>3
  <2> QED  BY <2>3, <2>4
<1>17. ASSUME NEW x \in Nodes, NEW j \in Links(x), GiveUp(x, j)
       PROVE  acks'[Server] + send_cq'[Server] + Drained(Server)' = Cardinality(Reached')
  <2>1. UNCHANGED <<pc, cnt, pp_cnt, acks>> /\ broken' = broken \cup {<<x, j>>}
    BY <1>17 DEF GiveUp, proc
  <2>2. x # Server
    BY <1>1, <1>5, <2>1
  <2>3. Drained(Server)' = Drained(Server) /\ \A c \in Clients : Sent(c)' = Sent(c)
    BY <2>1 DEF Drained, Count, Links, Sent
  <2>4. send_cq'[Server] = send_cq[Server]
    BY <1>1, <1>17, <2>2 DEF GiveUp, Base, TypeOK
  <2>5. \A q \in Clients : out'[Server][q] = out[Server][q]
    BY <1>1, <1>17, <2>2, GiveUpEffect DEF Updated, Only
  <2>6. Reached' = Reached
    BY <2>3, <2>5, ReachedSame, ComingSame
  <2> QED  BY <1>7, <2>1, <2>3, <2>4, <2>6
<1>18. CASE UNCHANGED vars
  <2>1. UNCHANGED <<pc, cnt, pp_cnt, acks, send_cq, out>>
    BY <1>18 DEF vars, proc, link, queues
  <2>2. Drained(Server)' = Drained(Server)
    BY <2>1 DEF Drained, Count, Links
  <2> QED  BY <1>7, <1>8, <2>1, <2>2
<1> QED  BY <1>9, <1>10, <1>11, <1>12, <1>13, <1>14, <1>15, <1>16, <1>17, <1>18
         DEF Next, Done, Program

LEMMA EndInit == Init => EndInv
<1> SUFFICES ASSUME Init PROVE EndInv
  OBVIOUS
<1>1. /\ \A x \in Nodes : pc[x] = "start" /\ acks[x] = 0 /\ send_cq[x] = 0
      /\ \A x \in Nodes : \A j \in Links(x) : out[x][j] = <<>> /\ pp_cnt[x][j] = 0
                                              /\ tcp[x][j] = <<>>
      /\ broken = {}
  BY DEF Init, Of
<1>2. \A c \in Clients : Sent(c) = 0 /\ Answered(c) = 0 /\ c \in Nodes /\ ~ HasEnd(tcp[c][c])
                         /\ ~ HasEnd(tcp[Server][c])
  BY <1>1, NodeFacts DEF Sent, Answered, HasEnd
<1>3. \A x \in Nodes : Drained(x) = 0
  BY <1>1 DEF Drained, After
<1>4. \A c \in Clients : ClientCompletions(c)
  BY <1>1, <1>2, <1>3, NodeFacts DEF ClientCompletions, Bit
<1>5. ServerCompletions
  <2>1. Reached = {}
    BY <1>2, NodeFacts DEF Reached
  <2> QED  BY <1>1, <1>3, <2>1, FS_EmptySet, NodeFacts DEF ServerCompletions
<1>6. Ending
  BY <1>1, <1>2, NodeFacts DEF Ending, Told, Finished
<1> QED  BY <1>4, <1>5, <1>6 DEF EndInv

LEMMA EndHolds == Spec => [](BallInv /\ EndInv)
<1> DEFINE I == BallInv /\ Track /\ LossInv /\ EndInv
<1>1. Init => I
  BY BallInit, TrackInit, LossInit, EndInit
<1>2. I /\ [Next]_vars => I'
  BY BallStep, TrackStep, LossStep, EndingStep, ClientCompletionsStep, ServerCompletionsStep
     DEF EndInv
<1>3. I => BallInv /\ EndInv
  OBVIOUS
<1> HIDE DEF I
<1> QED  BY <1>1, <1>2, <1>3, PTL DEF Spec

\* Nobody closes while a message or an acknowledgement still needs one of its
\* queue pairs, whoever it is for.
THEOREM NothingLostHolds == Spec => []NothingLost
<1>1. ASSUME EndInv, NEW x \in Nodes, pc[x] = "ok"
      PROVE  \A y \in Nodes : acks[y] = 0 /\ \A j \in Links(y) : out[y][j] = <<>>
  <2>1. Finished
    BY <1>1, NodeFacts DEF Finished
  <2> QED  BY <1>1, <2>1 DEF EndInv, Ending
<1>2. EndInv => NothingLost
  BY <1>1 DEF NothingLost
<1> QED  BY <1>2, EndHolds, PTL

\* Who prints "success" speaks for all: every client has had all its messages,
\* and has had them answered.
THEOREM SuccessIsSharedHolds == Spec => []SuccessIsShared
<1>1. ASSUME BallInv, EndInv, NEW x \in Nodes, pc[x] = "ok", NEW c \in Clients
      PROVE  pp_cnt[Server][c] = NumTests /\ pp_cnt[c][c] = NumTests
  <2>1. Finished
    BY <1>1, NodeFacts DEF Finished
  <2>2. \A d \in Clients : Answered(d) = NumTests
    BY <1>1, <2>1 DEF EndInv, Ending, Settled
  <2>3. Sent(c) = NumTests
    BY <1>1, <2>2, AllAnswered
  <2> QED  BY <2>2, <2>3 DEF Sent, Answered
<1>2. BallInv /\ EndInv => SuccessIsShared
  BY <1>1 DEF SuccessIsShared
<1> QED  BY <1>2, EndHolds, PTL

=============================================================================
