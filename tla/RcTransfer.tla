----------------------------- MODULE RcTransfer -----------------------------
(***************************************************************************)
(* What RDMA/rdma1.cpp promises to somebody who only reads what the two    *)
(* programs print: the client learns the message the server sent, then     *)
(* the contents of the server's buffer, and the server learns what the     *)
(* client wrote into that buffer -- never another text, never in another   *)
(* order -- and "test result is 0" is printed only after all of it.        *)
(* Either side may give up at any moment.                                  *)
(***************************************************************************)
EXTENDS Naturals, Sequences

CONSTANTS Server, Client     \* the process without and with a <host> argument

VARIABLES out,      \* out[p]: the buffer contents p has printed, in order
          result    \* result[p]: "running", or how the test ended at p

vars == <<out, result>>

Peers == {Server, Client}

\* Everything p is to print before it may report success.
Goal(p) == IF p = Client THEN <<"MSG", "RDMAMSGR">> ELSE <<"RDMAMSGW">>

TypeOK == /\ out \in [Peers -> Seq({"MSG", "RDMAMSGR", "RDMAMSGW"})]
          /\ result \in [Peers -> {"running", "ok", "failed"}]

Init == /\ out = [p \in Peers |-> <<>>]
        /\ result = [p \in Peers |-> "running"]

\* p prints the next text of its goal; the server only once the client has
\* printed both of its own.
Learn(p) ==
  /\ result[p] = "running"
  /\ Len(out[p]) < Len(Goal(p))
  /\ p = Server => out[Client] = Goal(Client)
  /\ out' = [out EXCEPT ![p] = Append(@, Goal(p)[Len(@) + 1])]
  /\ UNCHANGED result

Succeed(p) == /\ result[p] = "running"
              /\ out[p] = Goal(p)
              /\ result' = [result EXCEPT ![p] = "ok"]
              /\ UNCHANGED out

GiveUp(p) == /\ result[p] = "running"
             /\ result' = [result EXCEPT ![p] = "failed"]
             /\ UNCHANGED out

Next == \E p \in Peers : Learn(p) \/ Succeed(p) \/ GiveUp(p)

Spec == Init /\ [][Next]_vars
=============================================================================
