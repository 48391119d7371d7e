-------------------------------- MODULE Rally --------------------------------
(***************************************************************************)
(* What the ping-pong programs of RDMA/examples promise to a user who reads *)
(* "<iters> iters in ... seconds": the client serves, every message answers *)
(* the last one of the other side, and a side that ends without an error    *)
(* has sent and got Iters messages.                                         *)
(***************************************************************************)
EXTENDS Naturals

CONSTANT Iters

VARIABLES sent,   \* messages a side has handed over to its adapter
          got,    \* messages its adapter has received
          ended   \* the sides that have printed their result

vars == <<sent, got, ended>>

Sides == {"client", "server"}
Opponent(p) == IF p = "client" THEN "server" ELSE "client"

Init == /\ sent = [p \in Sides |-> 0]
        /\ got = [p \in Sides |-> 0]
        /\ ended = {}

\* Messages of the other side that are not answered yet; the service is the
\* answer to none.
Unanswered(p) == IF p = "client" THEN got[p] = sent[p] ELSE got[p] = sent[p] + 1

Send(p) == /\ sent[p] < Iters
           /\ Unanswered(p)
           /\ sent' = [sent EXCEPT ![p] = @ + 1]
           /\ UNCHANGED <<got, ended>>

Receive(p) == /\ got[p] < sent[Opponent(p)]
              /\ got' = [got EXCEPT ![p] = @ + 1]
              /\ UNCHANGED <<sent, ended>>

End(p) == /\ sent[p] = Iters /\ got[p] = Iters
          /\ ended' = ended \cup {p}
          /\ UNCHANGED <<sent, got>>

Next == \E p \in Sides : Send(p) \/ Receive(p) \/ End(p)

Spec == Init /\ [][Next]_vars
=============================================================================
