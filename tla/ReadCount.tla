----------------------------- MODULE ReadCount -----------------------------
(***************************************************************************)
(* What the read benchmark of Libfabric/test2.c promises to whoever times  *)
(* it: each thread reads Count times, one read after the other, and counts *)
(* a read only after its data have arrived.                                *)
(***************************************************************************)
EXTENDS Naturals

CONSTANTS Threads, Count

VARIABLES asked,    \* asked[t]: reads thread t has asked for
          arrived,  \* arrived[t]: those whose data have arrived
          counted   \* counted[t]: iterations of its loop that are complete

vars == <<asked, arrived, counted>>

Zero == [t \in Threads |-> 0]

Init == asked = Zero /\ arrived = Zero /\ counted = Zero

Ask(t) == /\ asked[t] = counted[t]
          /\ asked[t] < Count
          /\ asked' = [asked EXCEPT ![t] = @ + 1]
          /\ UNCHANGED <<arrived, counted>>

Arrive(t) == /\ arrived[t] < asked[t]
             /\ arrived' = [arrived EXCEPT ![t] = @ + 1]
             /\ UNCHANGED <<asked, counted>>

Tally(t) == /\ counted[t] < arrived[t]
            /\ counted' = [counted EXCEPT ![t] = @ + 1]
            /\ UNCHANGED <<asked, arrived>>

Next == \E t \in Threads : Ask(t) \/ Arrive(t) \/ Tally(t)

Spec == Init /\ [][Next]_vars
=============================================================================
