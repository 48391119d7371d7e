----------------------------- MODULE RcResources -----------------------------
(***************************************************************************)
(* The objects one process of RDMA/rdma1.cpp owns: resources_create takes  *)
(* them one by one and releases what it has when a call fails;             *)
(* resources_destroy, called by main in every case, releases the rest.     *)
(* Module RcPair has these functions as single steps.                      *)
(***************************************************************************)
EXTENDS Naturals, Sequences, FiniteSets

CONSTANTS Listens,      \* TRUE in the process started without <host>
          ReleaseFails  \* objects whose release may fail in this model

Objects == {"listener", "sock", "dev_list", "ib_ctx", "pd", "cq", "buf", "mr", "qp"}

VARIABLES
  pc,      \* the part of main that runs
  at,      \* how far it is
  live,    \* objects that exist
  handle,  \* objects res (or dev_list) refers to
  failed,  \* objects whose release was tried in vain
  rc       \* main's rc

vars == <<pc, at, live, handle, failed, rc>>

\* What an object is built on, and must not outlive.
Needs == [o \in Objects |->
            CASE o = "pd" -> {"ib_ctx"}
              [] o = "cq" -> {"ib_ctx"}
              [] o = "mr" -> {"pd", "buf"}
              [] o = "qp" -> {"pd", "cq"}
              [] OTHER    -> {}]

\* The calls of resources_create and what each obtains.
Calls == <<"listen", "accept", "get_device_list", "find_device", "open_device",
           "free_device_list", "query_port", "alloc_pd", "create_cq", "malloc",
           "reg_mr", "create_qp">>

Obtains(c) == CASE c = "listen"          -> IF Listens THEN {"listener"} ELSE {}
                [] c = "accept"          -> {"sock"}
                [] c = "get_device_list" -> {"dev_list"}
                [] c = "open_device"     -> {"ib_ctx"}
                [] c = "alloc_pd"        -> {"pd"}
                [] c = "create_cq"       -> {"cq"}
                [] c = "malloc"          -> {"buf"}
                [] c = "reg_mr"          -> {"mr"}
                [] c = "create_qp"       -> {"qp"}
                [] OTHER                 -> {}

\* resources_destroy, and the cleanup of resources_create, go backwards.
DestroyOrder == <<"qp", "mr", "buf", "cq", "pd", "ib_ctx", "sock">>
CleanupOrder == <<"qp", "mr", "buf", "cq", "pd", "ib_ctx", "dev_list", "sock">>

Order == IF pc = "cleanup" THEN CleanupOrder ELSE DestroyOrder

Init == /\ pc = "create"
        /\ at = 1
        /\ live = {}
        /\ handle = {}
        /\ failed = {}
        /\ rc = 1

\* The next call of resources_create succeeds.  Nothing keeps the descriptor
\* of the listening socket.
Create ==
  LET c == Calls[at] IN
  /\ pc = "create"
  /\ IF c = "free_device_list"
       THEN live' = live \ {"dev_list"} /\ handle' = handle \ {"dev_list"}
       ELSE /\ live' = live \cup Obtains(c)
            /\ handle' = handle \cup (Obtains(c) \ {"listener"})
  /\ IF at = Len(Calls) THEN pc' = "use" /\ at' = 1
                        ELSE at' = at + 1 /\ UNCHANGED pc
  /\ UNCHANGED <<failed, rc>>

\* It fails: sock_connect ends the process, the others clean up.
CreateFails ==
  /\ pc = "create"
  /\ Calls[at] # "free_device_list"
  /\ pc' = IF Calls[at] \in {"listen", "accept"} THEN "exit" ELSE "cleanup"
  /\ at' = 1
  /\ UNCHANGED <<live, handle, failed, rc>>

\* connect_qp and the rest of main, up to main_exit.
Use == /\ pc = "use"
       /\ pc' = "destroy"
       /\ rc' \in {0, 1}
       /\ UNCHANGED <<at, live, handle, failed>>

InUse(o) == \E u \in live : o \in Needs[u]

\* The adapter keeps an object that is in use; free() asks nobody.
MustFail(o) == InUse(o) /\ o # "buf"
MayFail(o)  == MustFail(o) \/ o \in ReleaseFails

\* Only the cleanup resets the pointers it has used.
Forget(o) == handle' = IF pc = "cleanup" THEN handle \ {o} ELSE handle

\* Mutant: resources_destroy does not report what it could not release.
IgnoreFailure(ok) == rc' = rc

\* Only resources_destroy tells main that a release failed.
Account(ok) == rc' = IF pc = "destroy" /\ ~ok THEN 1 ELSE rc

\* One `if (res->o) release(o)`.
Release ==
  \E ok \in BOOLEAN :
    LET o == Order[at] IN
    /\ pc \in {"cleanup", "destroy"}
    /\ o \in handle
    /\ ok => ~MustFail(o)
    /\ ~ok => MayFail(o)
    /\ live' = IF ok THEN live \ {o} ELSE live
    /\ failed' = IF ok THEN failed ELSE failed \cup {o}
    /\ Forget(o)
    /\ Account(ok)

Skip == /\ pc \in {"cleanup", "destroy"}
        /\ Order[at] \notin handle
        /\ UNCHANGED <<live, handle, failed, rc>>

ReleaseNext ==
  /\ Release \/ Skip
  /\ IF at < Len(Order) THEN at' = at + 1 /\ UNCHANGED pc
     ELSE at' = 1 /\ pc' = IF pc = "cleanup" THEN "destroy" ELSE "end"

Returned == pc \in {"end", "exit"} /\ UNCHANGED vars

Next == Create \/ CreateFails \/ Use \/ ReleaseNext \/ Returned

-----------------------------------------------------------------------------
\* Nothing is released twice, and an object before what it is built on -- above
\* all the memory registration before the memory -- unless its own release
\* failed, which it does only for a reason outside the program.
ReleasedInOrder ==
  /\ pc \in {"create", "use"} => handle \subseteq live
  /\ pc \in {"cleanup", "destroy"} =>
       \A i \in at..Len(Order) : Order[i] \in handle => Order[i] \in live
  /\ \A o \in live \ failed : Needs[o] \subseteq live
  /\ \A o \in failed \ ReleaseFails : \E u \in failed : o \in Needs[u]

\* Whatever call failed, main returns with everything released that can be --
\* only the listening socket is left to the end of the process -- and "test
\* result is 0" is printed only if every release succeeded.
NothingLeft == pc = "end" => /\ live \subseteq failed \cup {"listener"}
                             /\ rc = 0 => failed = {}
=============================================================================
