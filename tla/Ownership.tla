------------------------------ MODULE Ownership ------------------------------
(***************************************************************************)
(* All programs of RDMA that set up and release their objects in functions  *)
(* of their own, one at a time: the five of PpContext and rdma1.cpp.        *)
(***************************************************************************)
EXTENDS PpContext

CONSTANT Listens   \* TRUE in the process of rdma1 started without <host>

VARIABLES handle,  \* objects the structure res of rdma1 refers to
          failed,  \* objects whose release was tried in vain
          rc       \* its exit status

ownVars == <<ctxVars, handle, failed, rc>>

Rdma1 == INSTANCE RcResources WITH pc <- func

ASSUME OwnershipAssumption ==
  Listens \in BOOLEAN /\ ReleaseFails \subseteq Rdma1!Objects

IsRdma1 == prog = "rdma1"

OwnInit ==
  \/ CtxInit /\ handle = {} /\ failed = {} /\ rc = 1
  \/ prog = "rdma1" /\ opts = {} /\ Rdma1!Init

OwnNext ==
  \/ ~IsRdma1 /\ CtxNext /\ UNCHANGED <<handle, failed, rc>>
  \/ IsRdma1 /\ Rdma1!Next /\ UNCHANGED <<prog, opts>>

OwnSpec == OwnInit /\ [][OwnNext]_ownVars

-----------------------------------------------------------------------------
\* Whatever call fails and whatever cannot be released, nothing is released
\* twice or before it exists, and nothing before what is built on it, unless
\* that could not be released.
ReleasedInOrder == IF IsRdma1 THEN Rdma1!ReleasedInOrder ELSE InOrder

\* A program that ends after a failure, or without one, leaves nothing behind
\* that it could have released, and reports what it could not.
NothingLeft == IF IsRdma1 THEN Rdma1!NothingLeft ELSE NothingOwned
=============================================================================
