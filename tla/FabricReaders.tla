--------------------------- MODULE FabricReaders ---------------------------
(***************************************************************************)
(* The client of Libfabric/test2.c once it is connected: `threads` readers *)
(* (client_thread) that each post `count` RDMA reads, one completion       *)
(* thread (cq_thread) that wakes the reader a completion belongs to, and   *)
(* main, which starts the readers, joins them, stops the completion thread *)
(* and closes the fabric objects.                                          *)
(*                                                                         *)
(* One action is the code between two points at which another thread can   *)
(* interfere: a call of the fabric, a lock, an access of `ready` or `run`. *)
(* The fabric (endpoint and completion queue) is not part of the           *)
(* repository; it is modelled from the calls: fi_read adds a read to the   *)
(* transmit queue or returns -FI_EAGAIN when that is full, a read          *)
(* completes or fails, fi_cq_sread returns a completion, -FI_EAGAIN after  *)
(* 1000 ms without one, or an error.  Completions of different threads     *)
(* have no order, so the queue is the number of completions of each.       *)
(***************************************************************************)
EXTENDS Naturals, FiniteSets, Functions

CONSTANTS Threads,   \* the readers, one struct ctx each
          Count,     \* ctx.count, the same for all
          TxDepth,   \* reads the transmit queue of the endpoint holds
          Faults,    \* what may fail, of FaultKinds
          None       \* no context

FaultKinds == {"create",  \* pthread_create of a reader
               "post",    \* fi_read, for another reason than a full queue
               "read",    \* a read completes in error
               "wait"}    \* fi_cq_sread returns an error of its own

ASSUME FabricAssumption == /\ IsFiniteSet(Threads)
                           /\ Count \in Nat
                           /\ TxDepth \in Nat
                           /\ Faults \subseteq FaultKinds
                           /\ None \notin Threads

VARIABLES
  main,    \* where client() is
  rpc,     \* rpc[t]: where client_thread of t is
  i,       \* i[t]: its loop counter
  ready,   \* ready[t]: ctx.ready
  owner,   \* owner[t]: who holds ctx.lock
  run,     \* the global flag
  cpc,     \* where cq_thread is
  comp,    \* comp.op_context, the context of the completion it has read
  flight,  \* flight[t]: reads of t in the transmit queue
  cq,      \* cq[t]: completions of t in the completion queue
  err,     \* err[t]: error entries of t; nothing calls fi_cq_readerr
  arrived  \* arrived[t]: reads of t the fabric has executed (history)

program == <<main, rpc, i, ready, owner, run, cpc, comp>>
fabric  == <<flight, cq, err, arrived>>
vars    == <<main, rpc, i, ready, owner, run, cpc, comp, flight, cq, err, arrived>>

Zero == [t \in Threads |-> 0]

\* client_init has succeeded: run is 1 and the completion thread started.
Init == /\ main = "create"
        /\ rpc = [t \in Threads |-> "new"]
        /\ i = Zero
        /\ ready = [t \in Threads |-> FALSE]
        /\ owner = [t \in Threads |-> "none"]
        /\ run = TRUE
        /\ cpc = "test"
        /\ comp = None
        /\ flight = Zero
        /\ cq = Zero
        /\ err = Zero
        /\ arrived = Zero

\* The process exists: when main returns early, its threads end with it.
Alive == main # "exited"

-----------------------------------------------------------------------------
(* client_thread.                                                          *)

\* The test of the for loop, with n iterations behind it.
Loop(n) == IF n < Count THEN "read" ELSE "done"

QueueFull == FoldFunction(+, 0, flight) >= TxDepth

\* fi_read succeeds.
Post(t) == /\ rpc[t] = "read"
           /\ ~ QueueFull
           /\ flight' = [flight EXCEPT ![t] = @ + 1]
           /\ rpc' = [rpc EXCEPT ![t] = "lock"]
           /\ UNCHANGED <<main, i, ready, owner, run, cpc, comp, cq, err, arrived>>

\* fi_read returns an error, -FI_EAGAIN included: the reader ends.
PostFails(t) == /\ rpc[t] = "read"
                /\ QueueFull \/ "post" \in Faults
                /\ rpc' = [rpc EXCEPT ![t] = "done"]
                /\ UNCHANGED <<main, i, ready, owner, run, cpc, comp, fabric>>

\* pthread_mutex_lock, and what pthread_cond_wait does when it is woken.
Lock(t) == /\ rpc[t] = "lock"
           /\ owner[t] = "none"
           /\ owner' = [owner EXCEPT ![t] = "reader"]
           /\ rpc' = [rpc EXCEPT ![t] = "check"]
           /\ UNCHANGED <<main, i, ready, run, cpc, comp, fabric>>

\* Mutant of Check: the reader does not wait.
CheckNothing(t) == /\ rpc[t] = "check"
                   /\ rpc' = [rpc EXCEPT ![t] = "reset"]
                   /\ UNCHANGED <<main, i, ready, owner, run, cpc, comp, fabric>>

\* while (!ctx->ready)
Check(t) == /\ rpc[t] = "check"
            /\ rpc' = [rpc EXCEPT ![t] = IF ready[t] THEN "reset" ELSE "sleep"]
            /\ UNCHANGED <<main, i, ready, owner, run, cpc, comp, fabric>>

\* pthread_cond_wait releases the lock and waits, at once.
Sleep(t) == /\ rpc[t] = "sleep"
            /\ rpc' = [rpc EXCEPT ![t] = "wait"]
            /\ owner' = [owner EXCEPT ![t] = "none"]
            /\ UNCHANGED <<main, i, ready, run, cpc, comp, fabric>>

\* Mutant of SpuriousWake: `if` instead of `while` around pthread_cond_wait.
SpuriousWakeIf(t) == /\ rpc[t] = "wait"
                     /\ rpc' = [rpc EXCEPT ![t] = "reset"]
                     /\ UNCHANGED <<main, i, ready, owner, run, cpc, comp, fabric>>

\* A wake-up without a signal, which POSIX allows.
SpuriousWake(t) == /\ rpc[t] = "wait"
                   /\ rpc' = [rpc EXCEPT ![t] = "lock"]
                   /\ UNCHANGED <<main, i, ready, owner, run, cpc, comp, fabric>>

Reset(t) == /\ rpc[t] = "reset"
            /\ ready' = [ready EXCEPT ![t] = FALSE]
            /\ rpc' = [rpc EXCEPT ![t] = "unlock"]
            /\ UNCHANGED <<main, i, owner, run, cpc, comp, fabric>>

\* pthread_mutex_unlock and i++.
Unlock(t) == /\ rpc[t] = "unlock"
             /\ owner' = [owner EXCEPT ![t] = "none"]
             /\ i' = [i EXCEPT ![t] = @ + 1]
             /\ rpc' = [rpc EXCEPT ![t] = Loop(i[t] + 1)]
             /\ UNCHANGED <<main, ready, run, cpc, comp, fabric>>

Reader(t) == /\ Alive
             /\ \/ Post(t) \/ PostFails(t) \/ Lock(t) \/ Check(t)
                \/ Sleep(t) \/ Reset(t) \/ Unlock(t)

-----------------------------------------------------------------------------
(* cq_thread.                                                              *)

\* while (run)
CqLoop == /\ cpc = "test"
          /\ cpc' = IF run THEN "sread" ELSE "done"
          /\ UNCHANGED <<main, rpc, i, ready, owner, run, comp, fabric>>

\* fi_cq_sread returns a completion.
CqRead == /\ cpc = "sread"
          /\ \E t \in Threads :
                /\ cq[t] > 0
                /\ cq' = [cq EXCEPT ![t] = @ - 1]
                /\ comp' = t
          /\ cpc' = "got"
          /\ UNCHANGED <<main, rpc, i, ready, owner, run, flight, err, arrived>>

CqTimeout == /\ cpc = "sread"
             /\ \A t \in Threads : cq[t] = 0 /\ err[t] = 0
             /\ cpc' = "again"
             /\ UNCHANGED <<main, rpc, i, ready, owner, run, comp, fabric>>

\* fi_cq_sread returns -FI_EAVAIL, because of a failed read, or another error.
CqFails == /\ cpc = "sread"
           /\ "wait" \in Faults \/ \E t \in Threads : err[t] > 0
           /\ cpc' = "failed"
           /\ UNCHANGED <<main, rpc, i, ready, owner, run, comp, fabric>>

\* if (!run) break, and what follows from the result of fi_cq_sread.
CqLook == /\ cpc \in {"got", "again", "failed"}
          /\ cpc' = CASE ~ run \/ cpc = "failed" -> "done"
                      [] run /\ cpc = "again"    -> "test"
                      [] run /\ cpc = "got"      -> "lock"
          /\ UNCHANGED <<main, rpc, i, ready, owner, run, comp, fabric>>

CqLock == /\ cpc = "lock"
          /\ owner[comp] = "none"
          /\ owner' = [owner EXCEPT ![comp] = "cq"]
          /\ cpc' = "set"
          /\ UNCHANGED <<main, rpc, i, ready, run, comp, fabric>>

CqSet == /\ cpc = "set"
         /\ ready' = [ready EXCEPT ![comp] = TRUE]
         /\ cpc' = "signal"
         /\ UNCHANGED <<main, rpc, i, owner, run, comp, fabric>>

\* pthread_cond_signal wakes the reader if it waits, and is lost otherwise.
CqSignal == /\ cpc = "signal"
            /\ rpc' = [rpc EXCEPT ![comp] = IF @ = "wait" THEN "lock" ELSE @]
            /\ cpc' = "unlock"
            /\ UNCHANGED <<main, i, ready, owner, run, comp, fabric>>

CqUnlock == /\ cpc = "unlock"
            /\ owner' = [owner EXCEPT ![comp] = "none"]
            /\ cpc' = "test"
            /\ comp' = None
            /\ UNCHANGED <<main, rpc, i, ready, run, fabric>>

CqThread == /\ Alive
            /\ \/ CqLoop \/ CqRead \/ CqTimeout \/ CqFails \/ CqLook
               \/ CqLock \/ CqSet \/ CqSignal \/ CqUnlock

-----------------------------------------------------------------------------
(* The fabric.                                                             *)

Complete(t) == /\ flight[t] > 0
               /\ flight' = [flight EXCEPT ![t] = @ - 1]
               /\ cq' = [cq EXCEPT ![t] = @ + 1]
               /\ arrived' = [arrived EXCEPT ![t] = @ + 1]
               /\ UNCHANGED <<program, err>>

CompleteInError(t) == /\ "read" \in Faults
                      /\ flight[t] > 0
                      /\ flight' = [flight EXCEPT ![t] = @ - 1]
                      /\ err' = [err EXCEPT ![t] = @ + 1]
                      /\ UNCHANGED <<program, cq, arrived>>

-----------------------------------------------------------------------------
(* client().                                                               *)

Create(t) == /\ main = "create"
             /\ rpc[t] = "new"
             /\ rpc' = [rpc EXCEPT ![t] = Loop(0)]
             /\ UNCHANGED <<main, i, ready, owner, run, cpc, comp, fabric>>

\* pthread_create fails: client() and main return, whatever else is running.
CreateFails == /\ main = "create"
               /\ "create" \in Faults
               /\ \E t \in Threads : rpc[t] = "new"
               /\ main' = "exited"
               /\ UNCHANGED <<rpc, i, ready, owner, run, cpc, comp, fabric>>

AllCreated == /\ main = "create"
              /\ \A t \in Threads : rpc[t] # "new"
              /\ main' = "join"
              /\ UNCHANGED <<rpc, i, ready, owner, run, cpc, comp, fabric>>

\* Mutant of JoinReaders: only one reader is joined.
JoinOneReader == /\ main = "join"
                 /\ \E t \in Threads : rpc[t] = "done"
                 /\ run' = FALSE
                 /\ main' = "joincq"
                 /\ UNCHANGED <<rpc, i, ready, owner, cpc, comp, fabric>>

\* Mutant of JoinReaders: run is not cleared.
JoinReadersOnly == /\ main = "join"
                   /\ \A t \in Threads : rpc[t] = "done"
                   /\ main' = "joincq"
                   /\ UNCHANGED <<rpc, i, ready, owner, run, cpc, comp, fabric>>

\* The loop of pthread_join, then run = 0.
JoinReaders == /\ main = "join"
               /\ \A t \in Threads : rpc[t] = "done"
               /\ run' = FALSE
               /\ main' = "joincq"
               /\ UNCHANGED <<rpc, i, ready, owner, cpc, comp, fabric>>

\* pthread_join of the completion thread, fi_shutdown and the fi_closes.
JoinAndClose == /\ main = "joincq"
                /\ cpc = "done"
                /\ main' = "closed"
                /\ UNCHANGED <<rpc, i, ready, owner, run, cpc, comp, fabric>>

Main == \/ \E t \in Threads : Create(t)
        \/ CreateFails \/ AllCreated \/ JoinReaders \/ JoinAndClose

-----------------------------------------------------------------------------
Next == \/ Main
        \/ CqThread
        \/ \E t \in Threads : \/ Reader(t)
                              \/ Alive /\ SpuriousWake(t)
                              \/ Alive /\ (Complete(t) \/ CompleteInError(t))

\* The threads are scheduled, the 1000 ms of fi_cq_sread pass, and the fabric
\* works on the reads it has accepted.  The completion thread gets a lock that
\* is free again and again, even if the reader takes it for one spurious
\* wake-up after the other.
Fairness == /\ WF_vars(Main)
            /\ WF_vars(CqThread)
            /\ \A t \in Threads : /\ WF_vars(Reader(t))
                                  /\ WF_vars(Alive /\ (Complete(t) \/ CompleteInError(t)))
            /\ SF_vars(Alive /\ CqLock)

Spec == Init /\ [][Next]_vars /\ Fairness

-----------------------------------------------------------------------------
(* Properties.                                                             *)

ReaderPcs == {"new", "read", "lock", "check", "sleep", "wait", "reset",
              "unlock", "done"}
CqPcs == {"test", "sread", "got", "again", "failed",
          "lock", "set", "signal", "unlock", "done"}

\* Every variable has its type.
TypeOK == /\ main \in {"create", "join", "joincq", "closed", "exited"}
          /\ rpc \in [Threads -> ReaderPcs]
          /\ i \in [Threads -> 0..Count]
          /\ ready \in [Threads -> BOOLEAN]
          /\ owner \in [Threads -> {"none", "reader", "cq"}]
          /\ run \in BOOLEAN
          /\ cpc \in CqPcs
          /\ comp \in Threads \cup {None}
          /\ flight \in [Threads -> Nat]
          /\ cq \in [Threads -> Nat]
          /\ err \in [Threads -> Nat]
          /\ arrived \in [Threads -> Nat]

\* A reader with a read to wait for: it has posted and not yet reset ready.
Awaiting(t) == rpc[t] \in {"lock", "check", "sleep", "wait", "reset"}

\* The completion thread has taken a completion of t and not yet set ready.
Held(t) == comp = t /\ cpc \in {"got", "lock", "set", "done"}

Bit(b) == IF b THEN 1 ELSE 0

\* A reader waits for exactly one read: the one it has posted is in the
\* fabric, in the completion queue, in the hands of the completion thread,
\* reported by ready, or failed; and a reader that does not wait has none.  A
\* wake-up is thus never taken for that of another read, and the lines between
\* fi_read (test2.c:373) and ready = 0 (:383) need no other protection.
OneReadEach ==
  \A t \in Threads :
     flight[t] + cq[t] + err[t] + Bit(Held(t)) + Bit(ready[t]) = Bit(Awaiting(t))

\* No wake-up is lost: when ready is set while the reader waits on its
\* condition (test2.c:382), the completion thread is about to signal it (:278).
NoLostWakeup ==
  \A t \in Threads :
     rpc[t] = "wait" /\ ready[t] => comp = t /\ cpc = "signal"

\* Once main has cleared run (test2.c:425), whatever has failed: every reader has
\* ended, no read is under way, no completion is in the queue and none is thrown
\* away by the `if (!run) break` that follows fi_cq_sread (:264).  Endpoint, memory
\* and queue are closed (:428) only when the completion thread has ended as well.
QuietAtStop ==
  /\ ~ run => \A t \in Threads : /\ rpc[t] = "done"
                                  /\ flight[t] + cq[t] + Bit(Held(t)) = 0
  /\ main = "closed" => ~ run /\ cpc = "done"

Abstract == INSTANCE ReadCount
              WITH asked   <- [t \in Threads |-> i[t] + Bit(Awaiting(t) \/ rpc[t] = "unlock")],
                   arrived <- arrived,
                   counted <- i

\* Each thread reads sequentially, and counts a read after its data arrived.
ImplementsReadCount == Abstract!Spec

Ended == main \in {"closed", "exited"}

\* The benchmark ends: no reader waits for ever for its condition, one that finds
\* the transmit queue full (test2.c:375) leaves and keeps nobody waiting, and the
\* completion thread sees run = 0.  The only way not to end is that the completion
\* thread has left its loop after an error (:271) while readers still wait.
EndsOrDeaf == \/ <>Ended
              \/ <>[](cpc = "done" /\ run /\ \E t \in Threads : Awaiting(t))
=============================================================================
