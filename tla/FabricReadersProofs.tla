------------------------ MODULE FabricReadersProofs ------------------------
(***************************************************************************)
(* Theorems about FabricReaders, for any set of threads, any number of     *)
(* reads, any size of the transmit queue and any set of faults.            *)
(***************************************************************************)
EXTENDS FabricReaders, TLAPS

\* The completion thread has a completion between fi_cq_sread and unlock only.
OneCompletion == /\ cpc \in {"got", "lock", "set", "signal", "unlock"} => comp \in Threads
                 /\ cpc \in {"test", "sread", "again", "failed"} => comp = None

Shutdown == /\ main \in {"joincq", "closed"} => ~ run
            /\ main = "closed" => cpc = "done"

\* The lock is held exactly where the two programs hold it.
LockHeld(t) ==
  /\ owner[t] = "reader" <=> rpc[t] \in {"check", "sleep", "reset", "unlock"}
  /\ owner[t] = "cq" <=> comp = t /\ cpc \in {"set", "signal", "unlock"}

InLoop(t) == rpc[t] \in {"read", "lock", "check", "sleep", "wait", "reset", "unlock"}

\* Where the read of t is, if it has one.
OneRead(t) ==
  flight[t] + cq[t] + err[t] + Bit(Held(t)) + Bit(ready[t]) = Bit(Awaiting(t))

\* Every read that has arrived is counted or about to be.
Accounted(t) ==
  arrived[t] = i[t] + cq[t] + Bit(Held(t)) + Bit(ready[t]) + Bit(rpc[t] = "unlock")

ThreadInv(t) ==
  /\ LockHeld(t)
  /\ rpc[t] = "reset" => ready[t]
  /\ rpc[t] = "sleep" => ~ ready[t]
  /\ rpc[t] = "new" => i[t] = 0
  /\ InLoop(t) => i[t] < Count
  /\ OneRead(t)
  /\ Accounted(t)
  /\ rpc[t] = "wait" /\ ready[t] => comp = t /\ cpc = "signal"
  /\ ~ run => rpc[t] = "done"

\* The inductive invariant.
ReadersInv == TypeOK /\ OneCompletion /\ Shutdown /\ \A t \in Threads : ThreadInv(t)

-----------------------------------------------------------------------------
LEMMA InitInv == Init => ReadersInv
BY FabricAssumption
   DEF Init, ReadersInv, TypeOK, OneCompletion, Shutdown, ThreadInv, LockHeld, InLoop,
       OneRead, Accounted, Held, Awaiting, Bit, Zero, ReaderPcs, CqPcs

\* client_thread, and the spurious wake-ups.
LEMMA ReaderStep ==
  ASSUME ReadersInv, NEW t \in Threads, Reader(t) \/ SpuriousWake(t)
  PROVE  ReadersInv'
<1> USE FabricAssumption
    DEF ReadersInv, TypeOK, OneCompletion, Shutdown, ThreadInv, LockHeld, InLoop,
        OneRead, Accounted, Held, Awaiting, Bit, ReaderPcs, CqPcs, fabric
<1>1. CASE Post(t)
  <2>1. TypeOK' /\ OneCompletion' /\ Shutdown'
    BY <1>1 DEF Post
  <2>2. ASSUME NEW u \in Threads, u # t  PROVE ThreadInv(u)'
    BY <1>1, <2>2 DEF Post
  <2>3. ThreadInv(t)'
    BY <1>1 DEF Post
  <2> QED  BY <2>1, <2>2, <2>3
<1>2. CASE PostFails(t)
  <2>1. TypeOK' /\ OneCompletion' /\ Shutdown'
    BY <1>2 DEF PostFails
  <2>2. ASSUME NEW u \in Threads, u # t  PROVE ThreadInv(u)'
    BY <1>2, <2>2 DEF PostFails
  <2>3. ThreadInv(t)'
    BY <1>2 DEF PostFails
  <2> QED  BY <2>1, <2>2, <2>3
<1>3. CASE Lock(t)
  <2>1. TypeOK' /\ OneCompletion' /\ Shutdown'
    BY <1>3 DEF Lock
  <2>2. ASSUME NEW u \in Threads, u # t  PROVE ThreadInv(u)'
    BY <1>3, <2>2 DEF Lock
  <2>3. ThreadInv(t)'
    BY <1>3 DEF Lock
  <2> QED  BY <2>1, <2>2, <2>3
<1>4. CASE Check(t)
  <2>1. TypeOK' /\ OneCompletion' /\ Shutdown'
    BY <1>4 DEF Check
  <2>2. ASSUME NEW u \in Threads, u # t  PROVE ThreadInv(u)'
    BY <1>4, <2>2 DEF Check
  <2>3. ThreadInv(t)'
    BY <1>4 DEF Check
  <2> QED  BY <2>1, <2>2, <2>3
<1>5. CASE Sleep(t)
  <2>1. TypeOK' /\ OneCompletion' /\ Shutdown'
    BY <1>5 DEF Sleep
  <2>2. ASSUME NEW u \in Threads, u # t  PROVE ThreadInv(u)'
    BY <1>5, <2>2 DEF Sleep
  <2>3. ThreadInv(t)'
    BY <1>5 DEF Sleep
  <2> QED  BY <2>1, <2>2, <2>3
<1>6. CASE Reset(t)
  <2>1. TypeOK' /\ OneCompletion' /\ Shutdown'
    BY <1>6 DEF Reset
  <2>2. ASSUME NEW u \in Threads, u # t  PROVE ThreadInv(u)'
    BY <1>6, <2>2 DEF Reset
  <2>3. ThreadInv(t)'
    <3>1. /\ ready[t] = TRUE /\ ready'[t] = FALSE
          /\ rpc[t] = "reset" /\ rpc'[t] = "unlock"
      BY <1>6 DEF Reset
    <3>2. /\ flight' = flight /\ cq' = cq /\ err' = err /\ arrived' = arrived
          /\ i' = i /\ comp' = comp /\ cpc' = cpc
      BY <1>6 DEF Reset
    <3>4. OneRead(t)'
      <4> DEFINE a == flight[t] + cq[t] + err[t] + Bit(Held(t))
      <4>1. a \in Nat
        OBVIOUS
      <4>2. a + 1 = 1
        BY <3>1
      <4>3. a = 0
        BY <4>1, <4>2
      <4>4. a' = a
        BY <3>2
      <4>5. a' + 0 = 0
        BY <4>3, <4>4
      <4> QED  BY <4>5, <3>1
    <3>5. Accounted(t)'
      BY <3>1, <3>2
    <3>3. LockHeld(t)'
      BY <1>6, <3>1 DEF Reset
    <3> QED  BY <1>6, <3>1, <3>3, <3>4, <3>5 DEF Reset
  <2> QED  BY <2>1, <2>2, <2>3
<1>7. CASE Unlock(t)
  <2>1. TypeOK' /\ OneCompletion' /\ Shutdown'
    BY <1>7 DEF Unlock, Loop
  <2>2. ASSUME NEW u \in Threads, u # t  PROVE ThreadInv(u)'
    BY <1>7, <2>2 DEF Unlock, Loop
  <2>3. ThreadInv(t)'
    BY <1>7 DEF Unlock, Loop
  <2> QED  BY <2>1, <2>2, <2>3
<1>8. CASE SpuriousWake(t)
  <2>1. TypeOK' /\ OneCompletion' /\ Shutdown'
    BY <1>8 DEF SpuriousWake
  <2>2. ASSUME NEW u \in Threads, u # t  PROVE ThreadInv(u)'
    BY <1>8, <2>2 DEF SpuriousWake
  <2>3. ThreadInv(t)'
    BY <1>8 DEF SpuriousWake
  <2> QED  BY <2>1, <2>2, <2>3
<1> QED  BY <1>1, <1>2, <1>3, <1>4, <1>5, <1>6, <1>7, <1>8 DEF Reader

\* cq_thread.
LEMMA CqStep ==
  ASSUME ReadersInv, CqThread
  PROVE  ReadersInv'
<1> USE FabricAssumption
    DEF ReadersInv, TypeOK, OneCompletion, Shutdown, ThreadInv, LockHeld, InLoop,
        OneRead, Accounted, Held, Awaiting, Bit, ReaderPcs, CqPcs, fabric
<1>1. CASE CqLoop
  <2>1. TypeOK' /\ OneCompletion' /\ Shutdown'
    BY <1>1 DEF CqLoop
  <2>2. ASSUME NEW u \in Threads  PROVE ThreadInv(u)'
    BY <1>1, <2>2 DEF CqLoop
  <2> HIDE DEF TypeOK, OneCompletion, Shutdown, ThreadInv
  <2> QED  BY <2>1, <2>2
<1>2. CASE CqRead
  BY <1>2 DEF CqRead
<1>3. CASE CqTimeout
  <2>1. TypeOK' /\ OneCompletion' /\ Shutdown'
    BY <1>3 DEF CqTimeout
  <2>2. ASSUME NEW u \in Threads  PROVE ThreadInv(u)'
    BY <1>3, <2>2 DEF CqTimeout
  <2> HIDE DEF TypeOK, OneCompletion, Shutdown, ThreadInv
  <2> QED  BY <2>1, <2>2
<1>4. CASE CqFails
  <2>1. TypeOK' /\ OneCompletion' /\ Shutdown'
    BY <1>4 DEF CqFails
  <2>2. ASSUME NEW u \in Threads  PROVE ThreadInv(u)'
    BY <1>4, <2>2 DEF CqFails
  <2> HIDE DEF TypeOK, OneCompletion, Shutdown, ThreadInv
  <2> QED  BY <2>1, <2>2
<1>5. CASE CqLook
  <2>1. TypeOK' /\ OneCompletion' /\ Shutdown'
    BY <1>5 DEF CqLook
  <2>2. ASSUME NEW u \in Threads  PROVE ThreadInv(u)'
    BY <1>5, <2>2 DEF CqLook
  <2> HIDE DEF TypeOK, OneCompletion, Shutdown, ThreadInv
  <2> QED  BY <2>1, <2>2
<1>6. CASE CqLock
  <2>1. TypeOK' /\ OneCompletion' /\ Shutdown'
    BY <1>6 DEF CqLock
  <2>2. ASSUME NEW u \in Threads, u # comp  PROVE ThreadInv(u)'
    BY <1>6, <2>2 DEF CqLock
  <2>3. ASSUME NEW u \in Threads, u = comp  PROVE ThreadInv(u)'
    BY <1>6, <2>3 DEF CqLock
  <2> HIDE DEF TypeOK, OneCompletion, Shutdown, ThreadInv
  <2> QED  BY <2>1, <2>2, <2>3
<1>7. CASE CqSet
  <2>1. TypeOK' /\ OneCompletion' /\ Shutdown'
    BY <1>7 DEF CqSet
  <2>2. ASSUME NEW u \in Threads, u # comp  PROVE ThreadInv(u)'
    BY <1>7, <2>2 DEF CqSet
  <2>3. ASSUME NEW u \in Threads, u = comp  PROVE ThreadInv(u)'
    BY <1>7, <2>3 DEF CqSet
  <2> HIDE DEF TypeOK, OneCompletion, Shutdown, ThreadInv
  <2> QED  BY <2>1, <2>2, <2>3
<1>8. CASE CqSignal
  <2>1. TypeOK' /\ OneCompletion' /\ Shutdown'
    BY <1>8 DEF CqSignal
  <2>2. ASSUME NEW u \in Threads, u # comp  PROVE ThreadInv(u)'
    BY <1>8, <2>2 DEF CqSignal
  <2>3. ASSUME NEW u \in Threads, u = comp  PROVE ThreadInv(u)'
    BY <1>8, <2>3 DEF CqSignal
  <2> HIDE DEF TypeOK, OneCompletion, Shutdown, ThreadInv
  <2> QED  BY <2>1, <2>2, <2>3
<1>9. CASE CqUnlock
  <2>1. TypeOK' /\ OneCompletion' /\ Shutdown'
    BY <1>9 DEF CqUnlock
  <2>2. ASSUME NEW u \in Threads, u # comp  PROVE ThreadInv(u)'
    BY <1>9, <2>2 DEF CqUnlock
  <2>3. ASSUME NEW u \in Threads, u = comp  PROVE ThreadInv(u)'
    BY <1>9, <2>3 DEF CqUnlock
  <2> HIDE DEF TypeOK, OneCompletion, Shutdown, ThreadInv
  <2> QED  BY <2>1, <2>2, <2>3
<1> QED  BY <1>1, <1>2, <1>3, <1>4, <1>5, <1>6, <1>7, <1>8, <1>9 DEF CqThread

\* The fabric and main.
LEMMA OtherStep ==
  ASSUME ReadersInv,
         Main \/ \E t \in Threads : Complete(t) \/ CompleteInError(t)
  PROVE  ReadersInv'
<1> USE FabricAssumption
    DEF ReadersInv, TypeOK, OneCompletion, Shutdown, ThreadInv, LockHeld, InLoop,
        OneRead, Accounted, Held, Awaiting, Bit, ReaderPcs, CqPcs, fabric, program
<1>1. ASSUME NEW t \in Threads, Complete(t)  PROVE ReadersInv'
  <2>1. TypeOK' /\ OneCompletion' /\ Shutdown'
    BY <1>1 DEF Complete
  <2>2. ASSUME NEW u \in Threads, u # t  PROVE ThreadInv(u)'
    BY <1>1, <2>2 DEF Complete
  <2>3. ThreadInv(t)'
    BY <1>1 DEF Complete
  <2> HIDE DEF TypeOK, OneCompletion, Shutdown, ThreadInv
  <2> QED  BY <2>1, <2>2, <2>3
<1>2. ASSUME NEW t \in Threads, CompleteInError(t)  PROVE ReadersInv'
  <2>1. TypeOK' /\ OneCompletion' /\ Shutdown'
    BY <1>2 DEF CompleteInError
  <2>2. ASSUME NEW u \in Threads, u # t  PROVE ThreadInv(u)'
    BY <1>2, <2>2 DEF CompleteInError
  <2>3. ThreadInv(t)'
    BY <1>2 DEF CompleteInError
  <2> HIDE DEF TypeOK, OneCompletion, Shutdown, ThreadInv
  <2> QED  BY <2>1, <2>2, <2>3
<1>3. ASSUME NEW t \in Threads, Create(t)  PROVE ReadersInv'
  <2>1. TypeOK' /\ OneCompletion' /\ Shutdown'
    BY <1>3 DEF Create, Loop
  <2>2. ASSUME NEW u \in Threads, u # t  PROVE ThreadInv(u)'
    BY <1>3, <2>2 DEF Create, Loop
  <2>3. ThreadInv(t)'
    BY <1>3 DEF Create, Loop
  <2> HIDE DEF TypeOK, OneCompletion, Shutdown, ThreadInv
  <2> QED  BY <2>1, <2>2, <2>3
<1>4. CASE CreateFails
  <2>1. TypeOK' /\ OneCompletion' /\ Shutdown'
    BY <1>4 DEF CreateFails
  <2>2. ASSUME NEW u \in Threads  PROVE ThreadInv(u)'
    BY <1>4, <2>2 DEF CreateFails
  <2> HIDE DEF TypeOK, OneCompletion, Shutdown, ThreadInv
  <2> QED  BY <2>1, <2>2
<1>5. CASE AllCreated
  <2>1. TypeOK' /\ OneCompletion' /\ Shutdown'
    BY <1>5 DEF AllCreated
  <2>2. ASSUME NEW u \in Threads  PROVE ThreadInv(u)'
    BY <1>5, <2>2 DEF AllCreated
  <2> HIDE DEF TypeOK, OneCompletion, Shutdown, ThreadInv
  <2> QED  BY <2>1, <2>2
<1>6. CASE JoinReaders
  <2>1. TypeOK' /\ OneCompletion' /\ Shutdown'
    BY <1>6 DEF JoinReaders
  <2>2. ASSUME NEW u \in Threads  PROVE ThreadInv(u)'
    BY <1>6, <2>2 DEF JoinReaders
  <2> HIDE DEF TypeOK, OneCompletion, Shutdown, ThreadInv
  <2> QED  BY <2>1, <2>2
<1>7. CASE JoinAndClose
  <2>1. TypeOK' /\ OneCompletion' /\ Shutdown'
    BY <1>7 DEF JoinAndClose
  <2>2. ASSUME NEW u \in Threads  PROVE ThreadInv(u)'
    BY <1>7, <2>2 DEF JoinAndClose
  <2> HIDE DEF TypeOK, OneCompletion, Shutdown, ThreadInv
  <2> QED  BY <2>1, <2>2
<1> QED  BY <1>1, <1>2, <1>3, <1>4, <1>5, <1>6, <1>7 DEF Main

LEMMA StepInv == ReadersInv /\ [Next]_vars => ReadersInv'
<1> SUFFICES ASSUME ReadersInv, [Next]_vars  PROVE ReadersInv'
  OBVIOUS
<1>1. ASSUME UNCHANGED vars  PROVE ReadersInv'
  BY <1>1 DEF vars, ReadersInv, TypeOK, OneCompletion, Shutdown, ThreadInv, LockHeld,
              InLoop, OneRead, Accounted, Held, Awaiting, Bit
<1> QED  BY <1>1, ReaderStep, CqStep, OtherStep DEF Next

LEMMA InvAlways == Spec => []ReadersInv
BY InitInv, StepInv, PTL DEF Spec

\* Every variable has its type, and no reader goes beyond count (test2.c:371).
THEOREM TypeCorrect == Spec => []TypeOK
<1>1. ReadersInv => TypeOK
  BY DEF ReadersInv
<1> QED  BY <1>1, InvAlways, PTL

\* A reader waits for the one read it has posted (test2.c:373-383).
THEOREM OneReadEachHolds == Spec => []OneReadEach
<1>1. ReadersInv => OneReadEach
  BY DEF ReadersInv, ThreadInv, OneRead, OneReadEach
<1> QED  BY <1>1, InvAlways, PTL

\* A completion handled before the reader waits is seen by it (test2.c:381),
\* one handled later wakes it (:278).
THEOREM WakeupsArrive == Spec => []NoLostWakeup
<1>1. ReadersInv => NoLostWakeup
  BY DEF ReadersInv, ThreadInv, NoLostWakeup
<1> QED  BY <1>1, InvAlways, PTL

\* run = 0 (test2.c:425) throws no completion away, and the objects closed
\* after it (:428) are in no use.
THEOREM QuietWhenStopped == Spec => []QuietAtStop
<1>1. ASSUME ReadersInv, ~ run, NEW t \in Threads
      PROVE  rpc[t] = "done" /\ flight[t] + cq[t] + Bit(Held(t)) = 0
  <2>1. rpc[t] = "done" /\ ~ Awaiting(t) /\ OneRead(t)
    BY <1>1 DEF ReadersInv, ThreadInv, Awaiting
  <2>2. /\ flight[t] \in Nat /\ cq[t] \in Nat /\ err[t] \in Nat
        /\ Bit(Held(t)) \in Nat /\ Bit(ready[t]) \in Nat
    BY <1>1 DEF ReadersInv, TypeOK, Bit
  <2>3. Bit(Awaiting(t)) = 0
    BY <2>1 DEF Bit
  <2>4. flight[t] + cq[t] + err[t] + Bit(Held(t)) + Bit(ready[t]) = 0
    BY <2>1, <2>3 DEF OneRead
  <2>5. PICK a, b, c, d, e \in Nat :
           /\ a = flight[t] /\ b = cq[t] /\ c = err[t]
           /\ d = Bit(Held(t)) /\ e = Bit(ready[t])
    BY <2>2
  <2>6. a + b + c + d + e = 0
    BY <2>4, <2>5
  <2>7. a + b + d = 0
    BY <2>6
  <2>8. flight[t] + cq[t] + Bit(Held(t)) = 0
    BY <2>5, <2>7
  <2> QED  BY <2>1, <2>8
<1>2. ReadersInv => QuietAtStop
  BY <1>1 DEF QuietAtStop, ReadersInv, Shutdown
<1> QED  BY <1>2, InvAlways, PTL

-----------------------------------------------------------------------------
(* Refinement.                                                             *)

\* A read is asked for, in the words of ReadCount, when its fi_read succeeds.
Asked(t) == i[t] + Bit(Awaiting(t) \/ rpc[t] = "unlock")

\* What a step of one thread must leave alone to be a stutter for the others.
Same(t) == Asked(t)' = Asked(t)

LEMMA InitRefines == Init => Abstract!Init
BY DEF Init, Abstract!Init, Abstract!Zero, Zero, Bit, Awaiting

LEMMA PostAsks ==
  ASSUME ReadersInv, NEW t \in Threads, Post(t)
  PROVE  Abstract!Ask(t)
<1>1. Asked(t) = i[t] /\ i[t] < Count /\ Asked(t)' = i[t] + 1
  BY DEF ReadersInv, TypeOK, ThreadInv, InLoop, Post, Bit, Awaiting, Asked
<1>2. ASSUME NEW u \in Threads, u # t  PROVE Same(u)
  BY <1>2 DEF ReadersInv, TypeOK, Post, Bit, Awaiting, Asked, Same
<1>3. i' = i /\ arrived' = arrived
  BY DEF Post
<1> QED
  BY <1>1, <1>2, <1>3 DEF Abstract!Ask, Asked, Same

LEMMA CompleteArrives ==
  ASSUME ReadersInv, NEW t \in Threads, Complete(t)
  PROVE  Abstract!Arrive(t)
<1>1. arrived[t] < Asked(t)
  BY DEF Complete, ReadersInv, TypeOK, ThreadInv, OneRead, Accounted, Held, Bit, Awaiting, Asked
<1> QED
  BY <1>1 DEF Complete, program, ReadersInv, TypeOK, Abstract!Arrive, Bit, Awaiting, Asked

LEMMA UnlockTallies ==
  ASSUME ReadersInv, NEW t \in Threads, Unlock(t)
  PROVE  Abstract!Tally(t)
<1>1. i[t] < arrived[t]
  BY DEF Unlock, ReadersInv, TypeOK, ThreadInv, OneRead, Accounted, Held, Bit, Awaiting
<1>2. ASSUME NEW u \in Threads  PROVE Same(u)
  BY DEF Unlock, ReadersInv, TypeOK, Loop, Bit, Awaiting, Asked, Same
<1> QED
  BY <1>1, <1>2 DEF Unlock, fabric, ReadersInv, TypeOK, Abstract!Tally, Asked, Same

LEMMA OthersStutter ==
  ASSUME ReadersInv,
         \/ UNCHANGED vars
         \/ Main \/ CqThread
         \/ \E t \in Threads : \/ PostFails(t) \/ Lock(t) \/ Check(t) \/ Sleep(t)
                               \/ Reset(t) \/ SpuriousWake(t) \/ CompleteInError(t)
  PROVE  UNCHANGED Abstract!vars
<1>1. i' = i /\ arrived' = arrived
  BY DEF vars, fabric, program, Main, Create, CreateFails, AllCreated, JoinReaders,
         JoinAndClose, CqThread, CqLoop, CqRead, CqTimeout, CqFails, CqLook, CqLock, CqSet,
         CqSignal, CqUnlock, PostFails, Lock, Check, Sleep, Reset, SpuriousWake,
         CompleteInError
<1>2. ASSUME NEW u \in Threads  PROVE Same(u)
  <2>1. \/ rpc' = rpc
        \/ \E t \in Threads : \/ Create(t) \/ PostFails(t) \/ Lock(t) \/ Check(t)
                              \/ Sleep(t) \/ Reset(t) \/ SpuriousWake(t)
        \/ CqSignal
    BY DEF vars, program, Main, CreateFails, AllCreated, JoinReaders,
           JoinAndClose, CqThread, CqLoop, CqRead, CqTimeout, CqFails, CqLook, CqLock, CqSet,
           CqUnlock, CompleteInError
  <2>2. (Awaiting(u) \/ rpc[u] = "unlock")' <=> (Awaiting(u) \/ rpc[u] = "unlock")
    BY <2>1 DEF ReadersInv, TypeOK, Awaiting, Create, Loop, PostFails, Lock, Check, Sleep, Reset,
                SpuriousWake, CqSignal
  <2> QED  BY <1>1, <2>2 DEF Same, Asked, Bit
<1> QED  BY <1>1, <1>2 DEF Abstract!vars, Same, Asked

\* The benchmark reads as ReadCount says: one read after the other in each
\* thread, and none counted before its data are there (test2.c:371-385).
THEOREM RefinesReadCount == Spec => ImplementsReadCount
<1>1. ASSUME ReadersInv, [Next]_vars  PROVE [Abstract!Next]_(Abstract!vars)
  BY <1>1, PostAsks, CompleteArrives, UnlockTallies, OthersStutter
     DEF Next, Reader, Abstract!Next
<1> QED
  BY <1>1, InitRefines, InvAlways, PTL DEF Spec, ImplementsReadCount, Abstract!Spec
=============================================================================
