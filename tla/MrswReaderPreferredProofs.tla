--------------------- MODULE MrswReaderPreferredProofs ---------------------
(***************************************************************************)
(* The reader preferred lock excludes, counts and refines ReadersWriters   *)
(* for any finite set of threads.                                          *)
(***************************************************************************)
EXTENDS MrswReaderPreferred, FiniteSetTheorems, TLAPS

\* The places between taking and giving back the readers' mutex.
MutexPlaces == {"r_count", "r_global", "r_unlock", "p_count", "p_global", "p_unlock"}

\* The places of a thread on whose behalf the readers hold the semaphore.
HoldPlaces == {"r_unlock", "reading", "p_mutex", "p_count", "p_global"}

MutexHeld ==
    /\ \A t \in Threads : pc[t] \in MutexPlaces => lock_readers = t
    /\ lock_readers # None => pc[lock_readers] \in MutexPlaces

\* The semaphore is with the readers together, with one writer, or free.
SemaphoreHeld ==
    /\ lock_global = 1 => \A t \in Threads : pc[t] \notin HoldPlaces \cup {"writing"}
    /\ \A w, t \in Threads :
        pc[w] = "writing" => pc[t] \notin HoldPlaces /\ (pc[t] = "writing" => t = w)

\* The first reader waits for the semaphore alone; the last one gives it back
\* when no reader is left.
FirstAndLast ==
    /\ \A t \in Threads : pc[t] = "r_global" => Counted = {t}
    /\ \A t \in Threads : pc[t] = "p_global" => Counted = {}

\* The inductive invariant.
MrswInv ==
    /\ TypeOK
    /\ CountExact
    /\ MutexHeld
    /\ SemaphoreHeld
    /\ FirstAndLast

USE DEF MutexPlaces, HoldPlaces

\* The counted threads are finitely many.
LEMMA CountedFinite == IsFiniteSet(Counted) /\ Counted \subseteq Threads
  BY ThreadsAssumption, FS_Subset DEF Counted

\* The start state satisfies the invariant.
LEMMA MrswInit == Init => MrswInv
  <1> SUFFICES ASSUME Init PROVE MrswInv
      OBVIOUS
  <1>1. TypeOK
      BY ThreadsAssumption DEF Init, TypeOK, Locations
  <1>2. Counted = {}
      BY DEF Init, Counted
  <1>3. CountExact
      BY <1>2, FS_EmptySet DEF Init, CountExact
  <1>4. MutexHeld /\ SemaphoreHeld /\ FirstAndLast
      BY DEF Init, MutexHeld, SemaphoreHeld, FirstAndLast
  <1> QED
      BY <1>1, <1>3, <1>4 DEF MrswInv

\* mrsw_lock_reader_get: the increment.
LEMMA GetCountStep ==
    ASSUME MrswInv, NEW t \in Threads, ReaderGetCount(t)
    PROVE  MrswInv'
  <1> USE ThreadsAssumption DEF MrswInv, TypeOK, ReaderGetCount, Goto
  <1>1. Counted' = Counted \cup {t} /\ t \notin Counted
      BY DEF Counted, Locations
  <1>2. CountExact'
      BY <1>1, CountedFinite, FS_AddElement DEF CountExact
  <1>3. Cardinality(Counted) = 0 <=> Counted = {}
      BY CountedFinite, FS_EmptySet
  <1>4. TypeOK'
      BY DEF Locations
  <1>5. MutexHeld'
      BY DEF MutexHeld
  <1>6. CASE num_readers_active = 0
    <2>1. Counted' = {t} /\ pc'[t] = "r_global"
        BY <1>1, <1>3, <1>6 DEF CountExact
    <2>2. FirstAndLast'
        BY <2>1 DEF FirstAndLast, MutexHeld
    <2>3. SemaphoreHeld'
        BY <2>1 DEF SemaphoreHeld
    <2> QED
        BY <1>2, <1>4, <1>5, <2>2, <2>3
  <1>7. CASE num_readers_active # 0
    <2>1. pc'[t] = "r_unlock"
        BY <1>7
    <2>2. PICK u \in Threads : u \in Counted
        BY <1>3, <1>7, CountedFinite DEF CountExact
    <2>3. pc[u] \in HoldPlaces
        BY <2>2 DEF Counted, MutexHeld
    <2>4. SemaphoreHeld'
        BY <2>1, <2>3 DEF SemaphoreHeld
    <2>5. FirstAndLast'
        BY <2>1 DEF FirstAndLast, MutexHeld
    <2> QED
        BY <1>2, <1>4, <1>5, <2>4, <2>5
  <1> QED
      BY <1>6, <1>7

\* mrsw_lock_reader_put: the decrement.
LEMMA PutCountStep ==
    ASSUME MrswInv, NEW t \in Threads, ReaderPutCount(t)
    PROVE  MrswInv'
  <1> USE ThreadsAssumption DEF MrswInv, TypeOK, ReaderPutCount, Goto
  <1>1. Counted' = Counted \ {t} /\ t \in Counted
      BY DEF Counted, Locations
  <1>2. Cardinality(Counted') = Cardinality(Counted) - 1
        /\ Cardinality(Counted') \in Nat
        /\ (Cardinality(Counted') = 0 <=> Counted' = {})
      BY <1>1, CountedFinite, FS_RemoveElement, FS_CardinalityType, FS_EmptySet
  <1>3. CountExact' /\ num_readers_active' \in Nat
      BY <1>2 DEF CountExact
  <1>4. TypeOK'
      BY <1>3 DEF Locations
  <1>5. MutexHeld'
      BY DEF MutexHeld
  <1>6. SemaphoreHeld'
      BY DEF SemaphoreHeld
  <1>7. FirstAndLast'
      BY <1>2, <1>3 DEF FirstAndLast, MutexHeld, CountExact
  <1> QED
      BY <1>3, <1>4, <1>5, <1>6, <1>7

\* The steps of the kernel objects: nobody's being counted changes.
LEMMA QuietStep ==
    ASSUME MrswInv, NEW t \in Threads,
           \/ ReaderGet(t) \/ ReaderGetTimeout(t) \/ ReaderGetMutex(t)
           \/ ReaderGetGlobal(t) \/ ReaderGetUnlock(t)
           \/ ReaderPut(t) \/ ReaderPutMutex(t) \/ ReaderPutGlobal(t)
           \/ ReaderPutUnlock(t)
           \/ WriterGet(t) \/ WriterGetTimeout(t) \/ WriterGetGlobal(t)
           \/ WriterPut(t)
    PROVE  MrswInv'
  <1> USE ThreadsAssumption DEF MrswInv, TypeOK, Goto
  <1>1. CASE \/ ReaderGet(t) \/ ReaderGetTimeout(t)
             \/ WriterGet(t) \/ WriterGetTimeout(t)
    <2> USE <1>1 DEF ReaderGet, ReaderGetTimeout, WriterGet, WriterGetTimeout
    <2>1. Counted' = Counted
        BY DEF Counted, Locations
    <2>2. TypeOK'
        BY DEF Locations
    <2>3. MutexHeld'
        BY DEF MutexHeld
    <2>4. SemaphoreHeld'
        BY DEF SemaphoreHeld
    <2> QED
        BY <2>1, <2>2, <2>3, <2>4 DEF CountExact, FirstAndLast
  <1>2. CASE ReaderGetMutex(t) \/ ReaderPutMutex(t)
    <2> USE <1>2 DEF ReaderGetMutex, ReaderPutMutex
    <2>1. Counted' = Counted
        BY DEF Counted, Locations
    <2>2. TypeOK'
        BY DEF Locations
    <2>3. MutexHeld'
        BY DEF MutexHeld
    <2>4. SemaphoreHeld'
        BY DEF SemaphoreHeld
    <2> QED
        BY <2>1, <2>2, <2>3, <2>4 DEF CountExact, FirstAndLast
  <1>3. CASE ReaderGetUnlock(t) \/ ReaderPut(t) \/ ReaderPutUnlock(t)
    <2> USE <1>3 DEF ReaderGetUnlock, ReaderPut, ReaderPutUnlock
    <2>1. Counted' = Counted
        BY DEF Counted, Locations
    <2>2. TypeOK'
        BY DEF Locations
    <2>3. MutexHeld'
        BY DEF MutexHeld
    <2>4. SemaphoreHeld'
        BY DEF SemaphoreHeld
    <2> QED
        BY <2>1, <2>2, <2>3, <2>4 DEF CountExact, FirstAndLast
  <1>4. CASE ReaderGetGlobal(t)
    <2> USE <1>4 DEF ReaderGetGlobal
    <2>1. Counted' = Counted
        BY DEF Counted, Locations
    <2>2. TypeOK'
        BY DEF Locations
    <2>3. MutexHeld'
        BY DEF MutexHeld
    <2>4. SemaphoreHeld'
        BY DEF SemaphoreHeld
    <2> QED
        BY <2>1, <2>2, <2>3, <2>4 DEF CountExact, FirstAndLast
  <1>5. CASE ReaderPutGlobal(t)
    <2> USE <1>5 DEF ReaderPutGlobal
    <2>1. lock_global = 0
        BY DEF SemaphoreHeld
    <2>2. Counted' = Counted
        BY DEF Counted, Locations
    <2>3. TypeOK'
        BY DEF Locations
    <2>4. MutexHeld'
        BY <2>1 DEF MutexHeld
    <2>5. \A u \in Threads : pc'[u] \notin HoldPlaces \cup {"writing"}
      <3> SUFFICES ASSUME NEW u \in Threads
                   PROVE  pc'[u] \notin HoldPlaces \cup {"writing"}
          OBVIOUS
      <3>1. u = t => pc'[u] = "p_unlock"
          BY <2>1
      <3>2. u \notin Counted
          BY DEF FirstAndLast
      <3>3. u # t => pc[u] \notin HoldPlaces
          BY <3>2 DEF MutexHeld, Counted
      <3> QED
          BY <3>1, <3>3 DEF SemaphoreHeld
    <2>6. SemaphoreHeld'
        BY <2>5 DEF SemaphoreHeld
    <2> QED
        BY <2>1, <2>2, <2>3, <2>4, <2>6 DEF CountExact, FirstAndLast
  <1>6. CASE WriterGetGlobal(t) \/ WriterPut(t)
    <2> USE <1>6 DEF WriterGetGlobal, WriterPut
    <2>1. Counted' = Counted
        BY DEF Counted, Locations
    <2>2. TypeOK'
        BY DEF Locations
    <2>3. MutexHeld'
        BY DEF MutexHeld
    <2>4. SemaphoreHeld'
        BY DEF SemaphoreHeld
    <2> QED
        BY <2>1, <2>2, <2>3, <2>4 DEF CountExact, FirstAndLast
  <1> QED
      BY <1>1, <1>2, <1>3, <1>4, <1>5, <1>6

\* Every step preserves the invariant.
LEMMA MrswStep == MrswInv /\ [Next]_vars => MrswInv'
  <1> SUFFICES ASSUME MrswInv, [Next]_vars PROVE MrswInv'
      OBVIOUS
  <1>1. CASE UNCHANGED vars
      BY <1>1 DEF vars, MrswInv, TypeOK, CountExact, Counted, MutexHeld,
                  SemaphoreHeld, FirstAndLast
  <1>2. CASE Next
      BY <1>2, GetCountStep, PutCountStep, QuietStep DEF Next, LockCode
  <1> QED
      BY <1>1, <1>2

\* The invariant says what the properties say.
LEMMA MrswSafe == MrswInv => Exclusive /\ CountExact /\ GlobalAccountedFor
  <1> SUFFICES ASSUME MrswInv PROVE Exclusive /\ CountExact /\ GlobalAccountedFor
      OBVIOUS
  <1>1. Exclusive
      BY DEF MrswInv, SemaphoreHeld, Exclusive, Reading, Writing
  <1>2. GlobalAccountedFor
      BY DEF MrswInv, TypeOK, SemaphoreHeld, MutexHeld, GlobalAccountedFor
  <1> QED
      BY <1>1, <1>2 DEF MrswInv

\* For any finite set of threads: the writer of a reader preferred lock is
\* alone, the count is the number of readers, and no path through
\* mrsw_lock_reader_get and mrsw_lock_reader_put leaks the mutex or the
\* semaphore.
THEOREM MrswExcludes == Spec => [](TypeOK /\ Exclusive /\ CountExact /\ GlobalAccountedFor)
  <1>1. MrswInv => TypeOK
      BY DEF MrswInv
  <1> QED
      BY <1>1, MrswInit, MrswStep, MrswSafe, PTL DEF Spec

-----------------------------------------------------------------------------
\* A step of the implementation is a step of ReadersWriters, or none.
LEMMA RefinementStep ==
    ASSUME MrswInv, [Next]_vars
    PROVE  [Abstract!Next]_<<Reading, Writing>>
  <1> USE DEF MrswInv, TypeOK, Goto
  <1>1. CASE UNCHANGED vars
      BY <1>1 DEF vars, Reading, Writing
  <1>2. ASSUME NEW t \in Threads, ReaderGetUnlock(t)
        PROVE  Abstract!BeginRead(t)
      BY <1>2 DEF ReaderGetUnlock, Abstract!BeginRead, Reading, Writing, SemaphoreHeld
  <1>3. ASSUME NEW t \in Threads, ReaderPut(t)
        PROVE  Abstract!EndRead(t)
      BY <1>3 DEF ReaderPut, Abstract!EndRead, Reading, Writing
  <1>4. ASSUME NEW t \in Threads, WriterGetGlobal(t)
        PROVE  Abstract!BeginWrite(t)
      BY <1>4 DEF WriterGetGlobal, Abstract!BeginWrite, Reading, Writing, SemaphoreHeld
  <1>5. ASSUME NEW t \in Threads, WriterPut(t)
        PROVE  Abstract!EndWrite(t)
      BY <1>5 DEF WriterPut, Abstract!EndWrite, Reading, Writing
  <1>6. ASSUME NEW t \in Threads,
               \/ ReaderGet(t) \/ ReaderGetTimeout(t) \/ ReaderGetMutex(t)
               \/ ReaderGetCount(t) \/ ReaderGetGlobal(t)
               \/ ReaderPutMutex(t) \/ ReaderPutCount(t) \/ ReaderPutGlobal(t)
               \/ ReaderPutUnlock(t) \/ WriterGet(t) \/ WriterGetTimeout(t)
        PROVE  UNCHANGED <<Reading, Writing>>
      BY <1>6 DEF ReaderGet, ReaderGetTimeout, ReaderGetMutex, ReaderGetCount,
                  ReaderGetGlobal, ReaderPutMutex, ReaderPutCount, ReaderPutGlobal,
                  ReaderPutUnlock, WriterGet, WriterGetTimeout, Reading, Writing
  <1>7. CASE Next
      BY <1>2, <1>3, <1>4, <1>5, <1>6, <1>7 DEF Next, LockCode, Abstract!Next
  <1> QED
      BY <1>1, <1>7

\* For any finite set of threads: the reader preferred lock of mrsw_lock.c
\* implements a readers-writers lock.
THEOREM MrswRefines == Spec => ImplementsReadersWriters
  <1>1. Init => Abstract!Init
      BY DEF Init, Abstract!Init, Reading, Writing
  <1>2. MrswInv /\ [Next]_vars => [Abstract!Next]_<<Reading, Writing>>
      BY RefinementStep
  <1> QED
      BY <1>1, <1>2, MrswInit, MrswStep, PTL
         DEF Spec, ImplementsReadersWriters, Abstract!Spec, Abstract!rwVars
=============================================================================
