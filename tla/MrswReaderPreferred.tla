------------------------ MODULE MrswReaderPreferred ------------------------
(***************************************************************************)
(* The reader preferred multiple reader single writer lock                 *)
(* (sw_services/concurrency_support/src/mrsw_lock.c, the cases             *)
(* MRSW_READER_PREFERRED).  A semaphore lock_global is held by the writer  *)
(* or by the readers together: the first reader takes it, the last one     *)
(* gives it back, whichever thread that is.  The mutex lock_readers        *)
(* protects the count of the readers.                                      *)
(*                                                                         *)
(* Every call on a kernel object is a step; the increment or decrement and *)
(* the test of the count are one step (rtos_osal_critical_enter).          *)
(***************************************************************************)
EXTENDS Integers, FiniteSets

CONSTANTS
    Threads,
    None

ASSUME ThreadsAssumption == IsFiniteSet(Threads) /\ None \notin Threads

VARIABLES
    lock_global,        \* count of the semaphore, at most 1
    lock_readers,       \* holder of the mutex
    num_readers_active,
    pc                  \* pc[t]: where thread t is

vars == <<lock_global, lock_readers, num_readers_active, pc>>

\* Inside mrsw_lock_reader_get: waiting for the mutex, holding it, waiting
\* for the semaphore with the mutex held, about to give the mutex back.
\* Inside mrsw_lock_reader_put likewise; in mrsw_lock_writer_get: waiting.
Locations ==
    {"idle", "r_mutex", "r_count", "r_global", "r_unlock", "reading",
     "p_mutex", "p_count", "p_global", "p_unlock", "w_global", "writing"}

TypeOK ==
    /\ lock_global \in {0, 1}
    /\ lock_readers \in Threads \cup {None}
    /\ num_readers_active \in Nat
    /\ pc \in [Threads -> Locations]

\* mrsw_lock_create
Init ==
    /\ lock_global = 1
    /\ lock_readers = None
    /\ num_readers_active = 0
    /\ pc = [t \in Threads |-> "idle"]

Goto(t, there) == pc' = [pc EXCEPT ![t] = there]

-----------------------------------------------------------------------------
(* mrsw_lock_reader_get                                                    *)

ReaderGet(t) ==
    /\ pc[t] = "idle" /\ Goto(t, "r_mutex")
    /\ UNCHANGED <<lock_global, lock_readers, num_readers_active>>

\* The timeout of the caller applies to the mutex only.
ReaderGetTimeout(t) ==
    /\ pc[t] = "r_mutex" /\ Goto(t, "idle")
    /\ UNCHANGED <<lock_global, lock_readers, num_readers_active>>

ReaderGetMutex(t) ==
    /\ pc[t] = "r_mutex" /\ lock_readers = None
    /\ lock_readers' = t
    /\ Goto(t, "r_count")
    /\ UNCHANGED <<lock_global, num_readers_active>>

\* Mutant of ReaderGetCount: no reader but the very first takes the semaphore.
ReaderGetCountNoGlobal(t) ==
    /\ pc[t] = "r_count"
    /\ num_readers_active' = num_readers_active + 1
    /\ Goto(t, "r_unlock")
    /\ UNCHANGED <<lock_global, lock_readers>>

\* The first reader goes on to take the semaphore.
ReaderGetCount(t) ==
    /\ pc[t] = "r_count"
    /\ num_readers_active' = num_readers_active + 1
    /\ Goto(t, IF num_readers_active' = 1 THEN "r_global" ELSE "r_unlock")
    /\ UNCHANGED <<lock_global, lock_readers>>

\* It waits for as long as a writer writes, and with it every other reader.
ReaderGetGlobal(t) ==
    /\ pc[t] = "r_global" /\ lock_global = 1
    /\ lock_global' = 0
    /\ Goto(t, "r_unlock")
    /\ UNCHANGED <<lock_readers, num_readers_active>>

ReaderGetUnlock(t) ==
    /\ pc[t] = "r_unlock"
    /\ lock_readers' = None
    /\ Goto(t, "reading")
    /\ UNCHANGED <<lock_global, num_readers_active>>

-----------------------------------------------------------------------------
(* mrsw_lock_reader_put                                                    *)

ReaderPut(t) ==
    /\ pc[t] = "reading" /\ Goto(t, "p_mutex")
    /\ UNCHANGED <<lock_global, lock_readers, num_readers_active>>

ReaderPutMutex(t) ==
    /\ pc[t] = "p_mutex" /\ lock_readers = None
    /\ lock_readers' = t
    /\ Goto(t, "p_count")
    /\ UNCHANGED <<lock_global, num_readers_active>>

\* Mutant of ReaderPutCount: the semaphore is given back by every reader.
ReaderPutCountEach(t) ==
    /\ pc[t] = "p_count"
    /\ num_readers_active' = num_readers_active - 1
    /\ Goto(t, "p_global")
    /\ UNCHANGED <<lock_global, lock_readers>>

\* Mutant of ReaderPutCount: the count is tested before it is decremented.
ReaderPutCountLate(t) ==
    /\ pc[t] = "p_count"
    /\ num_readers_active' = num_readers_active - 1
    /\ Goto(t, IF num_readers_active = 0 THEN "p_global" ELSE "p_unlock")
    /\ UNCHANGED <<lock_global, lock_readers>>

\* The last reader goes on to give the semaphore back.
ReaderPutCount(t) ==
    /\ pc[t] = "p_count"
    /\ num_readers_active' = num_readers_active - 1
    /\ Goto(t, IF num_readers_active' = 0 THEN "p_global" ELSE "p_unlock")
    /\ UNCHANGED <<lock_global, lock_readers>>

\* The semaphore goes back.  One that is already at its maximum would refuse:
\* the function then returns the error and keeps the mutex.
ReaderPutGlobal(t) ==
    /\ pc[t] = "p_global"
    /\ lock_global' = 1
    /\ Goto(t, IF lock_global = 0 THEN "p_unlock" ELSE "idle")
    /\ UNCHANGED <<lock_readers, num_readers_active>>

ReaderPutUnlock(t) ==
    /\ pc[t] = "p_unlock"
    /\ lock_readers' = None
    /\ Goto(t, "idle")
    /\ UNCHANGED <<lock_global, num_readers_active>>

-----------------------------------------------------------------------------
(* mrsw_lock_writer_get and mrsw_lock_writer_put                           *)

WriterGet(t) ==
    /\ pc[t] = "idle" /\ Goto(t, "w_global")
    /\ UNCHANGED <<lock_global, lock_readers, num_readers_active>>

WriterGetTimeout(t) ==
    /\ pc[t] = "w_global" /\ Goto(t, "idle")
    /\ UNCHANGED <<lock_global, lock_readers, num_readers_active>>

WriterGetGlobal(t) ==
    /\ pc[t] = "w_global" /\ lock_global = 1
    /\ lock_global' = 0
    /\ Goto(t, "writing")
    /\ UNCHANGED <<lock_readers, num_readers_active>>

WriterPut(t) ==
    /\ pc[t] = "writing"
    /\ lock_global' = 1
    /\ Goto(t, "idle")
    /\ UNCHANGED <<lock_readers, num_readers_active>>

-----------------------------------------------------------------------------
\* The code of the lock; the callers decide when to call and when to give up.
LockCode(t) ==
    \/ ReaderGetMutex(t) \/ ReaderGetCount(t) \/ ReaderGetGlobal(t) \/ ReaderGetUnlock(t)
    \/ ReaderPutMutex(t) \/ ReaderPutCount(t) \/ ReaderPutGlobal(t) \/ ReaderPutUnlock(t)
    \/ WriterGetGlobal(t)

Next ==
    \E t \in Threads :
        \/ ReaderGet(t) \/ ReaderGetTimeout(t) \/ ReaderPut(t)
        \/ WriterGet(t) \/ WriterGetTimeout(t) \/ WriterPut(t)
        \/ LockCode(t)

Spec == Init /\ [][Next]_vars

\* Threads that can run do, whoever holds the lock gives it back, and the
\* kernel hands a mutex or a semaphore that becomes free again and again to
\* everybody who waits for it.
Fairness ==
    \A t \in Threads :
        /\ WF_vars(ReaderPut(t)) /\ WF_vars(WriterPut(t))
        /\ SF_vars(ReaderGetMutex(t)) /\ SF_vars(ReaderPutMutex(t))
        /\ SF_vars(ReaderGetGlobal(t))
        /\ WF_vars(ReaderGetCount(t)) /\ WF_vars(ReaderGetUnlock(t))
        /\ WF_vars(ReaderPutCount(t)) /\ WF_vars(ReaderPutGlobal(t))
        /\ WF_vars(ReaderPutUnlock(t))

FairSpec == Spec /\ Fairness

-----------------------------------------------------------------------------
Reading == {t \in Threads : pc[t] = "reading"}
Writing == {t \in Threads : pc[t] = "writing"}

\* The threads the count stands for: from the increment to the decrement.
Counted == {t \in Threads :
               pc[t] \in {"r_global", "r_unlock", "reading", "p_mutex", "p_count"}}

\* A thread that holds the lock for writing holds it alone, though the
\* semaphore is taken by one reader and given back by another.
Exclusive ==
    \A w \in Writing : Writing = {w} /\ Reading = {}

\* The xassert of mrsw_lock_reader_put, and what makes the last reader the one
\* that gives the semaphore back: the count is the number of readers.
CountExact == num_readers_active = Cardinality(Counted)

\* A put never finds the semaphore at its maximum, so its error path, which
\* keeps the readers' mutex, is never taken; and no path through the functions
\* returns with that mutex held.
GlobalAccountedFor ==
    /\ \A t \in Threads : pc[t] \in {"p_global", "writing"} => lock_global = 0
    /\ lock_readers # None =>
           pc[lock_readers] \in {"r_count", "r_global", "r_unlock",
                                "p_count", "p_global", "p_unlock"}

\* The lock is a readers-writers lock.
Abstract == INSTANCE ReadersWriters WITH readers <- Reading, writers <- Writing
ImplementsReadersWriters == Abstract!Spec

\* A reader is served as long as whoever holds the lock gives it back, even
\* while writers keep coming: it reads, or its own timeout ends the wait.
ReaderServed ==
    \A t \in Threads : pc[t] = "r_mutex" ~> pc[t] \in {"reading", "idle"}
=============================================================================
