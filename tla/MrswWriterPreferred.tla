------------------------ MODULE MrswWriterPreferred ------------------------
(***************************************************************************)
(* The writer preferred multiple reader single writer lock                 *)
(* (sw_services/concurrency_support/src/mrsw_lock.c, the cases             *)
(* MRSW_WRITER_PREFERRED).  A mutex lock_global protects three counters,   *)
(* and threads wait for the flag MRSW_FLAG of the event group cond.        *)
(*                                                                         *)
(* A section under the mutex contains no wait, so it is one step, taken    *)
(* when the mutex is free; between two sections anything may happen.  The  *)
(* counters are unsigned and wrap.                                         *)
(***************************************************************************)
EXTENDS Integers, FiniteSets

CONSTANTS
    WpThreads,
    Timeouts,   \* callers wait with a finite timeout, not forever
    UINT_MOD    \* the modulus of uint32_t, made small

ASSUME WriterPreferredAssumption ==
    /\ IsFiniteSet(WpThreads)
    /\ Timeouts \in BOOLEAN
    /\ UINT_MOD \in Nat /\ UINT_MOD > Cardinality(WpThreads) + 1

VARIABLES
    num_readers_active,
    num_writers_waiting,
    writer_active,      \* 0 or 1
    cond,               \* MRSW_FLAG is set in the event group
    wpPc                  \* wpPc[t]: where thread t is

wpVars == <<num_readers_active, num_writers_waiting, writer_active, cond, wpPc>>

\* Inside mrsw_lock_reader_get: about to try, about to wait for the flag,
\* waiting, timed out.  Inside mrsw_lock_writer_get: likewise, and woken.
Locations ==
    {"idle", "r_try", "r_blocked", "r_wait", "r_timeout", "reading",
     "w_try", "w_blocked", "w_wait", "w_woken", "w_timeout", "writing"}

WpTypeOK ==
    /\ num_readers_active \in 0..(UINT_MOD - 1)
    /\ num_writers_waiting \in 0..(UINT_MOD - 1)
    /\ writer_active \in {0, 1}
    /\ cond \in BOOLEAN
    /\ wpPc \in [WpThreads -> Locations]

\* mrsw_lock_create
WpInit ==
    /\ num_readers_active = 0
    /\ num_writers_waiting = 0
    /\ writer_active = 0
    /\ cond = FALSE
    /\ wpPc = [t \in WpThreads |-> "idle"]

Plus(n) == (n + 1) % UINT_MOD

Minus(n) == (n - 1 + UINT_MOD) % UINT_MOD

WpGoto(t, there) == wpPc' = [wpPc EXCEPT ![t] = there]

-----------------------------------------------------------------------------
(* The event group.                                                        *)

\* Where a thread goes on when its wait succeeds: a reader tries again.
Resume(there) ==
    CASE there = "r_wait" -> "r_try"
      [] there = "w_wait" -> "w_woken"
      [] OTHER -> there

\* rtos_osal_event_group_set_bits by thread t, which goes to the place there:
\* every waiting thread is woken and the flag cleared, or the flag stays set.
SetFlag(t, there) ==
    LET waiting == {u \in WpThreads : wpPc[u] \in {"r_wait", "w_wait"}} IN
    /\ cond' = (waiting = {})
    /\ wpPc' = [u \in WpThreads |-> IF u = t THEN there ELSE Resume(wpPc[u])]

\* rtos_osal_event_group_get_bits with RTOS_OSAL_PORT_CLEAR: a flag that is
\* set is consumed at once, otherwise the thread waits.
AwaitFlag(t, waiting) ==
    /\ cond' = FALSE
    /\ WpGoto(t, IF cond THEN Resume(waiting) ELSE waiting)

-----------------------------------------------------------------------------
(* mrsw_lock_reader_get                                                    *)

ReaderGet(t) ==
    /\ wpPc[t] = "idle" /\ WpGoto(t, "r_try")
    /\ UNCHANGED <<num_readers_active, num_writers_waiting, writer_active, cond>>

\* Under the mutex: read, or go on to wait.
ReaderTry(t) ==
    /\ wpPc[t] = "r_try"
    /\ IF writer_active = 0 /\ num_writers_waiting = 0
       THEN /\ num_readers_active' = Plus(num_readers_active)
            /\ WpGoto(t, "reading")
       ELSE /\ num_readers_active' = num_readers_active
            /\ WpGoto(t, "r_blocked")
    /\ UNCHANGED <<num_writers_waiting, writer_active, cond>>

ReaderAwait(t) ==
    /\ wpPc[t] = "r_blocked"
    /\ AwaitFlag(t, "r_wait")
    /\ UNCHANGED <<num_readers_active, num_writers_waiting, writer_active>>

ReaderTimeout(t) ==
    /\ Timeouts /\ wpPc[t] = "r_wait" /\ WpGoto(t, "r_timeout")
    /\ UNCHANGED <<num_readers_active, num_writers_waiting, writer_active, cond>>

\* "We are giving up on reading": the count goes down, and the status that the
\* function returns is still RTOS_OSAL_SUCCESS, so the caller reads.
ReaderGiveUp(t) ==
    /\ wpPc[t] = "r_timeout"
    /\ num_readers_active' = Minus(num_readers_active)
    /\ WpGoto(t, "reading")
    /\ UNCHANGED <<num_writers_waiting, writer_active, cond>>

\* mrsw_lock_reader_put: the last reader sets the flag.
ReaderPut(t) ==
    /\ wpPc[t] = "reading"
    /\ num_readers_active' = Minus(num_readers_active)
    /\ IF num_readers_active' = 0
       THEN SetFlag(t, "idle")
       ELSE WpGoto(t, "idle") /\ cond' = cond
    /\ UNCHANGED <<num_writers_waiting, writer_active>>

-----------------------------------------------------------------------------
(* mrsw_lock_writer_get and mrsw_lock_writer_put                           *)

WriterGet(t) ==
    /\ wpPc[t] = "idle" /\ WpGoto(t, "w_try")
    /\ UNCHANGED <<num_readers_active, num_writers_waiting, writer_active, cond>>

\* Under the mutex: write, or be counted as waiting and go on to wait.
WriterTry(t) ==
    /\ wpPc[t] = "w_try"
    /\ IF num_readers_active > 0 \/ writer_active = 1
       THEN /\ num_writers_waiting' = Plus(num_writers_waiting)
            /\ WpGoto(t, "w_blocked")
            /\ UNCHANGED writer_active
       ELSE /\ writer_active' = 1
            /\ WpGoto(t, "writing")
            /\ UNCHANGED num_writers_waiting
    /\ UNCHANGED <<num_readers_active, cond>>

WriterAwait(t) ==
    /\ wpPc[t] = "w_blocked"
    /\ AwaitFlag(t, "w_wait")
    /\ UNCHANGED <<num_readers_active, num_writers_waiting, writer_active>>

\* Mutant of WriterWoken: the woken writer stays counted as waiting.
WriterWokenCounted(t) ==
    /\ wpPc[t] = "w_woken"
    /\ writer_active' = 1
    /\ WpGoto(t, "writing")
    /\ UNCHANGED <<num_readers_active, num_writers_waiting, cond>>

\* The flag was seen: the writer becomes active, whatever the counters say.
WriterWoken(t) ==
    /\ wpPc[t] = "w_woken"
    /\ num_writers_waiting' = Minus(num_writers_waiting)
    /\ writer_active' = 1
    /\ WpGoto(t, "writing")
    /\ UNCHANGED <<num_readers_active, cond>>

WriterTimeout(t) ==
    /\ Timeouts /\ wpPc[t] = "w_wait" /\ WpGoto(t, "w_timeout")
    /\ UNCHANGED <<num_readers_active, num_writers_waiting, writer_active, cond>>

\* "We are giving up on writing": the status returned is RTOS_OSAL_SUCCESS, so
\* the caller writes.
WriterGiveUp(t) ==
    /\ wpPc[t] = "w_timeout"
    /\ num_writers_waiting' = Minus(num_writers_waiting)
    /\ WpGoto(t, "writing")
    /\ UNCHANGED <<num_readers_active, writer_active, cond>>

WriterPut(t) ==
    /\ wpPc[t] = "writing"
    /\ writer_active' = 0
    /\ SetFlag(t, "idle")
    /\ UNCHANGED <<num_readers_active, num_writers_waiting>>

-----------------------------------------------------------------------------
LockCode(t) ==
    \/ ReaderTry(t) \/ ReaderAwait(t) \/ ReaderGiveUp(t)
    \/ WriterTry(t) \/ WriterAwait(t) \/ WriterWoken(t) \/ WriterGiveUp(t)

WpNext ==
    \E t \in WpThreads :
        \/ ReaderGet(t) \/ ReaderTimeout(t) \/ ReaderPut(t)
        \/ WriterGet(t) \/ WriterTimeout(t) \/ WriterPut(t)
        \/ LockCode(t)

WpSpec == WpInit /\ [][WpNext]_wpVars

-----------------------------------------------------------------------------
\* num_writers_waiting, which keeps readers out, is the number of the writers
\* that are blocked: a writer that was served or gave up is not counted any
\* more, in whatever order flags, timeouts and other threads came.  A count
\* left behind would keep every reader out for ever.
WritersCounted ==
    num_writers_waiting =
        Cardinality({t \in WpThreads :
            wpPc[t] \in {"w_blocked", "w_wait", "w_woken", "w_timeout"}})

\* "safely support shared access to a single hardware or software resource"
\* (concurrency_support.rst): a thread that was given the lock for writing
\* holds it alone.
WriterExclusive ==
    \A w \in WpThreads : wpPc[w] = "writing" =>
        \A t \in WpThreads \ {w} : wpPc[t] \notin {"reading", "writing"}
=============================================================================
