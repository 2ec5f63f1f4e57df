------------------------------- MODULE Swmem -------------------------------
(***************************************************************************)
(* Software memory (drivers/swmem/src/rtos_swmem.c).  A miss in the cache  *)
(* of software memory raises an interrupt that asks for a line, an         *)
(* eviction one that hands a line over.  The routine serves a request on   *)
(* the spot if the application's callback can; else it disables the        *)
(* trigger and leaves the request, in variables that hold one of each      *)
(* kind, to a thread.  The answer to a miss must be given on the core that *)
(* took the interrupt.                                                     *)
(*                                                                         *)
(* The data of a line is its number when it is read and a version when it  *)
(* is evicted.  The hardware, the application's callbacks and the kernel   *)
(* are external.  Both thread callbacks exist, so the assertion that a     *)
(* request was handled holds.  A routine shares nothing with the thread    *)
(* while its trigger is enabled and runs in one step.                      *)
(***************************************************************************)
EXTENDS Integers, Sequences, FiniteSets, FiniteSetsExt

CONSTANTS
    SwmLines,   \* lines of the software memory
    SwmCores,
    SwmVersions \* bound on the evictions of changed lines

NoLine == 0

ASSUME SwmAssumption == NoLine \notin SwmLines

VARIABLES
    swmMissed,  \* lines the cache waits for
    swmCached,  \* the data of the lines in the cache, NoLine if not there
    swmDirty,   \* versions the cache wants to hand over, 0 if none
    swmVersion, \* the last version of each line that was evicted
    swmStored,  \* the version of each line that the application has written
    swmIsrCore, \* the core that takes the interrupts
    swmFill,    \* the trigger, fill_slot and fill_buf
    swmEvict,   \* the trigger, evict_slot and evict_buf
    swmExclude, \* swmem_core_exclude_map
    swmPend,    \* flags in the queue of the timer task
    swmFlags,   \* swmem_event_group
    swmThread   \* the thread: where it is, its flags, its core, the cores it may not use

swmVars == <<swmMissed, swmCached, swmDirty, swmVersion, swmStored, swmIsrCore, swmFill,
             swmEvict, swmExclude, swmPend, swmFlags, swmThread>>

SwmHardware == <<swmMissed, swmCached, swmDirty, swmVersion>>

\* rtos_swmem_init and rtos_swmem_start.
SwmInit ==
    /\ swmMissed = {} /\ swmCached = [l \in SwmLines |-> NoLine]
    /\ swmDirty = [l \in SwmLines |-> 0] /\ swmVersion = [l \in SwmLines |-> 0]
    /\ swmStored = [l \in SwmLines |-> 0]
    /\ swmIsrCore \in SwmCores
    /\ swmFill = [trigger |-> TRUE, slot |-> NoLine, buf |-> NoLine]
    /\ swmEvict = [trigger |-> TRUE, slot |-> NoLine, buf |-> 0]
    /\ swmExclude = {} /\ swmPend = <<>> /\ swmFlags = {}
    /\ \E c \in SwmCores :
          swmThread = [pc |-> "wait", flags |-> {}, core |-> c, exclude |-> {}]

-----------------------------------------------------------------------------
(***************************************************************************)
(* The cache: a core misses a line, and a line goes, changed or not.       *)
(***************************************************************************)
SwmMiss(l) ==
    /\ swmCached[l] = NoLine /\ l \notin swmMissed
    /\ swmMissed' = swmMissed \cup {l}
    /\ UNCHANGED <<swmCached, swmDirty, swmVersion, swmStored, swmIsrCore, swmFill,
                   swmEvict, swmExclude, swmPend, swmFlags, swmThread>>

SwmGo(l) ==
    /\ swmCached[l] # NoLine /\ swmDirty[l] = 0
    /\ swmCached' = [swmCached EXCEPT ![l] = NoLine]
    /\ \/ UNCHANGED <<swmDirty, swmVersion>>
       \/ LET v == 1 + Max({swmVersion[m] : m \in SwmLines}) IN
          /\ v <= SwmVersions
          /\ swmVersion' = [swmVersion EXCEPT ![l] = v]
          /\ swmDirty' = [swmDirty EXCEPT ![l] = v]
    /\ UNCHANGED <<swmMissed, swmStored, swmIsrCore, swmFill, swmEvict, swmExclude,
                   swmPend, swmFlags, swmThread>>

\* swmem_fill_populate_from_buffer.
SwmPopulate(slot, data) ==
    /\ swmCached' = [swmCached EXCEPT ![slot] = data]
    /\ swmMissed' = swmMissed \ {slot}
    /\ UNCHANGED <<swmDirty, swmVersion>>

-----------------------------------------------------------------------------
(***************************************************************************)
(* The interrupt routines, on the core that called rtos_swmem_start.       *)
(***************************************************************************)

\* Mutant: the trigger stays enabled while the thread has the request.
SwmFillTriggered(l) ==
    /\ swmFill.trigger /\ l \in swmMissed
    /\ swmFill' = [swmFill EXCEPT !.slot = l]
    /\ swmExclude' = SwmCores \ {swmIsrCore}
    /\ swmPend' = Append(swmPend, "read")
    /\ UNCHANGED <<SwmHardware, swmStored, swmIsrCore, swmEvict, swmFlags, swmThread>>

sw_mem_fill_isr(l) ==
    /\ swmFill.trigger /\ l \in swmMissed
    /\ \/ /\ swmFill' = [swmFill EXCEPT !.slot = l, !.buf = l]
          /\ SwmPopulate(l, l)
          /\ UNCHANGED <<swmExclude, swmPend>>
       \/ /\ swmFill' = [swmFill EXCEPT !.trigger = FALSE, !.slot = l]
          /\ swmExclude' = SwmCores \ {swmIsrCore}
          /\ swmPend' = Append(swmPend, "read")
          /\ UNCHANGED SwmHardware
    /\ UNCHANGED <<swmStored, swmIsrCore, swmEvict, swmFlags, swmThread>>

sw_mem_evict_isr(l) ==
    /\ swmEvict.trigger /\ swmDirty[l] # 0
    /\ swmDirty' = [swmDirty EXCEPT ![l] = 0]
    /\ \/ /\ swmEvict' = [trigger |-> TRUE, slot |-> l, buf |-> swmDirty[l]]
          /\ swmStored' = [swmStored EXCEPT ![l] = swmDirty[l]]
          /\ UNCHANGED swmPend
       \/ /\ swmEvict' = [trigger |-> FALSE, slot |-> l, buf |-> swmDirty[l]]
          /\ swmPend' = Append(swmPend, "write")
          /\ UNCHANGED swmStored
    /\ UNCHANGED <<swmMissed, swmCached, swmVersion, swmIsrCore, swmFill, swmExclude,
                   swmFlags, swmThread>>

\* rtos_osal_event_group_set_bits from an interrupt is done by the timer task.
SwmSetFlags ==
    /\ swmPend # <<>>
    /\ swmFlags' = swmFlags \cup {Head(swmPend)} /\ swmPend' = Tail(swmPend)
    /\ UNCHANGED <<SwmHardware, swmStored, swmIsrCore, swmFill, swmEvict, swmExclude,
                   swmThread>>

-----------------------------------------------------------------------------
(***************************************************************************)
(* rtos_swmem_thread.                                                      *)
(***************************************************************************)

\* What comes after the thread has served a read, or found that there is none.
SwmAfterRead(flags) == IF "write" \in flags THEN "write" ELSE "wait"

SwmTakeFlags ==
    /\ swmThread.pc = "wait" /\ swmFlags # {}
    /\ swmThread' = IF "read" \in swmFlags
                     THEN [swmThread EXCEPT !.pc = "read", !.flags = swmFlags]
                     ELSE [swmThread EXCEPT !.pc = SwmAfterRead(swmFlags)]
    /\ swmFlags' = {}
    /\ UNCHANGED <<SwmHardware, swmStored, swmIsrCore, swmFill, swmEvict, swmExclude,
                   swmPend>>

\* rtos_swmem_read_request fills fill_buf.
SwmRead ==
    /\ swmThread.pc = "read"
    /\ swmFill' = [swmFill EXCEPT !.buf = swmFill.slot]
    /\ swmThread' = [swmThread EXCEPT !.pc = "exclude"]
    /\ UNCHANGED <<SwmHardware, swmStored, swmIsrCore, swmEvict, swmExclude, swmPend,
                   swmFlags>>

\* rtos_osal_thread_core_exclusion_set moves a thread off an excluded core.
SwmSetExclusion ==
    /\ swmThread.pc = "exclude"
    /\ \E c \in SwmCores \ swmExclude :
          swmThread' = [swmThread EXCEPT !.pc = "populate", !.exclude = swmExclude,
                                         !.core = c]
    /\ UNCHANGED <<SwmHardware, swmStored, swmIsrCore, swmFill, swmEvict, swmExclude,
                   swmPend, swmFlags>>

SwmAnswer ==
    /\ swmThread.pc = "populate"
    /\ SwmPopulate(swmFill.slot, swmFill.buf)
    /\ swmThread' = [swmThread EXCEPT !.pc = "enable"]
    /\ UNCHANGED <<swmStored, swmIsrCore, swmFill, swmEvict, swmExclude, swmPend, swmFlags>>

\* The thread may run anywhere again, and the next miss may come.
SwmEnable ==
    /\ swmThread.pc = "enable"
    /\ swmThread' = [swmThread EXCEPT !.pc = SwmAfterRead(swmThread.flags), !.flags = {},
                                      !.exclude = {}]
    /\ swmFill' = [swmFill EXCEPT !.trigger = TRUE]
    /\ UNCHANGED <<SwmHardware, swmStored, swmIsrCore, swmEvict, swmExclude, swmPend,
                   swmFlags>>

\* rtos_swmem_write_request, then triggerable_enable_trigger.
SwmWrite ==
    /\ swmThread.pc = "write"
    /\ swmStored' = [swmStored EXCEPT ![swmEvict.slot] = swmEvict.buf]
    /\ swmEvict' = [swmEvict EXCEPT !.trigger = TRUE]
    /\ swmThread' = [swmThread EXCEPT !.pc = "wait"]
    /\ UNCHANGED <<SwmHardware, swmIsrCore, swmFill, swmExclude, swmPend, swmFlags>>

\* The kernel moves the thread to a core that it may use.
SwmMove ==
    /\ \E c \in SwmCores \ swmThread.exclude : swmThread' = [swmThread EXCEPT !.core = c]
    /\ UNCHANGED <<SwmHardware, swmStored, swmIsrCore, swmFill, swmEvict, swmExclude,
                   swmPend, swmFlags>>

-----------------------------------------------------------------------------
SwmThreadCode == SwmTakeFlags \/ SwmRead \/ SwmSetExclusion \/ SwmAnswer \/ SwmEnable \/ SwmWrite

SwmNext ==
    \/ \E l \in SwmLines : SwmMiss(l) \/ SwmGo(l) \/ sw_mem_fill_isr(l) \/ sw_mem_evict_isr(l)
    \/ SwmSetFlags \/ SwmThreadCode \/ SwmMove

\* The timer task and the thread run; the cache need not miss.
SwmFairness == WF_swmVars(SwmSetFlags) /\ WF_swmVars(SwmThreadCode)

SwmSpec == SwmInit /\ [][SwmNext]_swmVars /\ SwmFairness

SwmTypeOK ==
    /\ swmMissed \subseteq SwmLines /\ swmCached \in [SwmLines -> SwmLines \cup {NoLine}]
    /\ {swmDirty, swmVersion, swmStored} \subseteq [SwmLines -> 0..SwmVersions]
    /\ swmFill \in [trigger : BOOLEAN, slot : SwmLines \cup {NoLine}, buf : SwmLines \cup {NoLine}]
    /\ swmEvict \in [trigger : BOOLEAN, slot : SwmLines \cup {NoLine}, buf : 0..SwmVersions]
    /\ swmThread \in [pc : {"wait", "read", "exclude", "populate", "enable", "write"},
                      flags : SUBSET {"read", "write"}, core : SwmCores,
                      exclude : SUBSET SwmCores]

\* Every line in the cache has its own data, and a line is answered on the core
\* that took the interrupt, while the cache waits for it; a version that was evicted
\* is stored, or waits in the cache, or is the one request that the routine has left
\* to the thread.
SwmemExact ==
    /\ \A l \in SwmLines : swmCached[l] \in {NoLine, l}
    /\ swmThread.pc = "populate" => /\ swmThread.core = swmIsrCore
                                    /\ swmFill.slot \in swmMissed
    /\ \A l \in SwmLines :
          \/ swmStored[l] = swmVersion[l]
          \/ swmDirty[l] = swmVersion[l]
          \/ ~ swmEvict.trigger /\ swmEvict.slot = l /\ swmEvict.buf = swmVersion[l]

\* The thread has yet to answer a miss (1) or to store a line (2).
SwmLeft(k) == IF k = 1 THEN ~ swmFill.trigger ELSE ~ swmEvict.trigger
=============================================================================
