----------------------------- MODULE RtosLocks -----------------------------
(***************************************************************************)
(* The recursive tile locks of rtos_support (api/rtos_locks.h,             *)
(* src/rtos_locks.c): a hardware lock, which the core that owns it may     *)
(* take again at once, and a counter in memory that says how often it was  *)
(* taken.  Every core runs tasks and, on top of them, interrupt routines;  *)
(* both call rtos_lock_acquire and rtos_lock_release on the same lock.     *)
(* One access to the hardware lock or to the counter is one step, so that  *)
(* an interrupt may arrive between the two.                                *)
(*                                                                         *)
(* Init is the state rtos_locks_initialize leaves: it runs on the start-up *)
(* core before any other context exists, and the calls made before it are  *)
(* no-ops (rtos_locks[i] = -1).  RTOS_LOCKS_SAFE is not defined.           *)
(***************************************************************************)
EXTENDS Integers

CONSTANTS
    Cores,       \* the hardware threads that run the RTOS
    MaskedTasks, \* the cores whose tasks mask interrupts around their sections
    MaxDepth,    \* bound: how deep one context nests rtos_lock_acquire
    None         \* no owner

ASSUME CoresAssumption == None \notin Cores
ASSUME MaskedAssumption == MaskedTasks \subseteq Cores
ASSUME DepthAssumption == MaxDepth \in Nat \ {0}

\* The two contexts of a core.
Levels == {"task", "isr"}

VARIABLES
    owner,      \* the hardware lock rtos_locks[0]: the core that owns it
    counter,    \* rtos_lock_counters[0]
    isrOn,      \* isrOn[c]: core c is inside an interrupt routine
    pc,         \* pc[c][l]: where context l of core c is inside the two functions
    depth       \* depth[c][l]: acquires of the context not yet released

vars == <<owner, counter, isrOn, pc, depth>>

TypeOK ==
    /\ owner \in Cores \cup {None}
    /\ counter \in Nat
    /\ isrOn \in [Cores -> BOOLEAN]
    /\ pc \in [Cores -> [Levels -> {"run", "acquired", "releasing"}]]
    /\ depth \in [Cores -> [Levels -> 0..MaxDepth]]

Init ==
    /\ owner = None
    /\ counter = 0
    /\ isrOn = [c \in Cores |-> FALSE]
    /\ pc = [c \in Cores |-> [l \in Levels |-> "run"]]
    /\ depth = [c \in Cores |-> [l \in Levels |-> 0]]

-----------------------------------------------------------------------------
\* An interrupt routine preempts the task of its own core until it returns.
Runs(c, l) == isrOn[c] <=> (l = "isr")

\* Context l of core c is neither inside a section nor inside the two functions.
Outside(c, l) == depth[c][l] = 0 /\ pc[c][l] = "run"

\* An interrupt is taken, unless the task has masked it.
IsrEnter(c) ==
    /\ ~ isrOn[c]
    /\ c \in MaskedTasks => Outside(c, "task")
    /\ isrOn' = [isrOn EXCEPT ![c] = TRUE]
    /\ UNCHANGED <<owner, counter, pc, depth>>

IsrExit(c) ==
    /\ isrOn[c] /\ Outside(c, "isr")
    /\ isrOn' = [isrOn EXCEPT ![c] = FALSE]
    /\ UNCHANGED <<owner, counter, pc, depth>>

\* rtos_lock_acquire: lock_acquire blocks while another core owns the lock.
AcquireHw(c, l) ==
    /\ Runs(c, l) /\ pc[c][l] = "run" /\ depth[c][l] < MaxDepth
    /\ owner \in {None, c}
    /\ owner' = c
    /\ pc' = [pc EXCEPT ![c][l] = "acquired"]
    /\ UNCHANGED <<counter, isrOn, depth>>

\* rtos_lock_acquire: rtos_lock_counters[lock_id]++, and the caller is inside.
AcquireCount(c, l) ==
    /\ Runs(c, l) /\ pc[c][l] = "acquired"
    /\ counter' = counter + 1
    /\ depth' = [depth EXCEPT ![c][l] = @ + 1]
    /\ pc' = [pc EXCEPT ![c][l] = "run"]
    /\ UNCHANGED <<owner, isrOn>>

\* Mutant of ReleaseCount: every release gives the hardware lock back.
ReleaseCountAlways(c, l) ==
    /\ Runs(c, l) /\ pc[c][l] = "run" /\ depth[c][l] > 0
    /\ counter' = counter - 1
    /\ depth' = [depth EXCEPT ![c][l] = @ - 1]
    /\ pc' = [pc EXCEPT ![c][l] = "releasing"]
    /\ UNCHANGED <<owner, isrOn>>

\* Mutant of ReleaseCount: the counter is compared before it is decremented.
ReleaseCountPostDecrement(c, l) ==
    /\ Runs(c, l) /\ pc[c][l] = "run" /\ depth[c][l] > 0
    /\ counter' = counter - 1
    /\ depth' = [depth EXCEPT ![c][l] = @ - 1]
    /\ pc' = [pc EXCEPT ![c][l] = IF counter = 0 THEN "releasing" ELSE "run"]
    /\ UNCHANGED <<owner, isrOn>>

\* rtos_lock_release: the counter goes down; only zero releases the hardware lock.
ReleaseCount(c, l) ==
    /\ Runs(c, l) /\ pc[c][l] = "run" /\ depth[c][l] > 0
    /\ counter' = counter - 1
    /\ depth' = [depth EXCEPT ![c][l] = @ - 1]
    /\ pc' = [pc EXCEPT ![c][l] = IF counter = 1 THEN "releasing" ELSE "run"]
    /\ UNCHANGED <<owner, isrOn>>

\* rtos_lock_release: lock_release.
ReleaseHw(c, l) ==
    /\ Runs(c, l) /\ pc[c][l] = "releasing"
    /\ owner' = None
    /\ pc' = [pc EXCEPT ![c][l] = "run"]
    /\ UNCHANGED <<counter, isrOn, depth>>

\* A core takes a step of one of its contexts.
ContextStep(c, l) ==
    \/ AcquireHw(c, l)
    \/ AcquireCount(c, l)
    \/ ReleaseCount(c, l)
    \/ ReleaseHw(c, l)

Next ==
    \E c \in Cores :
        \/ IsrEnter(c)
        \/ IsrExit(c)
        \/ \E l \in Levels : ContextStep(c, l)

Spec == Init /\ [][Next]_vars

-----------------------------------------------------------------------------
\* A core is inside a section protected by the lock.
InSection(c) == \E l \in Levels : depth[c][l] > 0

\* Two cores are never both between rtos_lock_acquire and rtos_lock_release,
\* which is what every "atomically" of rtos_irq, rtos_core_register and
\* rtos_time rests on.  A task and the interrupt routine of its own core may
\* nest.
MutualExclusion ==
    \A c, d \in Cores : InSection(c) /\ InSection(d) => c = d

\* The hardware lock is never left owned by a core that has left
\* rtos_lock_acquire and rtos_lock_release and is in no section: nobody would
\* ever release it, and every other core would block in lock_acquire.
NotOrphaned ==
    \A c \in Cores : owner = c => \E l \in Levels : ~ Outside(c, l)
=============================================================================
