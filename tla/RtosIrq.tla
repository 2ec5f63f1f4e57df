------------------------------ MODULE RtosIrq ------------------------------
(***************************************************************************)
(* Interrupts between the cores of one tile, and from peripheral threads   *)
(* to the cores: rtos_support/src/rtos_irq.c, with the core registration   *)
(* of rtos_cores.c that it rests on.                                       *)
(*                                                                         *)
(* An RTOS core registers itself, enables its IRQ channel end and then     *)
(* interrupts other cores; a peripheral registers a source and an ISR and  *)
(* then interrupts cores.  Sections under rtos_lock 0 take the lock lock0, *)
(* whose mutual exclusion module RtosLocks is about; a section that other  *)
(* threads cannot tell from an atomic one is a single step.                *)
(*                                                                         *)
(* A core calls rtos_irq with its own interrupts masked (the kernel yields *)
(* other cores from its critical sections and from interrupt routines), so *)
(* the handler never preempts a call of its own core.                      *)
(***************************************************************************)
EXTENDS Integers, FiniteSets

CONSTANTS
    LogicalCores,           \* the hardware threads that run the RTOS
    Peripherals,            \* the non-RTOS threads that send IRQs
    RTOS_MAX_CORE_COUNT,    \* source ids below it are cores
    MAX_ADDITIONAL_SOURCES, \* how many peripherals can register
    None

Threads == LogicalCores \cup Peripherals
total_rtos_cores == Cardinality(LogicalCores)

ASSUME ThreadsAssumption ==
    /\ IsFiniteSet(LogicalCores)
    /\ LogicalCores \cap Peripherals = {}
    /\ None \notin Threads
ASSUME LimitsAssumption ==
    /\ RTOS_MAX_CORE_COUNT \in Nat
    /\ MAX_ADDITIONAL_SOURCES \in Nat
    /\ total_rtos_cores <= RTOS_MAX_CORE_COUNT

CoreIds == 0..(RTOS_MAX_CORE_COUNT - 1)
CoreSources == CoreIds
Slots == 0..(MAX_ADDITIONAL_SOURCES - 1)

VARIABLES
    lock0,                   \* the thread that holds rtos_lock 0
    rtos_core_init_count,    \* cores registered so far
    rtos_core_map,           \* logical core -> RTOS core id
    rtos_core_map_reverse,   \* RTOS core id -> logical core
    boot,                    \* start-up of every core
    rtos_irq_chanend,        \* core id -> channel end allocated, trigger enabled
    irq_enable_bf,           \* core ids whose IRQ is enabled
    irq_ready,
    peripheral_source_count,
    isr_info,                \* slot -> the peripheral whose ISR it holds
    reg,                     \* reg[p]: progress of rtos_irq_register, and the id
    irq_pending,             \* core id -> set of pending source ids
    tokens,                  \* core id -> end tokens waiting in its channel end
    call,                    \* call[t]: the rtos_irq call of thread t
    handler                  \* handler[l]: rtos_irq_handler on core l

coreVars == <<rtos_core_init_count, rtos_core_map, rtos_core_map_reverse>>
enableVars == <<rtos_irq_chanend, irq_enable_bf, irq_ready>>
regVars == <<peripheral_source_count, isr_info, reg>>
vars == <<lock0, coreVars, boot, enableVars, regVars, irq_pending, tokens,
          call, handler>>

\* The id rtos_irq_register returned to peripheral p.
SourceOf(p) == RTOS_MAX_CORE_COUNT + reg[p].id

NoCall == [pc |-> "idle", core |-> 0, source |-> 0, first |-> FALSE]
NoHandler == [pc |-> "idle", pending |-> {}, current |-> None]

Init ==
    /\ lock0 = None
    /\ rtos_core_init_count = 0
    /\ rtos_core_map = [l \in LogicalCores |-> 0]
    /\ rtos_core_map_reverse = [i \in CoreIds |-> None]
    /\ boot = [l \in LogicalCores |-> "start"]
    /\ rtos_irq_chanend = [i \in CoreIds |-> FALSE]
    /\ irq_enable_bf = {}
    /\ irq_ready = FALSE
    /\ peripheral_source_count = 0
    /\ isr_info = [k \in Slots |-> None]
    /\ reg = [p \in Peripherals |-> [pc |-> "start", id |-> 0]]
    /\ irq_pending = [i \in CoreIds |-> {}]
    /\ tokens = [i \in CoreIds |-> 0]
    /\ call = [t \in Threads |-> NoCall]
    /\ handler = [l \in LogicalCores |-> NoHandler]

-----------------------------------------------------------------------------
(* Start-up of the cores.                                                  *)

\* rtos_core_register: the next id, and both maps, under the lock.
rtos_core_register(l) ==
    /\ boot[l] = "start" /\ lock0 = None
    /\ rtos_core_map' = [rtos_core_map EXCEPT ![l] = rtos_core_init_count]
    /\ rtos_core_map_reverse' =
           [rtos_core_map_reverse EXCEPT ![rtos_core_init_count] = l]
    /\ rtos_core_init_count' = rtos_core_init_count + 1
    /\ boot' = [boot EXCEPT ![l] = "registered"]
    /\ UNCHANGED <<lock0, enableVars, regVars, irq_pending, tokens, call, handler>>

\* rtos_core_id_get
CoreId(l) == rtos_core_map[l]

\* rtos_irq_enable, before the lock: channel end, callback and trigger.
EnableChanend(l) ==
    /\ boot[l] = "registered"
    /\ rtos_irq_chanend' = [rtos_irq_chanend EXCEPT ![CoreId(l)] = TRUE]
    /\ boot' = [boot EXCEPT ![l] = "allocated"]
    /\ UNCHANGED <<lock0, coreVars, irq_enable_bf, irq_ready, regVars,
                   irq_pending, tokens, call, handler>>

\* Mutant of EnableReady: ready as soon as every registered core is enabled.
EnableReadyEarly(l) ==
    /\ boot[l] = "allocated" /\ lock0 = None
    /\ irq_enable_bf' = irq_enable_bf \cup {CoreId(l)}
    /\ irq_ready' = (irq_ready \/ irq_enable_bf' = 0..(rtos_core_init_count - 1))
    /\ boot' = [boot EXCEPT ![l] = "enabled"]
    /\ UNCHANGED <<lock0, coreVars, rtos_irq_chanend, regVars, irq_pending,
                   tokens, call, handler>>

\* rtos_irq_enable, under the lock: the last core makes the system ready.
EnableReady(l) ==
    /\ boot[l] = "allocated" /\ lock0 = None
    /\ irq_enable_bf' = irq_enable_bf \cup {CoreId(l)}
    /\ irq_ready' = (irq_ready \/ irq_enable_bf' = 0..(total_rtos_cores - 1))
    /\ boot' = [boot EXCEPT ![l] = "enabled"]
    /\ UNCHANGED <<lock0, coreVars, rtos_irq_chanend, regVars, irq_pending,
                   tokens, call, handler>>

-----------------------------------------------------------------------------
(* rtos_irq_register.                                                      *)

\* The xassert on the limit, before the lock is taken.
RegisterCheck(p) ==
    /\ reg[p].pc = "start"
    /\ peripheral_source_count < MAX_ADDITIONAL_SOURCES
    /\ reg' = [reg EXCEPT ![p].pc = "checked"]
    /\ UNCHANGED <<lock0, coreVars, boot, enableVars, peripheral_source_count,
                   isr_info, irq_pending, tokens, call, handler>>

\* source_id = peripheral_source_count++ under the lock.
RegisterCount(p) ==
    /\ reg[p].pc = "checked" /\ lock0 = None
    /\ reg' = [reg EXCEPT ![p] = [pc |-> "counted", id |-> peripheral_source_count]]
    /\ peripheral_source_count' = peripheral_source_count + 1
    /\ UNCHANGED <<lock0, coreVars, boot, enableVars, isr_info, irq_pending,
                   tokens, call, handler>>

\* Mutant of RegisterFill: the id is handed out before the ISR is in place.
RegisterFillLater(p) ==
    /\ reg[p].pc = "counted"
    /\ reg' = [reg EXCEPT ![p].pc = "done"]
    /\ UNCHANGED <<lock0, coreVars, boot, enableVars, peripheral_source_count,
                   isr_info, irq_pending, tokens, call, handler>>

\* The ISR, its data and the channel end, after the lock; a slot beyond the
\* array is some other memory.
RegisterFill(p) ==
    /\ reg[p].pc = "counted"
    /\ isr_info' = [k \in Slots |-> IF k = reg[p].id THEN p ELSE isr_info[k]]
    /\ reg' = [reg EXCEPT ![p].pc = "done"]
    /\ UNCHANGED <<lock0, coreVars, boot, enableVars, peripheral_source_count,
                   irq_pending, tokens, call, handler>>

-----------------------------------------------------------------------------
(* rtos_irq.                                                               *)

\* Who may call: a core whose tile is ready, from its kernel or from an ISR
\* that the handler runs; a peripheral that has its id.
MayCall(t) ==
    /\ call[t].pc = "idle" /\ irq_ready
    /\ \/ t \in LogicalCores /\ handler[t].pc \in {"idle", "isr"}
       \/ t \in Peripherals /\ reg[t].pc = "done"

Source(t) == IF t \in LogicalCores THEN CoreId(t) ELSE SourceOf(t)

\* Mutant of IrqMark: the flags are read after the flag of the source is set.
IrqMarkSwapped(t) ==
    /\ MayCall(t) /\ lock0 = None
    /\ lock0' = t
    /\ \E c \in 0..(rtos_core_init_count - 1) :
        /\ irq_pending' = [irq_pending EXCEPT ![c] = @ \cup {Source(t)}]
        /\ call' = [call EXCEPT ![t] = [pc |-> "marked", core |-> c,
                       source |-> Source(t), first |-> irq_pending'[c] = {}]]
    /\ UNCHANGED <<coreVars, boot, enableVars, regVars, tokens, handler>>

\* The lock is taken, the flags are read and the flag of the source is set.
IrqMark(t) ==
    /\ MayCall(t) /\ lock0 = None
    /\ lock0' = t
    /\ \E c \in 0..(rtos_core_init_count - 1) :
        /\ call' = [call EXCEPT ![t] = [pc |-> "marked", core |-> c,
                       source |-> Source(t), first |-> irq_pending[c] = {}]]
        /\ irq_pending' = [irq_pending EXCEPT ![c] = @ \cup {Source(t)}]
    /\ UNCHANGED <<coreVars, boot, enableVars, regVars, tokens, handler>>

\* The first flag sends an end token to the core; then the lock is released.
IrqSend(t) ==
    /\ call[t].pc = "marked"
    /\ tokens' = [tokens EXCEPT ![call[t].core] =
                      IF call[t].first THEN @ + 1 ELSE @]
    /\ lock0' = None
    /\ call' = [call EXCEPT ![t] = NoCall]
    /\ UNCHANGED <<coreVars, boot, enableVars, regVars, irq_pending, handler>>

-----------------------------------------------------------------------------
(* rtos_irq_handler.                                                       *)

\* A token triggers the interrupt; the handler consumes it first.
HandlerEnter(l) ==
    /\ handler[l].pc = "idle" /\ call[l].pc = "idle"
    /\ boot[l] \in {"allocated", "enabled"}
    /\ tokens[CoreId(l)] > 0
    /\ tokens' = [tokens EXCEPT ![CoreId(l)] = @ - 1]
    /\ handler' = [handler EXCEPT ![l].pc = "entered"]
    /\ UNCHANGED <<lock0, coreVars, boot, enableVars, regVars, irq_pending, call>>

\* Mutant of HandlerRead: the snapshot is taken without the lock.
HandlerReadUnlocked(l) ==
    /\ handler[l].pc = "entered"
    /\ handler' = [handler EXCEPT ![l] =
           [pc |-> "read", pending |-> irq_pending[CoreId(l)], current |-> None]]
    /\ UNCHANGED <<lock0, coreVars, boot, enableVars, regVars, irq_pending,
                   tokens, call>>

\* Under the lock, the snapshot of the flags ...
HandlerRead(l) ==
    /\ handler[l].pc = "entered" /\ lock0 = None
    /\ lock0' = l
    /\ handler' = [handler EXCEPT ![l] =
           [pc |-> "read", pending |-> irq_pending[CoreId(l)], current |-> None]]
    /\ UNCHANGED <<coreVars, boot, enableVars, regVars, irq_pending, tokens, call>>

\* ... and their reset; from here on the core may be interrupted again.
HandlerClear(l) ==
    /\ handler[l].pc = "read"
    /\ irq_pending' = [irq_pending EXCEPT ![CoreId(l)] = {}]
    /\ lock0' = None
    /\ handler' = [handler EXCEPT ![l].pc = "dispatch"]
    /\ UNCHANGED <<coreVars, boot, enableVars, regVars, tokens, call>>

\* Mutant of HandlerCores: the flags of the peripherals go with the cores'.
HandlerCoresAll(l) ==
    /\ handler[l].pc = "dispatch" /\ handler[l].pending \cap CoreSources # {}
    /\ handler' = [handler EXCEPT ![l] =
           [pc |-> "isr", pending |-> {}, current |-> CoreId(l)]]
    /\ UNCHANGED <<lock0, coreVars, boot, enableVars, regVars, irq_pending,
                   tokens, call>>

\* All the cores of the snapshot are served by one entry into the scheduler.
HandlerCores(l) ==
    /\ handler[l].pc = "dispatch" /\ handler[l].pending \cap CoreSources # {}
    /\ handler' = [handler EXCEPT ![l] =
           [pc |-> "isr", pending |-> handler[l].pending \ CoreSources,
            current |-> CoreId(l)]]
    /\ UNCHANGED <<lock0, coreVars, boot, enableVars, regVars, irq_pending,
                   tokens, call>>

\* Then the peripherals, the highest source id first.
HandlerPeripheral(l) ==
    /\ handler[l].pc = "dispatch" /\ handler[l].pending \cap CoreSources = {}
    /\ \E s \in handler[l].pending :
        /\ \A r \in handler[l].pending : r <= s
        /\ handler' = [handler EXCEPT ![l] =
               [pc |-> "isr", pending |-> handler[l].pending \ {s}, current |-> s]]
    /\ UNCHANGED <<lock0, coreVars, boot, enableVars, regVars, irq_pending,
                   tokens, call>>

\* The routine returns, once the calls it made have returned.
HandlerIsrReturn(l) ==
    /\ handler[l].pc = "isr" /\ call[l].pc = "idle"
    /\ handler' = [handler EXCEPT ![l] =
           [pc |-> "dispatch", pending |-> handler[l].pending, current |-> None]]
    /\ UNCHANGED <<lock0, coreVars, boot, enableVars, regVars, irq_pending,
                   tokens, call>>

HandlerExit(l) ==
    /\ handler[l].pc = "dispatch" /\ handler[l].pending = {}
    /\ handler' = [handler EXCEPT ![l] = NoHandler]
    /\ UNCHANGED <<lock0, coreVars, boot, enableVars, regVars, irq_pending,
                   tokens, call>>

-----------------------------------------------------------------------------
CoreStep(l) ==
    \/ rtos_core_register(l)
    \/ EnableChanend(l)
    \/ EnableReady(l)
    \/ HandlerEnter(l)
    \/ HandlerRead(l)
    \/ HandlerClear(l)
    \/ HandlerCores(l)
    \/ HandlerPeripheral(l)
    \/ HandlerIsrReturn(l)
    \/ HandlerExit(l)

RegisterStep(p) ==
    \/ RegisterCheck(p)
    \/ RegisterCount(p)
    \/ RegisterFill(p)

Next ==
    \/ \E l \in LogicalCores : CoreStep(l)
    \/ \E p \in Peripherals : RegisterStep(p)
    \/ \E t \in Threads : IrqMark(t) \/ IrqSend(t)

Spec == Init /\ [][Next]_vars

\* Every thread that can run does, a waiting thread is served by the hardware
\* lock, and a pending interrupt is taken once the core unmasks it.  Nothing
\* says that a thread ever calls rtos_irq.
Fairness ==
    /\ \A l \in LogicalCores :
        /\ WF_vars(HandlerClear(l))
        /\ WF_vars(HandlerCores(l) \/ HandlerPeripheral(l))
        /\ WF_vars(HandlerExit(l))
        /\ SF_vars(HandlerIsrReturn(l))
        /\ SF_vars(HandlerRead(l))
        /\ SF_vars(HandlerEnter(l))
    /\ \A t \in Threads : WF_vars(IrqSend(t))

FairSpec == Spec /\ Fairness

-----------------------------------------------------------------------------
CallType == [pc : {"idle", "marked"}, core : CoreIds \cup {0}, source : Nat,
             first : BOOLEAN]
HandlerType == [pc : {"idle", "entered", "read", "dispatch", "isr"},
                pending : SUBSET Nat, current : Nat \cup {None}]
RegisterType == [pc : {"start", "checked", "counted", "done"}, id : Nat]

CoresTypeOK ==
    /\ lock0 \in Threads \cup {None}
    /\ rtos_core_init_count \in 0..total_rtos_cores
    /\ rtos_core_map \in [LogicalCores -> CoreIds \cup {0}]
    /\ rtos_core_map_reverse \in [CoreIds -> LogicalCores \cup {None}]
    /\ boot \in [LogicalCores -> {"start", "registered", "allocated", "enabled"}]
    /\ irq_enable_bf \subseteq CoreIds

ReadyTypeOK ==
    /\ rtos_irq_chanend \in [CoreIds -> BOOLEAN]
    /\ irq_ready \in BOOLEAN

SourcesTypeOK ==
    /\ peripheral_source_count \in Nat
    /\ isr_info \in [Slots -> Peripherals \cup {None}]
    /\ reg \in [Peripherals -> RegisterType]

FlagsTypeOK ==
    /\ irq_pending \in [CoreIds -> SUBSET Nat]
    /\ tokens \in [CoreIds -> Nat]
    /\ handler \in [LogicalCores -> HandlerType]

TypeOK ==
    /\ CoresTypeOK
    /\ ReadyTypeOK
    /\ SourcesTypeOK
    /\ FlagsTypeOK
    /\ call \in [Threads -> CallType]

\* The handler's xassert: an interrupt is only taken with a flag pending, and
\* between the token and the reset the flags do not vanish.  Two tokens for
\* one set of flags, or a reset of flags somebody has not announced yet, would
\* stop the core.
PendingWhenHandled ==
    \A l \in LogicalCores :
        boot[l] # "start" /\ (tokens[CoreId(l)] > 0
                              \/ handler[l].pc \in {"entered", "read"})
            => irq_pending[CoreId(l)] # {}

\* A flag that is set is announced: a token is on its way, its sender is about
\* to send it, or the handler has it and has not reset the flags yet.
\* Otherwise the IRQ, and every later one to that core, would be lost.
NoLostIrq ==
    \A l \in LogicalCores :
        boot[l] # "start" /\ irq_pending[CoreId(l)] # {} =>
            \/ tokens[CoreId(l)] > 0
            \/ handler[l].pc \in {"entered", "read"}
            \/ \E t \in Threads : call[t].pc = "marked" /\ call[t].first
                                   /\ call[t].core = CoreId(l)

\* No flag is reset that the handler has not seen: what a step removes from the
\* flags of a core is in the snapshot its handler is about to serve.  A call
\* of rtos_irq between the snapshot and the reset would be lost for good.
NoFlagDropped ==
    [][\A l \in LogicalCores : boot[l] # "start" =>
            irq_pending[CoreId(l)] \ irq_pending'[CoreId(l)]
                \subseteq handler'[l].pending]_vars

\* Every source the handler dispatches has its ISR in place, so that no
\* interrupt is dropped by the test for NULL, and it is the ISR that the
\* interrupting peripheral registered.
DispatchFindsIsr ==
    \A l \in LogicalCores : \A s \in handler[l].pending \ CoreSources :
        \E p \in Peripherals :
            /\ SourceOf(p) = s /\ reg[p].pc = "done"
            /\ isr_info[reg[p].id] = p

\* Once rtos_irq_ready says so, every RTOS core can receive: a caller that
\* waits for it never sends to a channel end that is not set up.
ReadyMeansEnabled ==
    irq_ready => \A l \in LogicalCores :
                    boot[l] # "start" /\ rtos_irq_chanend[CoreId(l)]

\* The core ids the handler, the scheduler and the drivers index with are
\* distinct, and the two maps invert each other.
CoreMapsInverse ==
    \A l \in LogicalCores :
        boot[l] # "start" => /\ CoreId(l) < rtos_core_init_count
                            /\ rtos_core_map_reverse[CoreId(l)] = l

\* rtos_irq_register's xassert says every source gets a slot of the arrays.
RegisteredInRange ==
    \A p \in Peripherals :
        reg[p].pc \in {"counted", "done"} => reg[p].id \in Slots

\* Every IRQ is delivered: a source whose flag is set has its ISR (or, for a
\* core, the scheduler) run on the interrupted core.
Delivered ==
    \A l \in LogicalCores, t \in Threads :
        (boot[l] # "start" /\ call[t].pc = "marked" /\ call[t].core = CoreId(l))
            ~> /\ handler[l].pc = "isr"
               /\ \/ t \in LogicalCores /\ handler[l].current \in CoreSources
                  \/ t \in Peripherals /\ handler[l].current = SourceOf(t)
=============================================================================
