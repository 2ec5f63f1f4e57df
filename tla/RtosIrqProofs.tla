--------------------------- MODULE RtosIrqProofs ---------------------------
(***************************************************************************)
(* What RtosIrq guarantees for any number of cores and peripherals: no     *)
(* interrupt between cores is lost, none is taken twice, and the core ids  *)
(* are sound from the first registration on.                               *)
(***************************************************************************)
EXTENDS RtosIrq, FiniteSetTheorems, TLAPS

Registered == {l \in LogicalCores : boot[l] # "start"}

\* The ids handed out so far are counted, and no id that is not handed out is
\* in use.
IdsCounted ==
    /\ rtos_core_init_count = Cardinality(Registered)
    /\ \A i \in CoreIds : i >= rtos_core_init_count =>
           tokens[i] = 0 /\ irq_pending[i] = {}
    /\ \A t \in Threads :
           call[t].pc = "marked" => call[t].core < rtos_core_init_count
    /\ \A l \in LogicalCores :
           handler[l].pc # "idle" => boot[l] \in {"allocated", "enabled"}

\* Whoever is inside a section of lock 0 holds it, and is in one only.
LockHeld ==
    /\ \A t \in Threads : call[t].pc = "marked" => lock0 = t
    /\ \A l \in LogicalCores :
           handler[l].pc = "read" => lock0 = l /\ call[l].pc # "marked"

\* The call of t has set the first flag of core i and not yet sent the token.
FirstMark(t, i) == call[t].pc = "marked" /\ call[t].first /\ call[t].core = i

Handling(l) == handler[l].pc \in {"entered", "read"}

\* A set of flags is announced exactly once: by the sender that is about to
\* send the token, by the token, or by the handler that has taken it.
Announced(l) ==
    /\ tokens[CoreId(l)] \in {0, 1}
    /\ tokens[CoreId(l)] = 1 => irq_pending[CoreId(l)] # {} /\ ~ Handling(l)
    /\ Handling(l) => irq_pending[CoreId(l)] # {}
    /\ \A t \in Threads : FirstMark(t, CoreId(l)) =>
           irq_pending[CoreId(l)] # {} /\ tokens[CoreId(l)] = 0 /\ ~ Handling(l)
    /\ irq_pending[CoreId(l)] # {} =>
           \/ tokens[CoreId(l)] = 1
           \/ Handling(l)
           \/ \E t \in Threads : FirstMark(t, CoreId(l))

AnnouncedOnce == \A l \in LogicalCores : boot[l] # "start" => Announced(l)

\* What the handler read is still what is pending when it resets the flags.
SnapshotExact ==
    \A l \in LogicalCores :
        handler[l].pc = "read" => handler[l].pending = irq_pending[CoreId(l)]

\* An enabled id belongs to an enabled core, and its channel end is set up.
EnabledIds ==
    /\ \A i \in irq_enable_bf :
           \E l \in LogicalCores : boot[l] = "enabled" /\ CoreId(l) = i
    /\ \A l \in LogicalCores :
           boot[l] \in {"allocated", "enabled"} => rtos_irq_chanend[CoreId(l)]
    /\ irq_ready => \A l \in LogicalCores : boot[l] = "enabled"

\* The inductive invariant.
IrqInv ==
    /\ TypeOK
    /\ CoreMapsInverse
    /\ IdsCounted
    /\ LockHeld
    /\ AnnouncedOnce
    /\ SnapshotExact
    /\ EnabledIds

-----------------------------------------------------------------------------
\* The number of cores is a number the ids can reach.
LEMMA CoreTotal == total_rtos_cores \in Nat /\ total_rtos_cores <= RTOS_MAX_CORE_COUNT
  BY ThreadsAssumption, LimitsAssumption, FS_CardinalityType DEF total_rtos_cores

\* The id of a registered core is an index of the arrays, and its own.
LEMMA CoreIdFacts ==
    ASSUME TypeOK, CoreMapsInverse
    PROVE  /\ \A l \in LogicalCores : boot[l] # "start" =>
                CoreId(l) \in CoreIds /\ CoreId(l) < rtos_core_init_count
           /\ \A l, m \in LogicalCores :
                boot[l] # "start" /\ boot[m] # "start" /\ CoreId(l) = CoreId(m)
                    => l = m
  BY CoreTotal, LimitsAssumption
     DEF TypeOK, CoresTypeOK, CoreMapsInverse, CoreId, CoreIds

\* The start state satisfies the invariant.
LEMMA IrqInit == Init => IrqInv
  <1> SUFFICES ASSUME Init PROVE IrqInv
      OBVIOUS
  <1> USE DEF Init
  <1>1. TypeOK
    <2>1. CoresTypeOK
        BY CoreTotal DEF CoresTypeOK
    <2>2. ReadyTypeOK
        BY DEF ReadyTypeOK
    <2>3. SourcesTypeOK
        BY DEF SourcesTypeOK, RegisterType
    <2>4. FlagsTypeOK
        BY DEF FlagsTypeOK, HandlerType, NoHandler
    <2>5. NoCall \in CallType
        BY DEF NoCall, CallType
    <2> QED
        BY <2>1, <2>2, <2>3, <2>4, <2>5 DEF TypeOK
  <1>2. Registered = {}
      BY DEF Registered
  <1>3. IdsCounted
      BY <1>2, FS_EmptySet DEF IdsCounted, NoCall, NoHandler, CoreIds
  <1>4. CoreMapsInverse /\ AnnouncedOnce
      BY DEF CoreMapsInverse, AnnouncedOnce
  <1>5. LockHeld /\ SnapshotExact /\ EnabledIds
      BY DEF LockHeld, SnapshotExact, EnabledIds, NoCall, NoHandler
  <1> QED
      BY <1>1, <1>3, <1>4, <1>5 DEF IrqInv

\* rtos_core_register
LEMMA RegisterCoreStep ==
    ASSUME IrqInv, NEW l \in LogicalCores, rtos_core_register(l)
    PROVE  IrqInv'
  <1> USE DEF IrqInv, TypeOK, CoresTypeOK, rtos_core_register
  <1>1. IsFiniteSet(Registered) /\ l \notin Registered
        /\ Registered' = Registered \cup {l} /\ Registered' \subseteq LogicalCores
      BY ThreadsAssumption, FS_Subset DEF Registered
  <1>2. rtos_core_init_count' = Cardinality(Registered')
      BY <1>1, FS_AddElement DEF IdsCounted
  <1>3. Cardinality(Registered') <= total_rtos_cores
      BY <1>1, ThreadsAssumption, FS_Subset DEF total_rtos_cores
  <1>4. rtos_core_init_count \in CoreIds
      BY <1>2, <1>3, CoreTotal, LimitsAssumption DEF CoreIds
  <1>5. TypeOK'
    <2>1. CoresTypeOK'
        BY <1>2, <1>3, <1>4, CoreTotal DEF enableVars
    <2> QED
        BY <2>1 DEF ReadyTypeOK, SourcesTypeOK, FlagsTypeOK, enableVars, regVars
  <1>6. CoreMapsInverse'
    <2> SUFFICES ASSUME NEW m \in LogicalCores, boot'[m] # "start"
                 PROVE  /\ rtos_core_map'[m] < rtos_core_init_count'
                        /\ rtos_core_map_reverse'[rtos_core_map'[m]] = m
        BY DEF CoreMapsInverse, CoreId
    <2>1. CASE m = l
        BY <1>4, <2>1 DEF CoreIds
    <2>2. CASE m # l
        BY <1>4, <2>2, CoreIdFacts DEF CoreIds, CoreMapsInverse, CoreId
    <2> QED
        BY <2>1, <2>2
  <1>7. IdsCounted'
    <2>1. \A i \in CoreIds : i >= rtos_core_init_count' => i >= rtos_core_init_count
        BY CoreTotal DEF CoreIds
    <2>2. \A t \in Threads : call[t].pc = "marked" => call[t].core < rtos_core_init_count'
        BY CoreTotal DEF IdsCounted, CallType, CoreIds
    <2>3. \A m \in LogicalCores :
              handler[m].pc # "idle" => boot'[m] \in {"allocated", "enabled"}
        BY DEF IdsCounted
    <2> QED
        BY <1>2, <2>1, <2>2, <2>3 DEF IdsCounted
  <1>8. LockHeld'
      BY DEF LockHeld
  <1>9. AnnouncedOnce'
    <2> SUFFICES ASSUME NEW m \in LogicalCores, boot'[m] # "start"
                 PROVE  Announced(m)'
        BY DEF AnnouncedOnce
    <2>1. CASE m = l
        BY <1>4, <2>1 DEF Announced, IdsCounted, FirstMark, Handling, CoreId
    <2>2. CASE m # l
        BY <2>2 DEF AnnouncedOnce, Announced, FirstMark, Handling, CoreId
    <2> QED
        BY <2>1, <2>2
  <1>10. SnapshotExact' /\ EnabledIds'
      BY DEF SnapshotExact, EnabledIds, IdsCounted, CoreId, enableVars
  <1> QED
      BY <1>5, <1>6, <1>7, <1>8, <1>9, <1>10

\* rtos_irq_enable
LEMMA EnableStep ==
    ASSUME IrqInv, NEW l \in LogicalCores, EnableChanend(l) \/ EnableReady(l)
    PROVE  IrqInv'
  <1> USE DEF IrqInv
  <1> USE CoreIdFacts
  <1>1. CASE EnableChanend(l)
    <2> USE <1>1 DEF EnableChanend, coreVars, regVars
    <2>1. CoreId(l) \in CoreIds
        OBVIOUS
    <2>2. TypeOK'
      <3>1. CoresTypeOK'
          BY DEF TypeOK, CoresTypeOK
      <3>2. ReadyTypeOK'
          BY DEF TypeOK, ReadyTypeOK
      <3> QED
          BY <3>1, <3>2 DEF TypeOK, SourcesTypeOK, FlagsTypeOK
    <2>3. Registered' = Registered /\ CoreMapsInverse'
        BY DEF Registered, CoreMapsInverse, CoreId, TypeOK, CoresTypeOK
    <2>4. IdsCounted'
        BY <2>3 DEF IdsCounted, TypeOK, CoresTypeOK
    <2>5. LockHeld' /\ SnapshotExact'
        BY DEF LockHeld, SnapshotExact, CoreId
    <2>6. AnnouncedOnce'
        BY DEF AnnouncedOnce, Announced, FirstMark, Handling, CoreId, TypeOK, CoresTypeOK
    <2>7. EnabledIds'
        BY <2>1 DEF EnabledIds, CoreId, TypeOK, CoresTypeOK, ReadyTypeOK
    <2> QED
        BY <2>2, <2>3, <2>4, <2>5, <2>6, <2>7
  <1>2. CASE EnableReady(l)
    <2> USE <1>2 DEF EnableReady, coreVars, regVars
    <2>1. CoreId(l) \in CoreIds
        OBVIOUS
    <2>2. TypeOK'
      <3>1. CoresTypeOK'
          BY <2>1 DEF TypeOK, CoresTypeOK
      <3>2. ReadyTypeOK'
          BY DEF TypeOK, ReadyTypeOK
      <3> QED
          BY <3>1, <3>2 DEF TypeOK, SourcesTypeOK, FlagsTypeOK
    <2>3. Registered' = Registered /\ CoreMapsInverse'
        BY DEF Registered, CoreMapsInverse, CoreId, TypeOK, CoresTypeOK
    <2>4. IdsCounted'
        BY <2>3 DEF IdsCounted, TypeOK, CoresTypeOK
    <2>5. LockHeld' /\ SnapshotExact'
        BY DEF LockHeld, SnapshotExact, CoreId
    <2>6. AnnouncedOnce'
        BY DEF AnnouncedOnce, Announced, FirstMark, Handling, CoreId, TypeOK, CoresTypeOK
    <2>7. \A i \in irq_enable_bf' :
              \E m \in LogicalCores : boot'[m] = "enabled" /\ CoreId(m) = i
        BY DEF EnabledIds, TypeOK, CoresTypeOK
    <2>8. ASSUME irq_enable_bf' = 0..(total_rtos_cores - 1)
          PROVE  \A m \in LogicalCores : boot'[m] = "enabled"
      <3> DEFINE E == {m \in LogicalCores : boot'[m] = "enabled"}
                 f == [m \in E |-> CoreId(m)]
                 T == {f[m] : m \in E}
      <3>1. IsFiniteSet(E) /\ E \subseteq LogicalCores
            /\ Cardinality(E) <= total_rtos_cores
            /\ (Cardinality(E) = total_rtos_cores => E = LogicalCores)
          BY ThreadsAssumption, FS_Subset DEF total_rtos_cores
      <3>2. 0..(total_rtos_cores - 1) \subseteq T
          BY <2>7, <2>8
      <3>3. f \in Surjection(E, T)
          BY DEF Surjection
      <3>4. IsFiniteSet(T) /\ Cardinality(T) <= Cardinality(E)
          BY <3>1, <3>3, FS_Surjection
      <3>5. Cardinality(0..(total_rtos_cores - 1)) = total_rtos_cores
          BY CoreTotal, FS_Interval
      <3>6. Cardinality(0..(total_rtos_cores - 1)) <= Cardinality(T)
          BY <3>2, <3>4, FS_Subset
      <3>7. Cardinality(E) \in Nat /\ Cardinality(T) \in Nat
          BY <3>1, <3>4, FS_CardinalityType
      <3>8. E = LogicalCores
          BY <3>1, <3>4, <3>5, <3>6, <3>7, CoreTotal
      <3> QED
          BY <3>8
    <2>9. irq_ready' => \A m \in LogicalCores : boot'[m] = "enabled"
      <3>1. CASE irq_ready
          BY <3>1 DEF EnabledIds, TypeOK, CoresTypeOK
      <3>2. CASE irq_enable_bf' = 0..(total_rtos_cores - 1)
          BY <2>8, <3>2
      <3> QED
          BY <3>1, <3>2
    <2>10. \A m \in LogicalCores :
               boot'[m] \in {"allocated", "enabled"} => rtos_irq_chanend[CoreId(m)]
        BY DEF EnabledIds, TypeOK, CoresTypeOK
    <2>11. EnabledIds'
        BY <2>7, <2>9, <2>10 DEF EnabledIds, CoreId
    <2> QED
        BY <2>2, <2>3, <2>4, <2>5, <2>6, <2>11
  <1> QED
      BY <1>1, <1>2

\* rtos_irq_register touches nothing the cores' interrupts rest on.
LEMMA RegisterStepInv ==
    ASSUME IrqInv, NEW p \in Peripherals, RegisterStep(p)
    PROVE  IrqInv'
  <1> USE DEF IrqInv, RegisterStep, RegisterCheck, RegisterCount, RegisterFill,
              coreVars, enableVars
  <1>1. SourcesTypeOK'
    <2> USE DEF TypeOK, SourcesTypeOK, RegisterType
    <2>1. CASE RegisterCheck(p)
        BY <2>1
    <2>2. CASE RegisterCount(p)
        BY <2>2
    <2>3. CASE RegisterFill(p)
        BY <2>3
    <2> QED
        BY <2>1, <2>2, <2>3
  <1>2. TypeOK'
      BY <1>1 DEF TypeOK, CoresTypeOK, ReadyTypeOK, FlagsTypeOK
  <1>3. UNCHANGED <<boot, coreVars, enableVars, tokens, irq_pending, call, handler, lock0>>
      OBVIOUS
  <1>4. Registered' = Registered
      BY <1>3 DEF Registered
  <1>5. CoreMapsInverse' /\ IdsCounted' /\ LockHeld'
      BY <1>3, <1>4 DEF CoreMapsInverse, IdsCounted, LockHeld, CoreId
  <1>6. AnnouncedOnce' /\ SnapshotExact' /\ EnabledIds'
      BY <1>3 DEF AnnouncedOnce, Announced, FirstMark, Handling, SnapshotExact,
                  EnabledIds, CoreId
  <1> QED
      BY <1>2, <1>5, <1>6

\* rtos_irq: the flag is set under the lock.
LEMMA MarkStep ==
    ASSUME IrqInv, NEW t \in Threads, IrqMark(t)
    PROVE  IrqInv'
  <1> USE DEF IrqInv, IrqMark
  <1>1. PICK c \in 0..(rtos_core_init_count - 1) :
            /\ call' = [call EXCEPT ![t] = [pc |-> "marked", core |-> c,
                           source |-> Source(t), first |-> irq_pending[c] = {}]]
            /\ irq_pending' = [irq_pending EXCEPT ![c] = @ \cup {Source(t)}]
      OBVIOUS
  <1>2. c \in CoreIds /\ c < rtos_core_init_count
      BY CoreTotal, LimitsAssumption DEF TypeOK, CoresTypeOK, CoreIds
  <1>3. Source(t) \in Nat
    <2>1. CASE t \in LogicalCores
        BY <2>1 DEF Source, CoreId, TypeOK, CoresTypeOK, CoreIds
    <2>2. CASE t \notin LogicalCores
        BY <2>2, LimitsAssumption
           DEF Source, SourceOf, Threads, TypeOK, SourcesTypeOK, RegisterType
    <2> QED
        BY <2>1, <2>2
  <1>4. call' \in [Threads -> CallType]
    <2> DEFINE b == irq_pending[c] = {}
    <2>1. b \in BOOLEAN
        OBVIOUS
    <2> HIDE DEF b
    <2>2. [pc |-> "marked", core |-> c, source |-> Source(t), first |-> b] \in CallType
        BY <1>2, <1>3, <2>1 DEF CallType
    <2>3. call' = [call EXCEPT ![t] = [pc |-> "marked", core |-> c,
                                       source |-> Source(t), first |-> b]]
        BY <1>1 DEF b
    <2> QED
        BY <2>2, <2>3 DEF TypeOK
  <1>5. TypeOK'
    <2>1. CoresTypeOK' /\ FlagsTypeOK'
        BY <1>1, <1>3 DEF TypeOK, CoresTypeOK, FlagsTypeOK, coreVars, enableVars
    <2>2. ReadyTypeOK' /\ SourcesTypeOK'
        BY DEF TypeOK, ReadyTypeOK, SourcesTypeOK, enableVars, regVars
    <2> QED
        BY <1>4, <2>1, <2>2 DEF TypeOK
  <1>6. Registered' = Registered /\ CoreMapsInverse'
      BY DEF Registered, CoreMapsInverse, CoreId, coreVars
  <1>7. IdsCounted'
    <2>1. \A i \in CoreIds : i >= rtos_core_init_count => i # c
        BY <1>2, CoreTotal DEF CoreIds, TypeOK, CoresTypeOK
    <2>2. \A i \in CoreIds : i >= rtos_core_init_count =>
              tokens'[i] = 0 /\ irq_pending'[i] = {}
        BY <1>1, <2>1 DEF IdsCounted, TypeOK, FlagsTypeOK
    <2>3. \A u \in Threads : call'[u].pc = "marked" => call'[u].core < rtos_core_init_count
        BY <1>1, <1>2 DEF IdsCounted, TypeOK
    <2> QED
        BY <1>6, <2>2, <2>3 DEF IdsCounted, coreVars
  <1>8. LockHeld'
      BY <1>1, ThreadsAssumption DEF LockHeld, TypeOK, Threads
  <1>9. AnnouncedOnce'
    <2> SUFFICES ASSUME NEW m \in LogicalCores, boot[m] # "start"
                 PROVE  Announced(m)'
        BY DEF AnnouncedOnce
    <2>1. Announced(m) /\ CoreId(m) \in CoreIds /\ CoreId(m)' = CoreId(m)
        BY CoreIdFacts DEF AnnouncedOnce, CoreId, coreVars
    <2>2. \A u \in Threads \ {t} : call[u].pc # "marked"
        BY ThreadsAssumption DEF LockHeld
    <2>3. UNCHANGED <<tokens, handler>>
        OBVIOUS
    <2>4. CASE CoreId(m) # c
      <3>1. irq_pending'[CoreId(m)] = irq_pending[CoreId(m)]
          BY <1>1, <2>1, <2>4 DEF TypeOK, FlagsTypeOK
      <3>2. \A u \in Threads : ~ FirstMark(u, CoreId(m)) /\ ~ FirstMark(u, CoreId(m))'
          BY <1>1, <2>1, <2>2, <2>4 DEF FirstMark, MayCall, TypeOK
      <3> QED
          BY <2>1, <2>3, <3>1, <3>2 DEF Announced, Handling
    <2>5. CASE CoreId(m) = c
      <3>1. irq_pending'[c] # {}
          BY <1>1, <1>2 DEF TypeOK, FlagsTypeOK
      <3>2. \A u \in Threads : ~ FirstMark(u, c)
          BY <2>2 DEF FirstMark, MayCall
      <3>3. \A u \in Threads : FirstMark(u, c)' <=> u = t /\ irq_pending[c] = {}
          BY <1>1, <2>2 DEF FirstMark, TypeOK
      <3> QED
          BY <2>1, <2>3, <2>5, <3>1, <3>2, <3>3 DEF Announced, Handling
    <2> QED
        BY <2>4, <2>5
  <1>10. SnapshotExact' /\ EnabledIds'
      BY <1>1, ThreadsAssumption DEF SnapshotExact, LockHeld, EnabledIds, CoreId,
                                     Threads, coreVars, enableVars
  <1> QED
      BY <1>5, <1>6, <1>7, <1>8, <1>9, <1>10

\* rtos_irq: the token is sent for the first flag, and the lock released.
LEMMA SendStep ==
    ASSUME IrqInv, NEW t \in Threads, IrqSend(t)
    PROVE  IrqInv'
  <1> USE DEF IrqInv, IrqSend
  <1>1. call[t] \in CallType /\ call[t].core < rtos_core_init_count
        /\ call[t].core \in CoreIds /\ lock0 = t
      BY CoreTotal, LimitsAssumption
         DEF TypeOK, CoresTypeOK, CallType, IdsCounted, LockHeld, CoreIds
  <1>2. NoCall \in CallType
      BY DEF NoCall, CallType
  <1>3. \A u \in Threads \ {t} : call[u].pc # "marked"
      BY <1>1 DEF LockHeld
  <1>4. \A u \in Threads : call'[u].pc # "marked"
      BY <1>3 DEF NoCall, TypeOK
  <1>5. TypeOK'
    <2>1. tokens' \in [CoreIds -> Nat]
        BY <1>1 DEF TypeOK, FlagsTypeOK
    <2>2. CoresTypeOK'
        BY DEF TypeOK, CoresTypeOK, coreVars, enableVars
    <2> QED
        BY <1>2, <2>1, <2>2 DEF TypeOK, ReadyTypeOK, SourcesTypeOK, FlagsTypeOK,
                               enableVars, regVars
  <1>6. Registered' = Registered /\ CoreMapsInverse'
      BY DEF Registered, CoreMapsInverse, CoreId, coreVars
  <1>7. \A i \in CoreIds : i >= rtos_core_init_count => i # call[t].core
      BY <1>1, CoreTotal DEF CoreIds, TypeOK, CoresTypeOK
  <1>8. IdsCounted'
      BY <1>4, <1>6, <1>7 DEF IdsCounted, TypeOK, FlagsTypeOK, coreVars
  <1>9. LockHeld'
    <2>1. \A l \in LogicalCores : handler[l].pc # "read"
        BY <1>1 DEF LockHeld
    <2> QED
        BY <1>4, <2>1 DEF LockHeld
  <1>10. AnnouncedOnce'
    <2> SUFFICES ASSUME NEW m \in LogicalCores, boot[m] # "start"
                 PROVE  Announced(m)'
        BY DEF AnnouncedOnce
    <2>1. Announced(m) /\ CoreId(m) \in CoreIds /\ CoreId(m)' = CoreId(m)
        BY CoreIdFacts DEF AnnouncedOnce, CoreId, coreVars
    <2>2. \A u \in Threads : ~ FirstMark(u, CoreId(m))'
        BY <1>4 DEF FirstMark
    <2>3. UNCHANGED <<irq_pending, handler>>
        OBVIOUS
    <2>4. CASE FirstMark(t, CoreId(m))
      <3>1. tokens'[CoreId(m)] = tokens[CoreId(m)] + 1
          BY <2>1, <2>4 DEF FirstMark, TypeOK, FlagsTypeOK
      <3> QED
          BY <2>1, <2>2, <2>3, <2>4, <3>1 DEF Announced, Handling
    <2>5. CASE ~ FirstMark(t, CoreId(m))
      <3>1. tokens'[CoreId(m)] = tokens[CoreId(m)]
          BY <2>1, <2>5 DEF FirstMark, TypeOK, FlagsTypeOK
      <3>2. \A u \in Threads : ~ FirstMark(u, CoreId(m))
          BY <1>3, <2>5 DEF FirstMark
      <3> QED
          BY <2>1, <2>2, <2>3, <3>1, <3>2 DEF Announced, Handling
    <2> QED
        BY <2>4, <2>5
  <1>11. SnapshotExact' /\ EnabledIds'
      BY DEF SnapshotExact, EnabledIds, CoreId, coreVars, enableVars
  <1> QED
      BY <1>5, <1>6, <1>8, <1>9, <1>10, <1>11

\* rtos_irq_handler: the token is consumed.
LEMMA EnterStep ==
    ASSUME IrqInv, NEW l \in LogicalCores, HandlerEnter(l)
    PROVE  IrqInv'
  <1> USE DEF IrqInv, HandlerEnter
  <1>1. CoreId(l) \in CoreIds /\ CoreId(l) < rtos_core_init_count
        /\ Announced(l) /\ tokens[CoreId(l)] = 1
      BY CoreIdFacts DEF AnnouncedOnce, Announced
  <1>2. FlagsTypeOK'
      BY <1>1 DEF TypeOK, FlagsTypeOK, HandlerType
  <1>3. TypeOK'
      BY <1>2 DEF TypeOK, CoresTypeOK, ReadyTypeOK, SourcesTypeOK, coreVars,
                  enableVars, regVars
  <1>4. Registered' = Registered /\ CoreMapsInverse'
      BY DEF Registered, CoreMapsInverse, CoreId, coreVars
  <1>5. IdsCounted'
    <2>1. \A i \in CoreIds : i >= rtos_core_init_count => i # CoreId(l)
        BY <1>1, CoreTotal DEF CoreIds, TypeOK, CoresTypeOK
    <2> QED
        BY <1>4, <2>1 DEF IdsCounted, TypeOK, FlagsTypeOK, HandlerType, coreVars
  <1>6. LockHeld' /\ SnapshotExact'
      BY DEF LockHeld, SnapshotExact, CoreId, coreVars, TypeOK, FlagsTypeOK, HandlerType
  <1>7. AnnouncedOnce'
    <2> SUFFICES ASSUME NEW m \in LogicalCores, boot[m] # "start"
                 PROVE  Announced(m)'
        BY DEF AnnouncedOnce
    <2>1. Announced(m) /\ CoreId(m) \in CoreIds /\ CoreId(m)' = CoreId(m)
        BY CoreIdFacts DEF AnnouncedOnce, CoreId, coreVars
    <2>2. UNCHANGED <<irq_pending, call>>
        OBVIOUS
    <2>3. CASE m = l
      <3>1. tokens'[CoreId(m)] = 0 /\ Handling(m)'
          BY <1>1, <2>3 DEF Handling, TypeOK, FlagsTypeOK, HandlerType
      <3>2. \A u \in Threads : ~ FirstMark(u, CoreId(m))'
          BY <1>1, <2>1, <2>2, <2>3 DEF Announced, FirstMark
      <3> QED
          BY <1>1, <2>1, <2>2, <2>3, <3>1, <3>2 DEF Announced
    <2>4. CASE m # l
      <3>1. CoreId(m) # CoreId(l)
          BY <2>4, CoreIdFacts
      <3>2. tokens'[CoreId(m)] = tokens[CoreId(m)] /\ handler'[m] = handler[m]
          BY <1>1, <2>1, <2>4, <3>1 DEF TypeOK, FlagsTypeOK
      <3> QED
          BY <2>1, <2>2, <3>2 DEF Announced, Handling, FirstMark
    <2> QED
        BY <2>3, <2>4
  <1>8. EnabledIds'
      BY DEF EnabledIds, CoreId, coreVars, enableVars
  <1> QED
      BY <1>3, <1>4, <1>5, <1>6, <1>7, <1>8

\* rtos_irq_handler: the snapshot, under the lock.
LEMMA ReadStep ==
    ASSUME IrqInv, NEW l \in LogicalCores, HandlerRead(l)
    PROVE  IrqInv'
  <1> USE DEF IrqInv, HandlerRead
  <1>1. boot[l] # "start" /\ CoreId(l) \in CoreIds
      BY CoreIdFacts DEF IdsCounted
  <1>2. FlagsTypeOK'
      BY <1>1 DEF TypeOK, FlagsTypeOK, HandlerType
  <1>3. TypeOK'
    <2>1. CoresTypeOK'
        BY DEF TypeOK, CoresTypeOK, Threads, coreVars, enableVars
    <2> QED
        BY <1>2, <2>1 DEF TypeOK, ReadyTypeOK, SourcesTypeOK, enableVars, regVars
  <1>4. Registered' = Registered /\ CoreMapsInverse'
      BY DEF Registered, CoreMapsInverse, CoreId, coreVars
  <1>5. IdsCounted'
      BY <1>4 DEF IdsCounted, TypeOK, FlagsTypeOK, coreVars
  <1>6. LockHeld'
      BY ThreadsAssumption DEF LockHeld, TypeOK, FlagsTypeOK, Threads
  <1>7. AnnouncedOnce'
    <2>1. \A m \in LogicalCores : Handling(m)' <=> Handling(m)
        BY DEF Handling, TypeOK, FlagsTypeOK
    <2> QED
        BY <2>1 DEF AnnouncedOnce, Announced, FirstMark, CoreId, coreVars
  <1>8. SnapshotExact'
      BY DEF SnapshotExact, TypeOK, FlagsTypeOK, CoreId, coreVars
  <1>9. EnabledIds'
      BY DEF EnabledIds, CoreId, coreVars, enableVars
  <1> QED
      BY <1>3, <1>4, <1>5, <1>6, <1>7, <1>8, <1>9

\* rtos_irq_handler: the reset, and the release of the lock.
LEMMA ClearStep ==
    ASSUME IrqInv, NEW l \in LogicalCores, HandlerClear(l)
    PROVE  IrqInv'
  <1> USE DEF IrqInv, HandlerClear
  <1>1. boot[l] # "start" /\ CoreId(l) \in CoreIds /\ lock0 = l /\ Handling(l)
      BY CoreIdFacts DEF IdsCounted, LockHeld, Handling
  <1>2. FlagsTypeOK'
      BY <1>1 DEF TypeOK, FlagsTypeOK, HandlerType
  <1>3. TypeOK'
    <2>1. CoresTypeOK'
        BY DEF TypeOK, CoresTypeOK, coreVars, enableVars
    <2> QED
        BY <1>2, <2>1 DEF TypeOK, ReadyTypeOK, SourcesTypeOK, enableVars, regVars
  <1>4. Registered' = Registered /\ CoreMapsInverse'
      BY DEF Registered, CoreMapsInverse, CoreId, coreVars
  <1>5. IdsCounted'
      BY <1>1, <1>4 DEF IdsCounted, TypeOK, FlagsTypeOK, HandlerType, coreVars
  <1>6. \A m \in LogicalCores : m # l => handler'[m] = handler[m]
      BY DEF TypeOK, FlagsTypeOK
  <1>7. handler'[l].pc = "dispatch"
      BY DEF TypeOK, FlagsTypeOK, HandlerType
  <1>8. \A u \in Threads : call[u].pc # "marked"
      BY <1>1 DEF LockHeld
  <1>9. LockHeld'
      BY <1>1, <1>6, <1>7, <1>8 DEF LockHeld
  <1>10. AnnouncedOnce'
    <2> SUFFICES ASSUME NEW m \in LogicalCores, boot[m] # "start"
                 PROVE  Announced(m)'
        BY DEF AnnouncedOnce
    <2>1. Announced(m) /\ CoreId(m) \in CoreIds /\ CoreId(m)' = CoreId(m)
        BY CoreIdFacts DEF AnnouncedOnce, CoreId, coreVars
    <2>2. \A u \in Threads : ~ FirstMark(u, CoreId(m)) /\ ~ FirstMark(u, CoreId(m))'
        BY <1>8 DEF FirstMark
    <2>3. CASE m = l
      <3>1. irq_pending'[CoreId(m)] = {} /\ ~ Handling(m)' /\ tokens[CoreId(m)] = 0
          BY <1>1, <1>7, <2>1, <2>3 DEF Handling, Announced, TypeOK, FlagsTypeOK
      <3> QED
          BY <2>1, <2>2, <3>1 DEF Announced
    <2>4. CASE m # l
      <3>1. CoreId(m) # CoreId(l)
          BY <1>1, <2>4, CoreIdFacts
      <3>2. irq_pending'[CoreId(m)] = irq_pending[CoreId(m)]
          BY <1>1, <2>1, <3>1 DEF TypeOK, FlagsTypeOK
      <3> QED
          BY <1>6, <2>1, <2>2, <2>4, <3>2 DEF Announced, Handling
    <2> QED
        BY <2>3, <2>4
  <1>11. SnapshotExact'
      BY <1>1, <1>6, <1>7 DEF SnapshotExact, LockHeld
  <1>12. EnabledIds'
      BY DEF EnabledIds, CoreId, coreVars, enableVars
  <1> QED
      BY <1>3, <1>4, <1>5, <1>9, <1>10, <1>11, <1>12

\* rtos_irq_handler: the routines are run from the snapshot, which no longer
\* announces anything.
LEMMA DispatchStep ==
    ASSUME IrqInv, NEW l \in LogicalCores,
           \/ HandlerCores(l) \/ HandlerPeripheral(l)
           \/ HandlerIsrReturn(l) \/ HandlerExit(l)
    PROVE  IrqInv'
  <1> USE DEF IrqInv
  <1>1. UNCHANGED <<lock0, coreVars, boot, enableVars, regVars, irq_pending,
                    tokens, call>>
      BY DEF HandlerCores, HandlerPeripheral, HandlerIsrReturn, HandlerExit
  <1>2. /\ handler' \in [LogicalCores -> HandlerType]
        /\ handler[l].pc \in {"dispatch", "isr"}
        /\ handler'[l].pc \in {"idle", "dispatch", "isr"}
        /\ \A m \in LogicalCores : m # l => handler'[m] = handler[m]
    <2> USE DEF TypeOK, FlagsTypeOK, HandlerType
    <2>1. CASE HandlerCores(l)
      <3>1. CoreId(l) \in Nat
          BY DEF CoreId, CoresTypeOK, CoreIds
      <3> QED
          BY <2>1, <3>1 DEF HandlerCores
    <2>2. CASE HandlerPeripheral(l)
        BY <2>2 DEF HandlerPeripheral
    <2>3. CASE HandlerIsrReturn(l) \/ HandlerExit(l)
        BY <2>3 DEF HandlerIsrReturn, HandlerExit, NoHandler
    <2> QED
        BY <2>1, <2>2, <2>3
  <1>3. TypeOK'
    <2>1. CoresTypeOK' /\ FlagsTypeOK'
        BY <1>1, <1>2 DEF TypeOK, CoresTypeOK, FlagsTypeOK, coreVars, enableVars
    <2> QED
        BY <1>1, <2>1 DEF TypeOK, ReadyTypeOK, SourcesTypeOK, enableVars, regVars
  <1>4. Registered' = Registered /\ CoreMapsInverse'
      BY <1>1 DEF Registered, CoreMapsInverse, CoreId, coreVars
  <1>5. IdsCounted'
      BY <1>1, <1>2, <1>4 DEF IdsCounted, coreVars
  <1>6. LockHeld' /\ SnapshotExact'
      BY <1>1, <1>2 DEF LockHeld, SnapshotExact, CoreId, coreVars
  <1>7. AnnouncedOnce'
    <2>1. \A m \in LogicalCores : Handling(m)' <=> Handling(m)
        BY <1>2 DEF Handling
    <2> QED
        BY <1>1, <2>1 DEF AnnouncedOnce, Announced, FirstMark, CoreId, coreVars
  <1>8. EnabledIds'
      BY <1>1 DEF EnabledIds, CoreId, coreVars, enableVars
  <1> QED
      BY <1>3, <1>4, <1>5, <1>6, <1>7, <1>8

\* Every step preserves the invariant.
LEMMA IrqStep == IrqInv /\ [Next]_vars => IrqInv'
  <1> SUFFICES ASSUME IrqInv, [Next]_vars PROVE IrqInv'
      OBVIOUS
  <1>1. CASE UNCHANGED vars
    <2>1. TypeOK' /\ CoreMapsInverse' /\ LockHeld'
        BY <1>1 DEF vars, coreVars, enableVars, regVars, IrqInv, TypeOK, CoresTypeOK,
                    ReadyTypeOK, SourcesTypeOK, FlagsTypeOK, CoreMapsInverse,
                    CoreId, LockHeld
    <2>2. Registered' = Registered
        BY <1>1 DEF vars, Registered
    <2>3. IdsCounted'
        BY <1>1, <2>2 DEF vars, coreVars, IrqInv, IdsCounted
    <2>4. AnnouncedOnce' /\ SnapshotExact' /\ EnabledIds'
        BY <1>1 DEF vars, coreVars, enableVars, IrqInv, AnnouncedOnce, Announced,
                    FirstMark, Handling, SnapshotExact, EnabledIds, CoreId
    <2> QED
        BY <2>1, <2>3, <2>4 DEF IrqInv
  <1>2. ASSUME NEW l \in LogicalCores, CoreStep(l) PROVE IrqInv'
      BY <1>2, RegisterCoreStep, EnableStep, EnterStep, ReadStep, ClearStep,
         DispatchStep DEF CoreStep
  <1>3. CASE Next
      BY <1>2, <1>3, RegisterStepInv, MarkStep, SendStep DEF Next
  <1> QED
      BY <1>1, <1>3

\* The invariant says what the properties say.
LEMMA IrqSafe ==
    IrqInv => PendingWhenHandled /\ NoLostIrq /\ ReadyMeansEnabled
  <1> SUFFICES ASSUME IrqInv
               PROVE  PendingWhenHandled /\ NoLostIrq /\ ReadyMeansEnabled
      OBVIOUS
  <1>1. PendingWhenHandled
      BY DEF IrqInv, AnnouncedOnce, Announced, Handling, PendingWhenHandled
  <1>2. NoLostIrq
      BY DEF IrqInv, AnnouncedOnce, Announced, Handling, FirstMark, NoLostIrq
  <1>3. ReadyMeansEnabled
      BY DEF IrqInv, EnabledIds, ReadyMeansEnabled
  <1> QED
      BY <1>1, <1>2, <1>3

\* For any number of cores and peripherals: the handler's xassert holds, a flag
\* that is set is announced to its core, and the ids of the cores are distinct.
THEOREM IrqSound ==
    Spec => [](TypeOK /\ CoreMapsInverse /\ PendingWhenHandled /\ NoLostIrq)
  <1>1. IrqInv => TypeOK /\ CoreMapsInverse
      BY DEF IrqInv
  <1> QED
      BY <1>1, IrqInit, IrqStep, IrqSafe, PTL DEF Spec

\* For any number of cores: once rtos_irq_ready returns true, every core has
\* registered and enabled its channel end.
THEOREM IrqReadyTells == Spec => []ReadyMeansEnabled
  <1> QED
      BY IrqInit, IrqStep, IrqSafe, PTL DEF Spec

\* A step that resets flags of a core has them in the handler's snapshot.
LEMMA DropStep ==
    ASSUME IrqInv, [Next]_vars, NEW l \in LogicalCores, boot[l] # "start"
    PROVE  irq_pending[CoreId(l)] \ irq_pending'[CoreId(l)] \subseteq handler'[l].pending
  <1> USE DEF IrqInv
  <1>1. CoreId(l) \in CoreIds
      BY CoreIdFacts
  <1>2. CASE \E m \in LogicalCores : HandlerClear(m)
    <2>1. PICK m \in LogicalCores : HandlerClear(m)
        BY <1>2
    <2>2. CASE m = l
        BY <1>1, <2>1, <2>2 DEF HandlerClear, SnapshotExact, TypeOK, FlagsTypeOK, HandlerType
    <2>3. CASE m # l
      <3>1. boot[m] # "start" /\ CoreId(m) # CoreId(l)
          BY <2>1, <2>3, CoreIdFacts DEF HandlerClear, IdsCounted
      <3>2. irq_pending'[CoreId(l)] = irq_pending[CoreId(l)]
          BY <1>1, <2>1, <3>1 DEF HandlerClear, TypeOK, FlagsTypeOK
      <3> QED
          BY <3>2
    <2> QED
        BY <2>2, <2>3
  <1>3. CASE \E t \in Threads : IrqMark(t)
      BY <1>1, <1>3 DEF IrqMark, TypeOK, FlagsTypeOK
  <1>4. CASE irq_pending' = irq_pending
      BY <1>4
  <1> QED
      BY <1>2, <1>3, <1>4 DEF Next, vars, CoreStep, RegisterStep, rtos_core_register,
         EnableChanend, EnableReady, HandlerEnter, HandlerRead, HandlerCores,
         HandlerPeripheral, HandlerIsrReturn, HandlerExit, RegisterCheck,
         RegisterCount, RegisterFill, IrqSend

\* For any number of cores and peripherals: rtos_irq_handler never resets a
\* flag that it does not go on to serve.
THEOREM IrqKeepsFlags == Spec => NoFlagDropped
  <1>1. IrqInv /\ [Next]_vars =>
            [\A l \in LogicalCores : boot[l] # "start" =>
                irq_pending[CoreId(l)] \ irq_pending'[CoreId(l)]
                    \subseteq handler'[l].pending]_vars
      BY DropStep
  <1> QED
      BY <1>1, IrqInit, IrqStep, PTL DEF Spec, NoFlagDropped

-----------------------------------------------------------------------------
(* The sources that peripherals register.                                  *)

Counted == {p \in Peripherals : reg[p].pc \in {"counted", "done"}}

\* The ids handed out to peripherals are counted, and distinct.
SourcesCounted ==
    /\ peripheral_source_count = Cardinality(Counted)
    /\ \A p \in Counted : reg[p].id < peripheral_source_count
    /\ \A p, q \in Counted : reg[p].id = reg[q].id => p = q

\* A peripheral that may send has its ISR in its slot.
IsrInPlace ==
    \A p \in Peripherals : reg[p].pc = "done" => isr_info[reg[p].id] = p

\* Every source that is pending or taken, and no core's, belongs to a
\* peripheral whose registration is complete.
Ready(s) == \E p \in Peripherals : SourceOf(p) = s /\ reg[p].pc = "done"

SourcesReady ==
    /\ \A i \in CoreIds : \A s \in irq_pending[i] \ CoreSources : Ready(s)
    /\ \A l \in LogicalCores : \A s \in handler[l].pending \ CoreSources : Ready(s)

\* The inductive invariant of the registrations.
SourceInv == SourcesCounted /\ IsrInPlace /\ SourcesReady

\* The start state satisfies it.
LEMMA SourceInit == Init => SourceInv
  <1> SUFFICES ASSUME Init PROVE SourceInv
      OBVIOUS
  <1>1. Counted = {}
      BY DEF Init, Counted
  <1>2. SourcesCounted
      BY <1>1, FS_EmptySet DEF Init, SourcesCounted
  <1>3. IsrInPlace /\ SourcesReady
      BY DEF Init, IsrInPlace, SourcesReady, NoHandler
  <1> QED
      BY <1>2, <1>3 DEF SourceInv

\* With a slot for every peripheral, every id that is handed out has one.
LEMMA IdsInRange ==
    ASSUME IsFiniteSet(Peripherals), Cardinality(Peripherals) <= MAX_ADDITIONAL_SOURCES,
           TypeOK, SourcesCounted
    PROVE  /\ IsFiniteSet(Counted)
           /\ RegisteredInRange
  <1>1. IsFiniteSet(Counted) /\ Cardinality(Counted) <= Cardinality(Peripherals)
      BY FS_Subset DEF Counted
  <1>2. Cardinality(Counted) \in Nat /\ Cardinality(Peripherals) \in Nat
      BY <1>1, FS_CardinalityType
  <1>3. \A p \in Counted : reg[p].id \in Nat
      BY DEF Counted, TypeOK, SourcesTypeOK, RegisterType
  <1> QED
      BY <1>1, <1>2, <1>3, LimitsAssumption
         DEF SourcesCounted, RegisteredInRange, Counted, Slots

\* Registering moves one peripheral on and disturbs no completed one.
LEMMA RegisterStepSources ==
    ASSUME IsFiniteSet(Peripherals), Cardinality(Peripherals) <= MAX_ADDITIONAL_SOURCES,
           IrqInv, SourceInv, NEW p \in Peripherals, RegisterStep(p)
    PROVE  SourceInv'
  <1> USE DEF IrqInv, SourceInv, TypeOK, SourcesTypeOK
  <1>1. IsFiniteSet(Counted) /\ RegisteredInRange
      BY IdsInRange
  <1>2. CASE RegisterCheck(p)
    <2>1. \A q \in Peripherals : /\ reg'[q].id = reg[q].id
                                 /\ q # p => reg'[q] = reg[q]
        BY <1>2 DEF RegisterCheck, RegisterType
    <2>2. reg[p].pc = "start" /\ reg'[p].pc = "checked"
        BY <1>2 DEF RegisterCheck, RegisterType
    <2>3. Counted' = Counted
        BY <2>1, <2>2 DEF Counted
    <2>4. SourcesCounted'
      <3>1. Counted \subseteq Peripherals
          BY DEF Counted
      <3> QED
          BY <1>2, <2>1, <2>3, <3>1 DEF RegisterCheck, SourcesCounted
    <2>5. IsrInPlace' /\ SourcesReady'
        BY <1>2, <2>1, <2>2
           DEF RegisterCheck, IsrInPlace, SourcesReady, Ready, SourceOf
    <2> QED
        BY <2>4, <2>5
  <1>3. CASE RegisterCount(p)
    <2> DEFINE n == peripheral_source_count
    <2>1. \A q \in Peripherals : q # p => reg'[q] = reg[q]
        BY <1>3 DEF RegisterCount
    <2>2. reg[p].pc = "checked" /\ reg'[p].pc = "counted" /\ reg'[p].id = n
        BY <1>3 DEF RegisterCount
    <2>3. p \notin Counted /\ Counted' = Counted \cup {p}
        BY <2>1, <2>2 DEF Counted
    <2>4. Cardinality(Counted') = n + 1
        BY <1>1, <2>3, FS_AddElement DEF SourcesCounted
    <2>5. \A q \in Counted : reg[q].id \in Nat /\ reg[q].id < n /\ reg'[q] = reg[q]
        BY <2>1, <2>3 DEF SourcesCounted, Counted, RegisterType
    <2>6. SourcesCounted'
      <3>1. peripheral_source_count' = Cardinality(Counted')
          BY <1>3, <2>4 DEF RegisterCount
      <3>2. \A q \in Counted' : reg'[q].id < peripheral_source_count'
          BY <1>3, <2>2, <2>3, <2>5 DEF RegisterCount
      <3>3. \A q, r \in Counted' : reg'[q].id = reg'[r].id => q = r
          BY <2>2, <2>3, <2>5 DEF SourcesCounted
      <3> QED
          BY <3>1, <3>2, <3>3 DEF SourcesCounted
    <2>7. IsrInPlace' /\ SourcesReady'
        BY <1>3, <2>1, <2>2
           DEF RegisterCount, IsrInPlace, SourcesReady, Ready, SourceOf
    <2> QED
        BY <2>6, <2>7
  <1>4. CASE RegisterFill(p)
    <2>1. \A q \in Peripherals : /\ reg'[q].id = reg[q].id
                                 /\ q # p => reg'[q] = reg[q]
        BY <1>4 DEF RegisterFill, RegisterType
    <2>2. reg[p].pc = "counted" /\ reg'[p].pc = "done"
        BY <1>4 DEF RegisterFill, RegisterType
    <2>3. Counted' = Counted
        BY <2>1, <2>2 DEF Counted
    <2>4. SourcesCounted'
      <3>1. Counted \subseteq Peripherals
          BY DEF Counted
      <3> QED
          BY <1>4, <2>1, <2>3, <3>1 DEF RegisterFill, SourcesCounted
    <2>5. \A q \in Peripherals : reg'[q].pc = "done" =>
              q \in Counted /\ reg[q].id \in Slots /\ (q # p => reg[q].pc = "done")
        BY <1>1, <2>1, <2>2 DEF Counted, RegisteredInRange
    <2>6. isr_info' = [k \in Slots |-> IF k = reg[p].id THEN p ELSE isr_info[k]]
        BY <1>4 DEF RegisterFill
    <2>7. p \in Counted
        BY <2>2 DEF Counted
    <2>8. IsrInPlace'
        BY <2>1, <2>5, <2>6, <2>7 DEF IsrInPlace, SourcesCounted
    <2>9. SourcesReady'
        BY <1>4, <2>1, <2>2 DEF RegisterFill, SourcesReady, Ready, SourceOf
    <2> QED
        BY <2>4, <2>8, <2>9
  <1> QED
      BY <1>2, <1>3, <1>4 DEF RegisterStep

\* rtos_irq marks a core's id, or the id of a peripheral that may send.
LEMMA MarkSources ==
    ASSUME IrqInv, SourceInv, NEW t \in Threads, IrqMark(t)
    PROVE  SourceInv'
  <1> USE DEF IrqInv, SourceInv, TypeOK, FlagsTypeOK
  <1>1. UNCHANGED <<peripheral_source_count, isr_info, reg, handler>>
      BY DEF IrqMark, regVars
  <1>2. Counted' = Counted
      BY <1>1 DEF Counted
  <1>3. SourcesCounted' /\ IsrInPlace'
      BY <1>1, <1>2 DEF SourcesCounted, IsrInPlace
  <1>4. Source(t) \in CoreSources \/ Ready(Source(t))
    <2>1. CASE t \in LogicalCores
        BY <2>1, CoreIdFacts
           DEF IrqMark, MayCall, EnabledIds, Source, CoreSources
    <2>2. CASE t \in Peripherals
        BY <2>2, ThreadsAssumption DEF IrqMark, MayCall, Source, Ready
    <2> QED
        BY <2>1, <2>2 DEF Threads
  <1>5. PICK c \in 0..(rtos_core_init_count - 1) :
            irq_pending' = [irq_pending EXCEPT ![c] = @ \cup {Source(t)}]
      BY DEF IrqMark
  <1>6. \A i \in CoreIds : irq_pending'[i] \subseteq irq_pending[i] \cup {Source(t)}
      BY <1>5
  <1>7. \A s : Ready(s)' <=> Ready(s)
      BY <1>1 DEF Ready, SourceOf
  <1>8. SourcesReady'
      BY <1>1, <1>4, <1>6, <1>7 DEF SourcesReady
  <1> QED
      BY <1>3, <1>8

\* The handler takes what is pending, and serves what it took.
LEMMA CoreSourcesStep ==
    ASSUME IrqInv, SourceInv, NEW l \in LogicalCores, CoreStep(l)
    PROVE  SourceInv'
  <1> USE DEF IrqInv, SourceInv, TypeOK, FlagsTypeOK
  <1>1. UNCHANGED <<peripheral_source_count, isr_info, reg>>
      BY DEF CoreStep, rtos_core_register, EnableChanend, EnableReady, HandlerEnter,
             HandlerRead, HandlerClear, HandlerCores, HandlerPeripheral,
             HandlerIsrReturn, HandlerExit, regVars
  <1>2. Counted' = Counted
      BY <1>1 DEF Counted
  <1>3. SourcesCounted' /\ IsrInPlace'
      BY <1>1, <1>2 DEF SourcesCounted, IsrInPlace
  <1>4. \A i \in CoreIds : irq_pending'[i] \subseteq irq_pending[i]
      BY DEF CoreStep, rtos_core_register, EnableChanend, EnableReady, HandlerEnter,
             HandlerRead, HandlerClear, HandlerCores, HandlerPeripheral,
             HandlerIsrReturn, HandlerExit
  <1>5. \A m \in LogicalCores :
            \/ handler'[m].pending \subseteq handler[m].pending
            \/ \E i \in CoreIds : handler'[m].pending \subseteq irq_pending[i]
    <2>1. CASE HandlerRead(l)
      <3>1. CoreId(l) \in CoreIds
          BY <2>1, CoreIdFacts DEF HandlerRead, IdsCounted
      <3> QED
          BY <2>1, <3>1 DEF HandlerRead
    <2>2. CASE handler' = handler
        BY <2>2
    <2>3. CASE HandlerEnter(l) \/ HandlerClear(l)
        BY <2>3 DEF HandlerEnter, HandlerClear, HandlerType
    <2>4. CASE HandlerCores(l) \/ HandlerPeripheral(l) \/ HandlerIsrReturn(l)
        BY <2>4 DEF HandlerCores, HandlerPeripheral, HandlerIsrReturn
    <2>5. CASE HandlerExit(l)
        BY <2>5 DEF HandlerExit, NoHandler
    <2> QED
        BY <2>1, <2>2, <2>3, <2>4, <2>5
           DEF CoreStep, rtos_core_register, EnableChanend, EnableReady
  <1>6. \A s : Ready(s)' <=> Ready(s)
      BY <1>1 DEF Ready, SourceOf
  <1>7. SourcesReady'
      BY <1>4, <1>5, <1>6 DEF SourcesReady
  <1> QED
      BY <1>3, <1>7

\* Every step preserves the invariant of the registrations.
LEMMA SourceStep ==
    ASSUME IsFiniteSet(Peripherals), Cardinality(Peripherals) <= MAX_ADDITIONAL_SOURCES,
           IrqInv, SourceInv, [Next]_vars
    PROVE  SourceInv'
  <1>1. CASE UNCHANGED <<regVars, irq_pending, handler>>
    <2>1. UNCHANGED <<peripheral_source_count, isr_info, reg>>
        BY <1>1 DEF regVars
    <2>2. Counted' = Counted
        BY <2>1 DEF Counted
    <2> QED
        BY <1>1, <2>1, <2>2
           DEF SourceInv, SourcesCounted, IsrInPlace, SourcesReady, Ready, SourceOf
  <1>2. ASSUME NEW t \in Threads, IrqSend(t) PROVE UNCHANGED <<regVars, irq_pending, handler>>
      BY <1>2 DEF IrqSend
  <1> QED
      BY <1>1, <1>2, RegisterStepSources, MarkSources, CoreSourcesStep DEF Next, vars

\* For any number of cores and of peripherals, each of which has a slot: the
\* handler never dispatches a source whose ISR is missing or somebody else's,
\* and every id that rtos_irq_register returns is in range.  Without the
\* hypothesis the limit is checked before the lock is taken, and two
\* registrations can share the last slot: run irq_register shows it.
THEOREM IrqDispatch ==
    ASSUME IsFiniteSet(Peripherals), Cardinality(Peripherals) <= MAX_ADDITIONAL_SOURCES
    PROVE  Spec => [](DispatchFindsIsr /\ RegisteredInRange)
  <1>1. IrqInv /\ SourceInv => RegisteredInRange
      BY IdsInRange DEF IrqInv, SourceInv
  <1>2. IrqInv /\ SourceInv => DispatchFindsIsr
      BY DEF SourceInv, SourcesReady, Ready, IsrInPlace, DispatchFindsIsr
  <1>3. IrqInv /\ SourceInv /\ [Next]_vars => IrqInv' /\ SourceInv'
      BY IrqStep, SourceStep
  <1>4. Init => IrqInv /\ SourceInv
      BY IrqInit, SourceInit
  <1> QED
      BY <1>1, <1>2, <1>3, <1>4, PTL DEF Spec
=============================================================================
