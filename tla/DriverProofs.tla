---------------------------- MODULE DriverProofs ----------------------------
(***************************************************************************)
(* Drivers, for every value of their constants: the software memory, the   *)
(* SPI master, the GPIO driver, the locks and the operations of the QSPI   *)
(* flash driver, the UART receiver, the I2C slave, the SPI slave, and the  *)
(* buffers of I2S and of the microphone array.                             *)
(***************************************************************************)
EXTENDS Swmem, Gpio, SpiMaster, QspiFlash, UartRx, I2cSlave, SpiSlave, SampleBuffer,
        SequenceTheorems, FiniteSetTheorems, TLAPS

(***************************************************************************)
(* Software memory.                                                        *)
(***************************************************************************)

SwmPcs == {"wait", "read", "exclude", "populate", "enable", "write"}
SwmQueues == {<<>>, <<"read">>, <<"write">>, <<"read", "write">>, <<"write", "read">>}

\* The versions are left open: what is written is what was evicted.
SwmShape ==
    /\ swmMissed \subseteq SwmLines
    /\ swmCached \in [SwmLines -> SwmLines \cup {NoLine}]
    /\ swmDirty = [l \in SwmLines |-> swmDirty[l]]
    /\ swmVersion = [l \in SwmLines |-> swmVersion[l]]
    /\ swmStored = [l \in SwmLines |-> swmStored[l]]
    /\ swmIsrCore \in SwmCores
    /\ swmFill \in [trigger : BOOLEAN, slot : SwmLines \cup {NoLine},
                    buf : SwmLines \cup {NoLine}]
    /\ swmEvict.trigger \in BOOLEAN
    /\ swmEvict = [trigger |-> swmEvict.trigger, slot |-> swmEvict.slot, buf |-> swmEvict.buf]
    /\ swmPend \in SwmQueues
    /\ swmFlags \subseteq {"read", "write"}
    /\ swmThread \in [pc : SwmPcs, flags : SUBSET {"read", "write"}, core : SwmCores,
                      exclude : SUBSET SwmCores]

\* Where a request that the routine left to the thread may be: with the timer
\* task, in the event group, with the thread.
SwmIn(k, q) == q \in {<<k>>, <<"read", "write">>, <<"write", "read">>}
SwmQueued(k) == SwmIn(k, swmPend)
SwmFlagged(k) == k \in swmFlags
SwmReading == swmThread.pc \in {"read", "exclude", "populate", "enable"}
SwmWriting == swmThread.pc = "write" \/ "write" \in swmThread.flags

\* A trigger is disabled while its request is in one of the three, and no
\* request is in two.
SwmOnce(trigger, queued, flagged, served) ==
    /\ ~ trigger <=> queued \/ flagged \/ served
    /\ ~ (queued /\ flagged) /\ ~ (queued /\ served) /\ ~ (flagged /\ served)

SwmOnePlace ==
    /\ SwmOnce(swmFill.trigger, SwmQueued("read"), SwmFlagged("read"), SwmReading)
    /\ SwmOnce(swmEvict.trigger, SwmQueued("write"), SwmFlagged("write"), SwmWriting)
    /\ swmThread.pc \in {"wait", "write"} => swmThread.flags = {}

\* The request for a line that is left to the thread, step by step.
SwmFillRight ==
    /\ ~ swmFill.trigger => swmExclude = SwmCores \ {swmIsrCore}
    /\ ~ swmFill.trigger /\ swmThread.pc # "enable" => swmFill.slot \in swmMissed
    /\ swmThread.pc \in {"exclude", "populate"} => swmFill.buf = swmFill.slot
    /\ swmThread.pc = "populate" => /\ swmThread.core = swmIsrCore
                                    /\ swmThread.exclude = SwmCores \ {swmIsrCore}
    /\ \A l \in SwmLines : swmCached[l] \in {NoLine, l}

\* A version that waits in the cache is the last one of its line; one that waits
\* for the thread is the last, or the cache has the last.
SwmEvictRight ==
    /\ ~ swmEvict.trigger => swmEvict.slot \in SwmLines
    /\ \A l \in SwmLines :
          /\ swmDirty[l] # 0 => swmDirty[l] = swmVersion[l]
          /\ ~ swmEvict.trigger /\ swmEvict.slot = l
                => swmEvict.buf = swmVersion[l] \/ swmDirty[l] = swmVersion[l]
          /\ \/ swmStored[l] = swmVersion[l]
             \/ swmDirty[l] = swmVersion[l]
             \/ ~ swmEvict.trigger /\ swmEvict.slot = l /\ swmEvict.buf = swmVersion[l]

\* The inductive invariant.
SwmInv == SwmShape /\ SwmOnePlace /\ SwmFillRight /\ SwmEvictRight

\* Appending to a queue of one.
LEMMA AppendSecond ==
    ASSUME NEW S, NEW a \in S, NEW b \in S
    PROVE  Append(<<a>>, b) = <<a, b>>
  <1>1. <<a>> \in Seq(S) /\ <<a, b>> \in Seq(S) /\ Append(<<a>>, b) \in Seq(S)
      OBVIOUS
  <1>2. /\ Len(Append(<<a>>, b)) = 2
        /\ Append(<<a>>, b)[1] = a /\ Append(<<a>>, b)[2] = b
      OBVIOUS
  <1>3. Len(<<a, b>>) = 2 /\ \A i \in 1..2 : Append(<<a>>, b)[i] = <<a, b>>[i]
      BY <1>2
  <1> QED
      BY <1>1, <1>2, <1>3, SeqEqual

\* The queue of the timer task, of which a request enters once and leaves first.
LEMMA SwmAppend ==
    ASSUME NEW q \in SwmQueues, NEW k \in {"read", "write"}, ~ SwmIn(k, q)
    PROVE  /\ Append(q, k) \in SwmQueues
           /\ \A j \in {"read", "write"} : SwmIn(j, Append(q, k)) <=> SwmIn(j, q) \/ j = k
  <1>1. CASE q = <<>>
      BY <1>1 DEF SwmQueues, SwmIn
  <1>2. CASE q = <<"read">> /\ k = "write"
    <2>1. Append(q, k) = <<"read", "write">>
        BY <1>2, AppendSecond
    <2> QED
        BY <1>2, <2>1 DEF SwmQueues, SwmIn
  <1>3. CASE q = <<"write">> /\ k = "read"
    <2>1. Append(q, k) = <<"write", "read">>
        BY <1>3, AppendSecond
    <2> QED
        BY <1>3, <2>1 DEF SwmQueues, SwmIn
  <1> QED
      BY <1>1, <1>2, <1>3 DEF SwmQueues, SwmIn

LEMMA SwmHead ==
    ASSUME NEW q \in SwmQueues, q # <<>>
    PROVE  /\ Head(q) \in {"read", "write"} /\ Tail(q) \in SwmQueues /\ SwmIn(Head(q), q)
           /\ \A j \in {"read", "write"} : SwmIn(j, Tail(q)) <=> SwmIn(j, q) /\ j # Head(q)
  <1>1. ASSUME NEW k \in {"read", "write"}, q = <<k>>
        PROVE  Head(q) = k /\ Tail(q) = <<>>
      BY <1>1
  <1>2. CASE q = <<"read">> \/ q = <<"write">>
      BY <1>1, <1>2 DEF SwmQueues, SwmIn
  <1>3. CASE q = <<"read", "write">>
    <2>1. Head(q) = "read" /\ Tail(q) = <<"write">>
        BY <1>3
    <2> QED
        BY <1>3, <2>1 DEF SwmQueues, SwmIn
  <1>4. CASE q = <<"write", "read">>
    <2>1. Head(q) = "write" /\ Tail(q) = <<"read">>
        BY <1>4
    <2> QED
        BY <1>4, <2>1 DEF SwmQueues, SwmIn
  <1> QED
      BY <1>2, <1>3, <1>4 DEF SwmQueues

\* The start state satisfies the invariant.
LEMMA SwmInitInv == SwmInit => SwmInv
  <1> SUFFICES ASSUME SwmInit PROVE SwmInv
      OBVIOUS
  <1>1. SwmShape
      BY DEF SwmInit, SwmShape, SwmQueues, SwmPcs
  <1>2. SwmOnePlace
      BY DEF SwmInit, SwmOnePlace, SwmOnce, SwmQueued, SwmIn, SwmFlagged, SwmReading, SwmWriting
  <1>3. SwmFillRight /\ SwmEvictRight
      BY DEF SwmInit, SwmFillRight, SwmEvictRight
  <1> QED
      BY <1>1, <1>2, <1>3 DEF SwmInv

\* The cache misses lines and lets them go.
LEMMA SwmHardwareInv ==
    ASSUME SwmInv, NEW l \in SwmLines, SwmMiss(l) \/ SwmGo(l)
    PROVE  SwmInv'
  <1> USE DEF SwmInv
  <1>1. CASE SwmMiss(l)
    <2>1. SwmShape'
        BY <1>1 DEF SwmMiss, SwmShape
    <2>2. SwmOnePlace'
        BY <1>1 DEF SwmMiss, SwmOnePlace, SwmQueued, SwmFlagged, SwmReading, SwmWriting
    <2>3. SwmFillRight' /\ SwmEvictRight'
        BY <1>1 DEF SwmMiss, SwmFillRight, SwmEvictRight
    <2> QED
        BY <2>1, <2>2, <2>3
  <1>2. CASE SwmGo(l)
    <2>1. swmCached' = [swmCached EXCEPT ![l] = NoLine] /\ swmDirty[l] = 0
          /\ UNCHANGED <<swmMissed, swmStored, swmIsrCore, swmFill, swmEvict, swmExclude,
                         swmPend, swmFlags, swmThread>>
        BY <1>2 DEF SwmGo
    <2>2. \/ UNCHANGED <<swmDirty, swmVersion>>
          \/ \E v : /\ swmVersion' = [swmVersion EXCEPT ![l] = v]
                    /\ swmDirty' = [swmDirty EXCEPT ![l] = v]
        BY <1>2 DEF SwmGo
    <2>3. SwmShape'
        BY <2>1, <2>2 DEF SwmShape
    <2>4. SwmOnePlace'
        BY <2>1 DEF SwmOnePlace, SwmQueued, SwmFlagged, SwmReading, SwmWriting
    <2>5. SwmFillRight'
        BY <2>1 DEF SwmShape, SwmFillRight
    <2>6. SwmEvictRight'
        BY <2>1, <2>2 DEF SwmShape, SwmEvictRight
    <2> QED
        BY <2>3, <2>4, <2>5, <2>6
  <1> QED
      BY <1>1, <1>2

\* The interrupt routines serve a request or leave it to the thread.
LEMMA SwmFillIsrInv ==
    ASSUME SwmInv, NEW l \in SwmLines, sw_mem_fill_isr(l)
    PROVE  SwmInv'
  <1> USE DEF SwmInv
  <1>1. swmFill.trigger /\ l \in swmMissed
        /\ UNCHANGED <<swmDirty, swmVersion, swmStored, swmIsrCore, swmEvict, swmFlags,
                       swmThread>>
      BY DEF sw_mem_fill_isr, SwmPopulate, SwmHardware
  <1>2. ~ SwmQueued("read") /\ ~ SwmFlagged("read") /\ ~ SwmReading
      BY <1>1 DEF SwmOnePlace, SwmOnce
  <1>3. SwmEvictRight'
      BY <1>1 DEF SwmEvictRight
  <1>4. CASE /\ swmFill' = [swmFill EXCEPT !.slot = l, !.buf = l]
             /\ SwmPopulate(l, l)
             /\ UNCHANGED <<swmExclude, swmPend>>
    <2>1. SwmShape'
        BY <1>1, <1>4 DEF SwmShape, SwmPopulate
    <2>2. SwmOnePlace'
        BY <1>1, <1>4 DEF SwmShape, SwmOnePlace, SwmQueued, SwmFlagged, SwmReading, SwmWriting
    <2>3. SwmFillRight'
        BY <1>1, <1>2, <1>4 DEF SwmShape, SwmFillRight, SwmPopulate, SwmReading
    <2> QED
        BY <1>3, <2>1, <2>2, <2>3
  <1>5. CASE /\ swmFill' = [swmFill EXCEPT !.trigger = FALSE, !.slot = l]
             /\ swmExclude' = SwmCores \ {swmIsrCore}
             /\ swmPend' = Append(swmPend, "read")
             /\ UNCHANGED SwmHardware
    <2>1. swmPend' \in SwmQueues /\ \A j \in {"read", "write"} :
              SwmQueued(j)' <=> SwmQueued(j) \/ j = "read"
        BY <1>2, <1>5, SwmAppend DEF SwmShape, SwmQueued
    <2>2. SwmShape'
        BY <1>1, <1>5, <2>1 DEF SwmShape, SwmHardware
    <2>3. ~ swmFill'.trigger /\ swmFill'.slot = l
        BY <1>5 DEF SwmShape
    <2>4. SwmOnePlace'
        BY <1>1, <1>2, <2>1, <2>3
           DEF SwmOnePlace, SwmOnce, SwmFlagged, SwmReading, SwmWriting
    <2>5. SwmFillRight'
        BY <1>1, <1>2, <1>5, <2>3 DEF SwmFillRight, SwmHardware, SwmReading
    <2> QED
        BY <1>3, <2>2, <2>4, <2>5
  <1> QED
      BY <1>4, <1>5 DEF sw_mem_fill_isr

LEMMA SwmEvictIsrInv ==
    ASSUME SwmInv, NEW l \in SwmLines, sw_mem_evict_isr(l)
    PROVE  SwmInv'
  <1> USE DEF SwmInv
  <1>1. swmEvict.trigger /\ swmDirty[l] # 0 /\ swmDirty' = [swmDirty EXCEPT ![l] = 0]
        /\ UNCHANGED <<swmMissed, swmCached, swmVersion, swmIsrCore, swmFill, swmExclude,
                       swmFlags, swmThread>>
      BY DEF sw_mem_evict_isr
  <1>2. ~ SwmQueued("write") /\ ~ SwmFlagged("write") /\ ~ SwmWriting
      BY <1>1 DEF SwmOnePlace, SwmOnce
  <1>3. SwmFillRight'
      BY <1>1 DEF SwmFillRight
  <1>4. CASE /\ swmEvict' = [trigger |-> TRUE, slot |-> l, buf |-> swmDirty[l]]
             /\ swmStored' = [swmStored EXCEPT ![l] = swmDirty[l]]
             /\ UNCHANGED swmPend
    <2>1. SwmShape'
        BY <1>1, <1>4 DEF SwmShape
    <2>2. SwmOnePlace'
        BY <1>1, <1>4 DEF SwmOnePlace, SwmQueued, SwmFlagged, SwmReading, SwmWriting
    <2>3. SwmEvictRight'
        BY <1>1, <1>4 DEF SwmShape, SwmEvictRight
    <2> QED
        BY <1>3, <2>1, <2>2, <2>3
  <1>5. CASE /\ swmEvict' = [trigger |-> FALSE, slot |-> l, buf |-> swmDirty[l]]
             /\ swmPend' = Append(swmPend, "write")
             /\ UNCHANGED swmStored
    <2>1. swmPend' \in SwmQueues /\ \A j \in {"read", "write"} :
              SwmQueued(j)' <=> SwmQueued(j) \/ j = "write"
        BY <1>2, <1>5, SwmAppend DEF SwmShape, SwmQueued
    <2>2. SwmShape'
        BY <1>1, <1>5, <2>1 DEF SwmShape
    <2>3. SwmOnePlace'
        BY <1>1, <1>2, <1>5, <2>1
           DEF SwmOnePlace, SwmOnce, SwmFlagged, SwmReading, SwmWriting
    <2>4. SwmEvictRight'
        BY <1>1, <1>5 DEF SwmShape, SwmEvictRight
    <2> QED
        BY <1>3, <2>2, <2>3, <2>4
  <1> QED
      BY <1>4, <1>5 DEF sw_mem_evict_isr

\* The timer task sets the flag.
LEMMA SwmSetFlagsInv ==
    ASSUME SwmInv, SwmSetFlags
    PROVE  SwmInv'
  <1> USE DEF SwmInv
  <1> DEFINE k == Head(swmPend)
  <1>1. /\ k \in {"read", "write"} /\ Tail(swmPend) \in SwmQueues /\ SwmQueued(k)
        /\ \A j \in {"read", "write"} : SwmIn(j, Tail(swmPend)) <=> SwmQueued(j) /\ j # k
      BY SwmHead DEF SwmSetFlags, SwmShape, SwmQueued
  <1> HIDE DEF k
  <1>2. swmFlags' = swmFlags \cup {k} /\ swmPend' = Tail(swmPend)
        /\ UNCHANGED <<swmMissed, swmCached, swmDirty, swmVersion, swmStored, swmIsrCore,
                       swmFill, swmEvict, swmExclude, swmThread>>
      BY DEF SwmSetFlags, SwmHardware, k
  <1>3. SwmShape' /\ SwmFillRight' /\ SwmEvictRight'
      BY <1>1, <1>2 DEF SwmShape, SwmFillRight, SwmEvictRight
  <1>4. \A j \in {"read", "write"} :
            /\ SwmQueued(j)' <=> SwmQueued(j) /\ j # k
            /\ SwmFlagged(j)' <=> SwmFlagged(j) \/ j = k
      BY <1>1, <1>2 DEF SwmQueued, SwmFlagged
  <1>5. SwmOnePlace'
      BY <1>1, <1>2, <1>4 DEF SwmOnePlace, SwmOnce, SwmReading, SwmWriting
  <1> QED
      BY <1>3, <1>5

\* The thread takes the flags and serves what they stand for.
LEMMA SwmThreadInv ==
    ASSUME SwmInv, SwmThreadCode
    PROVE  SwmInv'
  <1> USE DEF SwmInv, SwmHardware
  <1>1. CASE SwmTakeFlags
    <2>1. swmThread.pc = "wait" /\ swmFlags # {} /\ swmFlags' = {}
          /\ UNCHANGED <<swmMissed, swmCached, swmDirty, swmVersion, swmStored, swmIsrCore,
                         swmFill, swmEvict, swmExclude, swmPend>>
        BY <1>1 DEF SwmTakeFlags
    <2>2. \A j \in {"read", "write"} : SwmQueued(j)' <=> SwmQueued(j)
        BY <2>1 DEF SwmQueued
    <2>3. SwmEvictRight'
        BY <2>1 DEF SwmEvictRight
    <2>4. CASE "read" \in swmFlags
      <3>1. swmThread' = [swmThread EXCEPT !.pc = "read", !.flags = swmFlags]
          BY <1>1, <2>4 DEF SwmTakeFlags
      <3>2. SwmShape' /\ SwmFillRight'
          BY <2>1, <3>1 DEF SwmShape, SwmFillRight, SwmPcs
      <3>3. swmThread'.pc = "read" /\ swmThread'.flags = swmFlags
          BY <3>1 DEF SwmShape
      <3>4. SwmOnePlace'
          BY <2>1, <2>2, <2>4, <3>3
             DEF SwmOnePlace, SwmOnce, SwmFlagged, SwmReading, SwmWriting
      <3> QED
          BY <2>3, <3>2, <3>4
    <2>5. CASE "read" \notin swmFlags
      <3>1. "write" \in swmFlags
          BY <2>1, <2>5 DEF SwmShape
      <3>2. swmThread' = [swmThread EXCEPT !.pc = "write"]
          BY <1>1, <2>5, <3>1 DEF SwmTakeFlags, SwmAfterRead
      <3>3. SwmShape' /\ SwmFillRight'
          BY <2>1, <3>2 DEF SwmShape, SwmFillRight, SwmPcs
      <3>4. swmThread'.pc = "write" /\ swmThread'.flags = swmThread.flags
          BY <3>2 DEF SwmShape
      <3>5. SwmOnePlace'
          BY <2>1, <2>2, <2>5, <3>1, <3>4
             DEF SwmOnePlace, SwmOnce, SwmFlagged, SwmReading, SwmWriting
      <3> QED
          BY <2>3, <3>3, <3>5
    <2> QED
        BY <2>4, <2>5
  <1>2. CASE SwmRead \/ SwmSetExclusion \/ SwmAnswer
    <2>1. SwmReading /\ ~ swmFill.trigger
        BY <1>2 DEF SwmRead, SwmSetExclusion, SwmAnswer, SwmReading, SwmOnePlace, SwmOnce
    <2>2. UNCHANGED <<swmDirty, swmVersion, swmStored, swmIsrCore, swmEvict, swmExclude,
                      swmPend, swmFlags>>
        BY <1>2 DEF SwmRead, SwmSetExclusion, SwmAnswer, SwmPopulate
    <2>3. /\ swmThread'.flags = swmThread.flags
          /\ swmThread'.pc \in {"exclude", "populate", "enable"}
          /\ swmFill'.trigger = swmFill.trigger
        BY <1>2 DEF SwmRead, SwmSetExclusion, SwmAnswer, SwmShape
    <2>4. SwmOnePlace' /\ SwmEvictRight'
        BY <2>1, <2>2, <2>3 DEF SwmOnePlace, SwmOnce, SwmQueued, SwmFlagged, SwmReading,
                                SwmWriting, SwmEvictRight
    <2>5. CASE SwmRead
        BY <2>1, <2>2, <2>4, <2>5 DEF SwmRead, SwmShape, SwmFillRight, SwmPcs
    <2>6. CASE SwmSetExclusion
      <3>1. swmThread.pc = "exclude" /\ UNCHANGED <<swmMissed, swmCached, swmFill>>
          BY <2>6 DEF SwmSetExclusion
      <3>2. PICK c \in SwmCores \ swmExclude :
                swmThread' = [swmThread EXCEPT !.pc = "populate", !.exclude = swmExclude,
                                               !.core = c]
          BY <2>6 DEF SwmSetExclusion
      <3>3. swmExclude = SwmCores \ {swmIsrCore} /\ c = swmIsrCore
          BY <2>1, <3>2 DEF SwmFillRight
      <3>4. /\ swmThread'.pc = "populate" /\ swmThread'.core = c
            /\ swmThread'.exclude = swmExclude
          BY <3>2 DEF SwmShape
      <3>5. SwmShape'
          BY <2>2, <3>1, <3>2, <3>3 DEF SwmShape, SwmPcs
      <3>6. SwmFillRight'
          BY <2>1, <2>2, <3>1, <3>3, <3>4 DEF SwmFillRight
      <3> QED
          BY <2>4, <3>5, <3>6
    <2>7. CASE SwmAnswer
      <3>1. swmFill.slot \in swmMissed /\ swmFill.buf = swmFill.slot
          BY <2>1, <2>7 DEF SwmAnswer, SwmFillRight
      <3>2. /\ swmCached' = [swmCached EXCEPT ![swmFill.slot] = swmFill.slot]
            /\ swmMissed' = swmMissed \ {swmFill.slot} /\ swmFill' = swmFill
            /\ swmThread' = [swmThread EXCEPT !.pc = "enable"]
          BY <2>7, <3>1 DEF SwmAnswer, SwmPopulate
      <3>3. SwmShape'
          BY <2>2, <3>1, <3>2 DEF SwmShape, SwmPcs
      <3>4. SwmFillRight'
          BY <2>1, <2>2, <3>1, <3>2 DEF SwmShape, SwmFillRight
      <3> QED
          BY <2>4, <3>3, <3>4
    <2> QED
        BY <1>2, <2>5, <2>6, <2>7
  <1>3. CASE SwmEnable
    <2>1. swmThread.pc = "enable"
          /\ UNCHANGED <<swmMissed, swmCached, swmDirty, swmVersion, swmStored, swmIsrCore,
                         swmEvict, swmExclude, swmPend, swmFlags>>
        BY <1>3 DEF SwmEnable
    <2>2. /\ swmThread'.pc = IF "write" \in swmThread.flags THEN "write" ELSE "wait"
          /\ swmThread'.flags = {} /\ swmThread'.exclude = {}
          /\ swmThread' \in [pc : SwmPcs, flags : SUBSET {"read", "write"},
                             core : SwmCores, exclude : SUBSET SwmCores]
        BY <1>3 DEF SwmEnable, SwmAfterRead, SwmShape, SwmPcs
    <2>3. swmFill' = [swmFill EXCEPT !.trigger = TRUE]
        BY <1>3 DEF SwmEnable
    <2>4. SwmShape'
        BY <2>1, <2>2, <2>3 DEF SwmShape
    <2>5. SwmOnePlace'
        BY <2>1, <2>2, <2>3 DEF SwmShape, SwmOnePlace, SwmOnce, SwmQueued, SwmFlagged,
                                SwmReading, SwmWriting
    <2>6. SwmFillRight' /\ SwmEvictRight'
        BY <2>1, <2>2, <2>3 DEF SwmShape, SwmFillRight, SwmEvictRight
    <2> QED
        BY <2>4, <2>5, <2>6
  <1>4. CASE SwmWrite
    <2>1. swmThread.pc = "write"
          /\ UNCHANGED <<swmMissed, swmCached, swmDirty, swmVersion, swmIsrCore, swmFill,
                         swmExclude, swmPend, swmFlags>>
          /\ swmStored' = [swmStored EXCEPT ![swmEvict.slot] = swmEvict.buf]
          /\ swmEvict' = [swmEvict EXCEPT !.trigger = TRUE]
          /\ swmThread' = [swmThread EXCEPT !.pc = "wait"]
        BY <1>4 DEF SwmWrite
    <2>2. ~ swmEvict.trigger /\ swmEvict.slot \in SwmLines /\ swmThread.flags = {}
        BY <2>1 DEF SwmOnePlace, SwmOnce, SwmWriting, SwmEvictRight
    <2>3. swmEvict'.trigger /\ swmEvict'.slot = swmEvict.slot /\ swmEvict'.buf = swmEvict.buf
          /\ swmThread'.pc = "wait" /\ swmThread'.flags = {}
        BY <2>1, <2>2 DEF SwmShape
    <2>4. SwmShape'
        BY <2>1, <2>2 DEF SwmShape, SwmPcs
    <2>5. SwmOnePlace'
        BY <2>1, <2>3 DEF SwmOnePlace, SwmOnce, SwmQueued, SwmFlagged, SwmReading, SwmWriting
    <2>6. SwmFillRight'
        BY <2>1, <2>3 DEF SwmFillRight
    <2>7. SwmEvictRight'
        BY <2>1, <2>2, <2>3 DEF SwmShape, SwmEvictRight
    <2> QED
        BY <2>4, <2>5, <2>6, <2>7
  <1> QED
      BY <1>1, <1>2, <1>3, <1>4 DEF SwmThreadCode

\* The kernel moves the thread, within the cores that it may use.
LEMMA SwmMoveInv ==
    ASSUME SwmInv, SwmMove
    PROVE  SwmInv'
  <1> USE DEF SwmInv, SwmHardware
  <1>1. PICK c \in SwmCores \ swmThread.exclude : swmThread' = [swmThread EXCEPT !.core = c]
      BY DEF SwmMove
  <1>2. UNCHANGED <<swmMissed, swmCached, swmDirty, swmVersion, swmStored, swmIsrCore,
                    swmFill, swmEvict, swmExclude, swmPend, swmFlags>>
      BY DEF SwmMove
  <1>3. /\ swmThread'.pc = swmThread.pc /\ swmThread'.flags = swmThread.flags
        /\ swmThread'.exclude = swmThread.exclude /\ swmThread'.core = c
      BY <1>1 DEF SwmShape
  <1>4. SwmShape'
      BY <1>1, <1>2 DEF SwmShape
  <1>5. SwmOnePlace' /\ SwmEvictRight'
      BY <1>2, <1>3 DEF SwmOnePlace, SwmQueued, SwmFlagged, SwmReading, SwmWriting,
                        SwmEvictRight
  <1>6. SwmFillRight'
      BY <1>2, <1>3 DEF SwmFillRight, SwmShape
  <1> QED
      BY <1>4, <1>5, <1>6

\* For any lines, cores and versions, and any order of misses, evictions, timer
\* task and thread: one variable of each kind is enough for the request that is
\* left to the thread, because the trigger stays disabled until it is served; a
\* miss is answered with its own line, on the core that took the interrupt; and
\* the last version of a line is never lost.
THEOREM SwmemIsExact == SwmSpec => []SwmemExact
  <1>1. SwmInv => SwmemExact
      BY DEF SwmInv, SwmOnePlace, SwmOnce, SwmReading, SwmFillRight, SwmEvictRight, SwmemExact
  <1>2. SwmInv /\ [SwmNext]_swmVars => SwmInv'
    <2>1. CASE UNCHANGED swmVars
        BY <2>1 DEF swmVars, SwmInv, SwmShape, SwmOnePlace, SwmQueued, SwmFlagged, SwmReading,
                    SwmWriting, SwmFillRight, SwmEvictRight
    <2> QED
        BY <2>1, SwmHardwareInv, SwmFillIsrInv, SwmEvictIsrInv, SwmSetFlagsInv, SwmThreadInv,
           SwmMoveInv DEF SwmNext
  <1> QED
      BY <1>1, <1>2, SwmInitInv, PTL DEF SwmSpec

(***************************************************************************)
(* The GPIO driver.                                                        *)
(***************************************************************************)

\* What is read of the records; the values stay open.
GpioShape ==
    /\ gpioTrigger = [on |-> gpioTrigger.on, value |-> gpioTrigger.value]
    /\ gpioTrigger.on \in BOOLEAN
    /\ gpioInfo \in [set : BOOLEAN, enabled : {"DISABLED", "ENABLED", "DISABLE_PENDING"}]
    /\ gpioIsr = [pc |-> gpioIsr.pc, value |-> gpioIsr.value]
    /\ gpioIsr.pc \in {"idle", "callback", "trigger"}

\* The trigger is on while the interrupt is enabled or its disabling pending; it
\* cannot be turned off while the routine runs, so that enabling again does not set
\* its value under the routine.
GpioEnabled ==
    /\ gpioTrigger.on <=> gpioInfo.enabled # "DISABLED"
    /\ ~ gpioInfo.set => gpioInfo.enabled = "DISABLED"
    /\ gpioIsr.pc # "idle" => gpioTrigger.on

\* The value that the trigger has, or is about to have, is the last one handed on.
GpioTold ==
    /\ gpioIsr.pc = "idle" /\ gpioTrigger.on => gpioTrigger.value = gpioSeen
    /\ gpioIsr.pc = "trigger" => gpioIsr.value = gpioSeen

\* The inductive invariant.
GpioInv == GpioShape /\ GpioEnabled /\ GpioTold

\* What the program asks for: the callback, enabling and disabling.
LEMMA GpioCallsInv ==
    ASSUME GpioInv, \/ gpio_local_isr_callback_set \/ gpio_local_interrupt_enable
                    \/ gpio_local_interrupt_disable
    PROVE  GpioInv'
  <1> USE DEF GpioInv, GpioShape, GpioEnabled, GpioTold
  <1>1. CASE gpio_local_isr_callback_set
      BY <1>1 DEF gpio_local_isr_callback_set
  <1>2. CASE gpio_local_interrupt_enable
    \* Only an interrupt that is disabled is enabled anew, while no routine runs.
    <2>1. CASE gpioInfo.enabled = "DISABLED"
      <3>1. /\ gpioTrigger' = [on |-> TRUE, value |-> gpioPins] /\ gpioSeen' = gpioPins
            /\ gpioInfo.set /\ gpioInfo'.set /\ gpioInfo'.enabled = "ENABLED"
            /\ gpioInfo' \in [set : BOOLEAN, enabled : {"DISABLED", "ENABLED", "DISABLE_PENDING"}]
            /\ gpioIsr' = gpioIsr
          BY <1>2, <2>1 DEF gpio_local_interrupt_enable
      <3>2. gpioIsr.pc = "idle"
          BY <2>1
      <3> QED
          BY <3>1, <3>2
    <2>2. CASE gpioInfo.enabled # "DISABLED"
        BY <1>2, <2>2 DEF gpio_local_interrupt_enable
    <2> QED
        BY <2>1, <2>2
  <1>3. CASE gpio_local_interrupt_disable
      BY <1>3 DEF gpio_local_interrupt_disable
  <1> QED
      BY <1>1, <1>2, <1>3

\* The interrupt routine.
LEMMA GpioIsrInv ==
    ASSUME GpioInv, GpioIsrCode
    PROVE  GpioInv'
  <1> USE DEF GpioInv, GpioShape, GpioEnabled, GpioTold
  <1>1. CASE GpioIsrRead
    <2>1. CASE gpioInfo.enabled = "DISABLE_PENDING"
      <3>1. /\ gpioTrigger' = [gpioTrigger EXCEPT !.on = FALSE]
            /\ gpioInfo' = [gpioInfo EXCEPT !.enabled = "DISABLED"]
            /\ gpioIsr.pc = "idle" /\ UNCHANGED <<gpioIsr, gpioSeen>>
          BY <1>1, <2>1 DEF GpioIsrRead
      <3>2. gpioTrigger' = [on |-> FALSE, value |-> gpioTrigger.value]
          BY <3>1
      <3> QED
          BY <3>1, <3>2
    <2>2. CASE gpioInfo.enabled # "DISABLE_PENDING"
      <3>1. /\ gpioTrigger.on /\ gpioIsr' = [pc |-> "callback", value |-> gpioPins]
            /\ UNCHANGED <<gpioTrigger, gpioInfo, gpioSeen>>
          BY <1>1, <2>2 DEF GpioIsrRead
      <3> QED
          BY <3>1
    <2> QED
        BY <2>1, <2>2
  <1>2. CASE GpioIsrCallback
      BY <1>2 DEF GpioIsrCallback
  <1>3. CASE GpioIsrTrigger
      BY <1>3 DEF GpioIsrTrigger
  <1> QED
      BY <1>1, <1>2, <1>3 DEF GpioIsrCode

\* However calls to enable and disable, changes of the pins and the interrupt
\* routine (rtos_gpio_isr and its callback) follow on one another, the port that is
\* enabled waits for a value other than the last one the callback was given.
THEOREM GpioMissesNoChange == GpioSpec => []GpioNoChangeMissed
  <1>1. GpioInit => GpioInv
      BY DEF GpioInit, GpioInv, GpioShape, GpioEnabled, GpioTold
  <1>2. GpioInv /\ [GpioNext]_gpioVars => GpioInv'
    <2>1. CASE GpioPinsChange \/ rtos_gpio_rpc_client_isr \/ UNCHANGED gpioVars
        BY <2>1 DEF GpioInv, GpioShape, GpioEnabled, GpioTold, GpioPinsChange,
                    rtos_gpio_rpc_client_isr, gpioVars
    <2> QED
        BY <2>1, GpioCallsInv, GpioIsrInv DEF GpioNext
  <1>3. GpioInv => GpioNoChangeMissed
      BY DEF GpioInv, GpioEnabled, GpioTold, GpioNoChangeMissed
  <1> QED
      BY <1>1, <1>2, <1>3, PTL DEF GpioSpec

(***************************************************************************)
(* The SPI master driver.                                                  *)
(***************************************************************************)

SpmDevs == SpmDevices \cup {NoDevice}
SpmPcs == {"idle", "start", "open", "wait", "unlock"}
SpmReqs == [op : {"START", "XFER", "DELAY", "END"}, task : SpmTasks, dev : SpmDevices,
            read : BOOLEAN]

SpmTaskStates == [SpmTasks -> [pc : SpmPcs, dev : SpmDevs, left : 0..SpmOps, filled : BOOLEAN]]

SpmTypes ==
    /\ spmTask \in SpmTaskStates
    /\ spmLock \in SpmTasks \cup {0} /\ spmReady \in {0, 1}
    /\ spmQueue \in Seq(SpmReqs)
    /\ spmThread \in [req : SpmReqs \cup {NoReq}, priority : SpmTasks \cup {0},
                      open : SpmDevs]

\* Only the holder of the lock is in a transaction; it has chosen its device.
SpmHolder ==
    \A t \in SpmTasks :
        /\ spmTask[t].pc # "idle" <=> spmLock = t
        /\ spmTask[t].pc # "idle" => spmTask[t].dev \in SpmDevices

\* The transaction that is open, by its task and device: for the thread, after it
\* has served r, and once it has served all that is sent.
SpmClosed == <<0, NoDevice>>
SpmServing == <<spmThread.priority, spmThread.open>>
SpmAfter(r) == IF r.op = "END" THEN SpmClosed ELSE <<r.task, r.dev>>
SpmSent == IF spmLock # 0 /\ spmTask[spmLock].pc \in {"open", "wait"}
           THEN <<spmLock, spmTask[spmLock].dev>> ELSE SpmClosed

\* A start finds no transaction open, all else its own.
SpmLegal(s, r) == s = IF r.op = "START" THEN SpmClosed ELSE <<r.task, r.dev>>

\* What is sent goes from one transaction to the next, in the order in which it is
\* queued, from what the thread serves up to what the holder does.
SpmReached == IF spmThread.req # NoReq THEN SpmAfter(spmThread.req) ELSE SpmServing

SpmOrdered ==
    /\ spmThread.req # NoReq => SpmLegal(SpmServing, spmThread.req)
    /\ IF spmQueue = <<>> THEN SpmSent = SpmReached
       ELSE SpmLegal(SpmReached, spmQueue[1]) /\ SpmSent = SpmAfter(spmQueue[Len(spmQueue)])
    /\ \A i \in 1 .. Len(spmQueue) - 1 : SpmLegal(SpmAfter(spmQueue[i]), spmQueue[i + 1])

\* The holder waits for the one transfer that reads, of which there is no other and
\* which is the last that is sent.
SpmAwaited == spmLock # 0 /\ spmTask[spmLock].pc = "wait"

SpmReadsLast ==
    /\ \A i \in 1 .. Len(spmQueue) :
          spmQueue[i].read => /\ SpmAwaited /\ spmReady = 0
                              /\ i = Len(spmQueue) /\ spmQueue[i].task = spmLock
    /\ spmThread.req.read => /\ SpmAwaited /\ spmReady = 0
                             /\ spmQueue = <<>> /\ spmThread.req.task = spmLock
    /\ spmReady = 1 => SpmAwaited /\ spmTask[spmLock].filled
    /\ \A t \in SpmTasks : spmTask[t].pc # "wait" => spmTask[t].filled

\* The inductive invariant.
SpmInv == SpmTypes /\ SpmHolder /\ SpmOrdered /\ SpmReadsLast

\* A request appended to the queue.
LEMMA SpmAppended ==
    ASSUME NEW S, NEW q \in Seq(S), NEW r \in S
    PROVE  /\ Append(q, r) \in Seq(S) /\ Append(q, r) # <<>>
           /\ Len(q) \in Nat /\ Len(Append(q, r)) = Len(q) + 1
           /\ \A i \in 1 .. Len(q) : Append(q, r)[i] = q[i]
           /\ Append(q, r)[Len(q) + 1] = r
           /\ q # <<>> => Len(q) >= 1
           /\ q = <<>> => Len(q) = 0
  BY AppendProperties, LenProperties, EmptySeq

\* The queue without its first request.
LEMMA SpmTaken ==
    ASSUME NEW S, NEW q \in Seq(S), q # <<>>
    PROVE  /\ Head(q) = q[1] /\ q[1] \in S /\ Tail(q) \in Seq(S)
           /\ Len(q) \in Nat \ {0} /\ Len(Tail(q)) = Len(q) - 1
           /\ \A i \in 1 .. Len(q) - 1 : Tail(q)[i] = q[i + 1]
           /\ Tail(q) = <<>> <=> Len(q) = 1
  <1>1. Tail(q) \in Seq(S) /\ Len(q) \in Nat \ {0} /\ Len(Tail(q)) = Len(q) - 1
      BY HeadTailProperties, LenProperties, EmptySeq
  <1>2. Head(q) = q[1] /\ q[1] \in S /\ \A i \in 1 .. Len(q) - 1 : Tail(q)[i] = q[i + 1]
      BY <1>1, HeadTailProperties
  <1>3. Tail(q) = <<>> <=> Len(Tail(q)) = 0
      BY <1>1, EmptySeq, Zenon
  <1> QED
      BY <1>1, <1>2, <1>3

\* What is sent is a request.
LEMMA SpmRequest ==
    ASSUME NEW op \in {"START", "XFER", "DELAY", "END"}, NEW t \in SpmTasks,
           NEW dev \in SpmDevices, NEW b \in BOOLEAN
    PROVE  [op |-> op, task |-> t, dev |-> dev, read |-> b] \in SpmReqs
  BY Zenon DEF SpmReqs

\* Sending keeps the order when the request is legal after all that is sent.
LEMMA SpmSendOrdered ==
    ASSUME SpmTypes, SpmOrdered, NEW r \in SpmReqs, SpmLegal(SpmSent, r),
           spmQueue' = Append(spmQueue, r), spmThread' = spmThread, SpmSent' = SpmAfter(r)
    PROVE  SpmOrdered'
  <1>1. spmQueue \in Seq(SpmReqs)
      BY DEF SpmTypes
  <1>2. SpmReached' = SpmReached /\ SpmServing' = SpmServing
      BY DEF SpmReached, SpmServing
  <1>3. /\ spmQueue' # <<>> /\ Len(spmQueue) \in Nat /\ Len(spmQueue') = Len(spmQueue) + 1
        /\ \A i \in 1 .. Len(spmQueue) : spmQueue'[i] = spmQueue[i]
        /\ spmQueue'[Len(spmQueue) + 1] = r
        /\ spmQueue # <<>> => Len(spmQueue) >= 1
        /\ spmQueue = <<>> => Len(spmQueue) = 0
      BY <1>1, SpmAppended
  <1>4. SpmLegal(SpmReached, spmQueue'[1])
      BY <1>3 DEF SpmOrdered
  <1>5. ASSUME NEW i \in 1 .. Len(spmQueue') - 1
        PROVE  SpmLegal(SpmAfter(spmQueue'[i]), spmQueue'[i + 1])
    <2>1. CASE i = Len(spmQueue)
        BY <1>3, <2>1 DEF SpmOrdered
    <2>2. CASE i # Len(spmQueue)
        BY <1>3, <2>2 DEF SpmOrdered
    <2> QED
        BY <2>1, <2>2
  <1> QED
      BY <1>2, <1>3, <1>4, <1>5 DEF SpmOrdered

\* Taking a request off the queue keeps the order.
LEMMA SpmReceiveOrdered ==
    ASSUME SpmTypes, SpmOrdered, SpmReceive
    PROVE  SpmOrdered'
  <1>1. /\ spmThread.req = NoReq /\ spmQueue # <<>> /\ spmQueue \in Seq(SpmReqs)
        /\ spmThread' = [spmThread EXCEPT !.req = Head(spmQueue)]
        /\ spmQueue' = Tail(spmQueue)
        /\ UNCHANGED <<spmTask, spmLock, spmReady>>
      BY DEF SpmTypes, SpmReceive
  <1>2. /\ Head(spmQueue) = spmQueue[1] /\ spmQueue[1] \in SpmReqs
        /\ Len(spmQueue) \in Nat \ {0} /\ Len(spmQueue') = Len(spmQueue) - 1
        /\ \A i \in 1 .. Len(spmQueue) - 1 : spmQueue'[i] = spmQueue[i + 1]
        /\ spmQueue' = <<>> <=> Len(spmQueue) = 1
      BY <1>1, SpmTaken
  <1>3. spmQueue[1] # NoReq
      BY <1>2 DEF SpmReqs, NoReq
  <1>4. /\ spmThread'.req = spmQueue[1] /\ SpmServing' = SpmServing /\ SpmSent' = SpmSent
      BY <1>1, <1>2 DEF SpmTypes, SpmServing, SpmSent
  <1>5. SpmReached' = SpmAfter(spmQueue[1]) /\ SpmReached = SpmServing
      BY <1>1, <1>3, <1>4 DEF SpmReached
  <1>6. SpmLegal(SpmServing', spmThread'.req)
      BY <1>1, <1>4, <1>5 DEF SpmOrdered
  <1>7. SpmSent' = SpmAfter(spmQueue[Len(spmQueue)])
      BY <1>1, <1>4 DEF SpmOrdered
  <1>8. IF spmQueue' = <<>> THEN SpmSent' = SpmReached'
        ELSE SpmLegal(SpmReached', spmQueue'[1]) /\ SpmSent' = SpmAfter(spmQueue'[Len(spmQueue')])
    <2>1. CASE Len(spmQueue) = 1
        BY <1>2, <1>5, <1>7, <2>1
    <2>2. CASE Len(spmQueue) # 1
      <3>1. /\ Len(spmQueue) - 1 \in 1 .. Len(spmQueue) - 1
            /\ spmQueue'[Len(spmQueue')] = spmQueue[Len(spmQueue)]
            /\ spmQueue'[1] = spmQueue[2] /\ spmQueue' # <<>>
          BY <1>2, <2>2
      <3>2. SpmLegal(SpmAfter(spmQueue[1]), spmQueue[2])
          BY <1>2, <2>2 DEF SpmOrdered
      <3> QED
          BY <1>5, <1>7, <3>1, <3>2
    <2> QED
        BY <2>1, <2>2
  <1>9. \A i \in 1 .. Len(spmQueue') - 1 : SpmLegal(SpmAfter(spmQueue'[i]), spmQueue'[i + 1])
      BY <1>1, <1>2 DEF SpmOrdered
  <1> QED
      BY <1>6, <1>8, <1>9 DEF SpmOrdered

\* While no task waits, sending keeps the transfer that reads the last one.
LEMMA SpmSendReads ==
    ASSUME SpmTypes, SpmReadsLast, ~ SpmAwaited, NEW r \in SpmReqs,
           spmQueue' = Append(spmQueue, r), UNCHANGED <<spmThread, spmReady>>,
           r.read => SpmAwaited' /\ r.task = spmLock',
           \A t \in SpmTasks : spmTask'[t].pc # "wait" => spmTask'[t].filled
    PROVE  SpmReadsLast'
  <1>1. spmQueue \in Seq(SpmReqs) /\ spmReady = 0 /\ ~ spmThread.req.read
        /\ \A i \in 1 .. Len(spmQueue) : ~ spmQueue[i].read
      BY DEF SpmTypes, SpmReadsLast
  <1>2. /\ Len(spmQueue) \in Nat /\ Len(spmQueue') = Len(spmQueue) + 1
        /\ \A i \in 1 .. Len(spmQueue) : spmQueue'[i] = spmQueue[i]
        /\ spmQueue'[Len(spmQueue) + 1] = r
      BY <1>1, SpmAppended
  <1>3. \A i \in 1 .. Len(spmQueue') : spmQueue'[i].read => i = Len(spmQueue') /\ r.read
      BY <1>1, <1>2
  <1> QED
      BY <1>1, <1>2, <1>3 DEF SpmReadsLast

\* Steps that leave the queue and the thread alone, and what is sent open.
LEMMA SpmSameOrder ==
    ASSUME SpmOrdered, UNCHANGED <<spmQueue, spmThread>>, SpmSent' = SpmSent
    PROVE  SpmOrdered'
  BY DEF SpmOrdered, SpmReached, SpmServing

\* A task takes the lock and starts a transaction.
LEMMA SpmLockGetInv ==
    ASSUME SpmInv, NEW t \in SpmTasks, SpmLockGet(t)
    PROVE  SpmInv'
  <1> USE SpmAssumption DEF SpmInv
  <1>1. PICK dev \in SpmDevices :
          /\ spmTask[t].pc = "idle" /\ spmLock = 0 /\ spmLock' = t
          /\ spmTask' = [spmTask EXCEPT ![t] = [pc |-> "start", dev |-> dev,
                                                left |-> SpmOps, filled |-> TRUE]]
          /\ UNCHANGED <<spmQueue, spmReady, spmThread>>
      BY DEF SpmLockGet
  <1>2. SpmTypes'
      BY <1>1 DEF SpmTypes, SpmTaskStates, SpmPcs, SpmDevs
  <1>3. SpmHolder'
      BY <1>1 DEF SpmTypes, SpmTaskStates, SpmHolder
  <1>4. SpmSent' = SpmSent
      BY <1>1 DEF SpmTypes, SpmSent
  <1>5. SpmOrdered'
      BY <1>1, <1>4, SpmSameOrder
  <1>6. SpmReadsLast'
      BY <1>1 DEF SpmTypes, SpmReadsLast, SpmAwaited
  <1> QED
      BY <1>2, <1>3, <1>5, <1>6

\* What a task's step does to the tasks.
SpmMoved(t, pc) ==
    /\ spmTask' \in SpmTaskStates
    /\ \A u \in SpmTasks \ {t} : spmTask'[u] = spmTask[u]
    /\ spmTask'[t].pc = pc /\ spmTask'[t].dev = spmTask[t].dev
    /\ pc # "wait" => spmTask'[t].filled

\* The holder sends a request that ends neither the transaction nor its turn.
LEMMA SpmHolderInv ==
    ASSUME SpmInv, NEW t \in SpmTasks,
           \/ spi_master_local_transaction_start(t) \/ spi_master_local_transfer(t)
           \/ spi_master_local_delay_before_next_transfer(t) \/ SpmEnd(t)
    PROVE  SpmInv'
  <1> USE SpmAssumption DEF SpmInv
  <1>1. /\ spmTask[t].pc \in {"start", "open"} /\ spmLock = t /\ spmTask[t].dev \in SpmDevices
        /\ UNCHANGED <<spmLock, spmReady, spmThread>>
      BY DEF SpmHolder, spi_master_local_transaction_start, spi_master_local_transfer,
             spi_master_local_delay_before_next_transfer, SpmEnd
  <1>2. ~ SpmAwaited
      BY <1>1 DEF SpmAwaited
  <1>3. PICK op \in {"START", "XFER", "DELAY", "END"}, read \in BOOLEAN, pc \in SpmPcs \ {"idle"} :
          /\ SpmSend(t, op, read)
          /\ SpmMoved(t, pc)
          /\ op = "START" <=> spmTask[t].pc = "start"
          /\ pc = IF op = "END" THEN "unlock" ELSE IF read THEN "wait" ELSE "open"
          /\ read => op = "XFER"
    <2> USE DEF SpmTypes, SpmTaskStates, SpmPcs, SpmMoved
    <2>1. spmTask[t].filled = TRUE
        BY <1>1 DEF SpmReadsLast
    <2>2. CASE spi_master_local_transaction_start(t)
      <3>1. SpmSend(t, "START", FALSE) /\ SpmMoved(t, "open") /\ spmTask[t].pc = "start"
          BY <2>1, <2>2 DEF spi_master_local_transaction_start, SpmGoto
      <3> QED
          BY <3>1
    <2>3. CASE spi_master_local_transfer(t)
      <3>1. PICK read \in BOOLEAN :
              /\ SpmSend(t, "XFER", read)
              /\ spmTask' = [spmTask EXCEPT ![t] =
                               [pc |-> IF read THEN "wait" ELSE "open", dev |-> @.dev,
                                left |-> @.left - 1, filled |-> ~read]]
              /\ spmTask[t].pc = "open" /\ spmTask[t].left > 0
          BY <2>3 DEF spi_master_local_transfer
      <3>2. spmTask[t].left - 1 \in 0..SpmOps
          BY <3>1
      <3>3. CASE read = TRUE
        <4>1. spmTask' = [spmTask EXCEPT ![t] = [pc |-> "wait", dev |-> @.dev,
                                                 left |-> @.left - 1, filled |-> FALSE]]
            BY <3>1, <3>3
        <4>2. SpmMoved(t, "wait")
            BY <3>2, <4>1
        <4> QED
            BY <3>1, <3>3, <4>2
      <3>4. CASE read = FALSE
        <4>1. spmTask' = [spmTask EXCEPT ![t] = [pc |-> "open", dev |-> @.dev,
                                                 left |-> @.left - 1, filled |-> TRUE]]
            BY <3>1, <3>4
        <4>2. SpmMoved(t, "open")
            BY <3>2, <4>1
        <4> QED
            BY <3>1, <3>4, <4>2
      <3> QED
          BY <3>3, <3>4
    <2>4. CASE spi_master_local_delay_before_next_transfer(t)
      <3>1. /\ SpmSend(t, "DELAY", FALSE) /\ spmTask[t].pc = "open" /\ spmTask[t].left > 0
            /\ spmTask' = [spmTask EXCEPT ![t].left = @ - 1]
          BY <2>4 DEF spi_master_local_delay_before_next_transfer
      <3>2. spmTask[t].left - 1 \in 0..SpmOps
          BY <3>1
      <3>3. SpmMoved(t, "open")
          BY SMTT(60), <2>1, <3>1, <3>2
      <3> QED
          BY <3>1, <3>3
    <2>5. CASE SpmEnd(t)
      <3>1. SpmSend(t, "END", FALSE) /\ spmTask[t].pc = "open" /\ SpmMoved(t, "unlock")
          BY ZenonT(60), <2>1, <2>5 DEF SpmEnd, SpmGoto
      <3> QED
          BY <3>1
    <2> QED
        BY <2>2, <2>3, <2>4, <2>5
  <1> DEFINE r == [op |-> op, task |-> t, dev |-> spmTask[t].dev, read |-> read]
  <1>4. r \in SpmReqs /\ spmQueue' = Append(spmQueue, r)
    <2>1. spmQueue' = Append(spmQueue, r)
        BY <1>3, Zenon DEF SpmSend
    <2>2. t \in SpmTasks /\ spmTask[t].dev \in SpmDevices /\ read \in BOOLEAN
          /\ op \in {"START", "XFER", "DELAY", "END"}
        BY <1>1
    <2>3. r \in SpmReqs
        BY <2>2, SpmRequest
    <2> QED
        BY <2>1, <2>3
  <1>5. SpmTypes'
    <2>1. spmQueue' \in Seq(SpmReqs)
        BY <1>4, SpmAppended DEF SpmTypes
    <2> QED
        BY <1>1, <1>3, <2>1 DEF SpmTypes, SpmMoved
  <1>6. /\ \A u \in SpmTasks \ {t} : spmTask'[u] = spmTask[u]
        /\ spmTask'[t].pc = pc /\ spmTask'[t].dev = spmTask[t].dev
        /\ pc # "wait" => spmTask'[t].filled
      BY <1>3 DEF SpmMoved
  <1>7. SpmHolder'
      BY <1>1, <1>3, <1>6 DEF SpmHolder
  <1>8. SpmLegal(SpmSent, r) /\ SpmSent' = SpmAfter(r)
    <2>1. SpmSent = IF op = "START" THEN SpmClosed ELSE <<t, spmTask[t].dev>>
        BY <1>1, <1>3 DEF SpmSent
    <2>2. SpmSent' = IF op = "END" THEN SpmClosed ELSE <<t, spmTask[t].dev>>
        BY <1>1, <1>3, <1>6 DEF SpmSent, SpmClosed
    <2> QED
        BY <2>1, <2>2 DEF SpmLegal, SpmAfter
  <1>9. SpmOrdered'
      BY <1>1, <1>4, <1>8, SpmSendOrdered
  <1>10. r.read => SpmAwaited' /\ r.task = spmLock'
    <2>1. r.read = read /\ r.task = t
        OBVIOUS
    <2>2. CASE read = TRUE
      <3>1. op # "END"
          BY <1>3, <2>2
      <3>2. spmLock' = t /\ spmTask'[t].pc = "wait"
          BY <1>1, <1>3, <1>6, <2>2, <3>1
      <3> QED
          BY <2>1, <3>2 DEF SpmAwaited
    <2>3. CASE read = FALSE
        BY <2>1, <2>3
    <2> QED
        BY <2>2, <2>3
  <1>11. \A u \in SpmTasks : spmTask'[u].pc # "wait" => spmTask'[u].filled
      BY <1>3, <1>6 DEF SpmReadsLast
  <1> HIDE DEF r
  <1>12. SpmReadsLast'
      BY <1>1, <1>2, <1>4, <1>10, <1>11, SpmSendReads
  <1> QED
      BY <1>5, <1>7, <1>9, <1>12

\* The task that waits returns when the semaphore is given; the holder gives the
\* lock back.
LEMMA SpmReturnInv ==
    ASSUME SpmInv, NEW t \in SpmTasks, SpmDataReady(t) \/ SpmLockPut(t)
    PROVE  SpmInv'
  <1> USE SpmAssumption DEF SpmInv, SpmTypes, SpmTaskStates, SpmPcs
  <1>1. CASE SpmDataReady(t)
    <2>1. /\ spmTask[t].pc = "wait" /\ spmReady = 1 /\ spmReady' = 0 /\ spmLock = t
          /\ spmTask' = [spmTask EXCEPT ![t].pc = "open"]
          /\ UNCHANGED <<spmLock, spmQueue, spmThread>>
        BY <1>1 DEF SpmDataReady, SpmGoto, SpmHolder
    <2>2. /\ spmTask' \in SpmTaskStates
          /\ \A u \in SpmTasks \ {t} : spmTask'[u] = spmTask[u]
          /\ spmTask'[t].pc = "open" /\ spmTask'[t].dev = spmTask[t].dev
          /\ spmTask'[t].filled = spmTask[t].filled
        BY <2>1
    <2>3. SpmTypes'
        BY <2>1, <2>2
    <2>4. SpmHolder'
        BY <2>1, <2>2 DEF SpmHolder
    <2>5. SpmSent' = SpmSent
        BY <2>1, <2>2 DEF SpmSent
    <2>6. SpmOrdered'
        BY <2>1, <2>5, SpmSameOrder
    \* The buffer is the one that the thread has filled; no other read is sent.
    <2>7. SpmReadsLast'
        BY <2>1, <2>2 DEF SpmReadsLast, SpmAwaited
    <2> QED
        BY <2>3, <2>4, <2>6, <2>7
  <1>2. CASE SpmLockPut(t)
    <2>1. /\ spmTask[t].pc = "unlock" /\ spmLock = t /\ spmLock' = 0
          /\ spmTask' = [spmTask EXCEPT ![t].pc = "idle"]
          /\ UNCHANGED <<spmReady, spmQueue, spmThread>>
        BY <1>2 DEF SpmLockPut, SpmGoto, SpmHolder
    <2>2. /\ spmTask' \in SpmTaskStates
          /\ \A u \in SpmTasks \ {t} : spmTask'[u] = spmTask[u]
          /\ spmTask'[t].pc = "idle" /\ spmTask'[t].filled = spmTask[t].filled
        BY <2>1
    <2>3. SpmTypes'
        BY <2>1, <2>2
    <2>4. SpmHolder'
        BY <2>1, <2>2 DEF SpmHolder
    <2>5. SpmSent' = SpmSent
        BY <2>1 DEF SpmSent
    <2>6. SpmOrdered'
        BY <2>1, <2>5, SpmSameOrder
    <2>7. SpmReadsLast'
        BY <2>1, <2>2 DEF SpmReadsLast, SpmAwaited
    <2> QED
        BY <2>3, <2>4, <2>6, <2>7
  <1> QED
      BY <1>1, <1>2

\* The thread takes a request.
LEMMA SpmReceiveInv ==
    ASSUME SpmInv, SpmReceive
    PROVE  SpmInv'
  <1> USE DEF SpmInv
  <1>1. /\ spmThread.req = NoReq /\ spmQueue # <<>> /\ spmQueue \in Seq(SpmReqs)
        /\ spmThread' = [spmThread EXCEPT !.req = Head(spmQueue)]
        /\ spmQueue' = Tail(spmQueue)
        /\ UNCHANGED <<spmTask, spmLock, spmReady>>
      BY DEF SpmTypes, SpmReceive
  <1>2. /\ Head(spmQueue) = spmQueue[1] /\ spmQueue[1] \in SpmReqs
        /\ spmQueue' \in Seq(SpmReqs)
        /\ Len(spmQueue) \in Nat \ {0} /\ Len(spmQueue') = Len(spmQueue) - 1
        /\ \A i \in 1 .. Len(spmQueue) - 1 : spmQueue'[i] = spmQueue[i + 1]
        /\ spmQueue' = <<>> <=> Len(spmQueue) = 1
      BY <1>1, SpmTaken
  <1>3. SpmTypes'
      BY <1>1, <1>2 DEF SpmTypes
  <1>4. SpmHolder'
      BY <1>1 DEF SpmHolder
  <1>5. spmThread'.req = spmQueue[1]
      BY <1>1, <1>2 DEF SpmTypes
  <1>6. SpmReadsLast'
    <2>1. SpmAwaited' = SpmAwaited
        BY <1>1 DEF SpmAwaited
    <2>2. spmQueue[1].read => /\ SpmAwaited /\ spmReady = 0
                              /\ Len(spmQueue) = 1 /\ spmQueue[1].task = spmLock
        BY <1>2 DEF SpmReadsLast
    <2>3. ASSUME NEW i \in 1 .. Len(spmQueue'), spmQueue'[i].read
          PROVE  /\ SpmAwaited /\ spmReady = 0
                 /\ i = Len(spmQueue') /\ spmQueue'[i].task = spmLock
        BY SMTT(60), <1>2, <2>3 DEF SpmReadsLast
    <2> QED
        BY <1>1, <1>2, <1>5, <2>1, <2>2, <2>3 DEF SpmReadsLast
  <1>7. SpmOrdered'
      BY SpmReceiveOrdered
  <1> QED
      BY <1>3, <1>4, <1>6, <1>7

\* The thread has served its request r: it reaches what it was to reach.
LEMMA SpmServedOrdered ==
    ASSUME SpmOrdered, spmThread.req # NoReq, spmThread'.req = NoReq,
           SpmServing' = SpmAfter(spmThread.req), spmQueue' = spmQueue, SpmSent' = SpmSent
    PROVE  SpmOrdered'
  <1>1. SpmReached' = SpmReached
      BY DEF SpmReached
  <1> QED
      BY <1>1 DEF SpmOrdered

\* The thread serves a request.
LEMMA SpmServeInv ==
    ASSUME SpmInv, SpmServeStart \/ SpmServeXfer \/ SpmServeDelay \/ SpmServeEnd
    PROVE  SpmInv'
  <1> USE SpmAssumption DEF SpmInv
  <1> DEFINE r == spmThread.req
  <1>1. r \in SpmReqs /\ r # NoReq
      BY DEF SpmTypes, SpmReqs, NoReq, SpmServeStart, SpmServeXfer, SpmServeDelay, SpmServeEnd
  <1>2. SpmLegal(SpmServing, r)
      BY <1>1 DEF SpmOrdered
  <1>3. CASE SpmServeStart \/ SpmServeDelay \/ SpmServeEnd \/ (SpmServeXfer /\ ~ r.read)
    <2>1. UNCHANGED <<spmTask, spmLock, spmQueue, spmReady>>
        BY <1>3 DEF SpmServeStart, SpmServeDelay, SpmServeEnd, SpmServeXfer
    <2>2. /\ spmThread' \in [req : {NoReq}, priority : SpmTasks \cup {0}, open : SpmDevs]
          /\ SpmServing' = SpmAfter(r)
      <3>1. CASE SpmServeStart
          BY <1>1, <3>1 DEF SpmServeStart, SpmReqs, SpmDevs, SpmServing, SpmAfter
      <3>2. CASE SpmServeDelay \/ SpmServeXfer
        <4>1. r.op \notin {"START", "END"} /\ spmThread' = [spmThread EXCEPT !.req = NoReq]
            BY <3>2 DEF SpmServeDelay, SpmServeXfer
        <4>2. SpmServing' = SpmServing
            BY <4>1 DEF SpmTypes, SpmServing
        <4> QED
            BY <1>2, <4>1, <4>2 DEF SpmTypes, SpmLegal, SpmAfter
      <3>3. CASE SpmServeEnd
          BY <3>3 DEF SpmServeEnd, SpmDevs, SpmServing, SpmAfter, SpmClosed
      <3> QED
          BY <1>3, <3>1, <3>2, <3>3
    <2>3. SpmTypes'
        BY <2>1, <2>2 DEF SpmTypes
    <2>4. SpmHolder'
        BY <2>1 DEF SpmHolder
    <2>5. SpmSent' = SpmSent
        BY <2>1 DEF SpmSent
    <2>6. SpmOrdered'
        BY <1>1, <2>1, <2>2, <2>5, SpmServedOrdered
    <2>7. ~ spmThread'.req.read
        BY <2>2 DEF NoReq
    <2>8. SpmReadsLast'
        BY <2>1, <2>7 DEF SpmReadsLast, SpmAwaited
    <2> QED
        BY <2>3, <2>4, <2>6, <2>8
  <1>4. CASE SpmServeXfer /\ r.read
    <2>1. /\ r.op = "XFER" /\ r.task = spmLock /\ SpmAwaited /\ spmQueue = <<>>
          /\ spmLock \in SpmTasks
          /\ spmTask' = [spmTask EXCEPT ![spmLock].filled = TRUE]
          /\ spmReady' = 1 /\ spmThread' = [spmThread EXCEPT !.req = NoReq]
          /\ UNCHANGED <<spmLock, spmQueue>>
        BY <1>1, <1>4 DEF SpmServeXfer, SpmReadsLast, SpmReqs
    <2>2. /\ spmTask' \in SpmTaskStates
          /\ \A u \in SpmTasks : spmTask'[u].pc = spmTask[u].pc /\ spmTask'[u].dev = spmTask[u].dev
          /\ \A u \in SpmTasks : u = spmLock \/ spmTask[u].filled => spmTask'[u].filled
      <3> DEFINE new == [spmTask[spmLock] EXCEPT !.filled = TRUE]
      <3>1. /\ new \in [pc : SpmPcs, dev : SpmDevs, left : 0..SpmOps, filled : BOOLEAN]
            /\ new.pc = spmTask[spmLock].pc /\ new.dev = spmTask[spmLock].dev /\ new.filled
          BY <2>1 DEF SpmTypes, SpmTaskStates
      <3>2. spmTask' = [spmTask EXCEPT ![spmLock] = new]
          BY <2>1
      <3> HIDE DEF new
      <3>3. spmTask' \in SpmTaskStates
          BY ZenonT(60), <2>1, <3>1, <3>2 DEF SpmTypes, SpmTaskStates
      <3>4. /\ spmTask'[spmLock] = new
            /\ \A u \in SpmTasks \ {spmLock} : spmTask'[u] = spmTask[u]
          BY <2>1, <3>2 DEF SpmTypes, SpmTaskStates
      <3>5. ASSUME NEW u \in SpmTasks
            PROVE  spmTask'[u].pc = spmTask[u].pc /\ spmTask'[u].dev = spmTask[u].dev
          BY <3>1, <3>4
      <3>6. ASSUME NEW u \in SpmTasks, u = spmLock \/ spmTask[u].filled
            PROVE  spmTask'[u].filled
          BY <3>1, <3>4, <3>6
      <3> QED
          BY <3>3, <3>5, <3>6
    <2>3. SpmTypes'
        BY <2>1, <2>2 DEF SpmTypes
    <2>4. SpmHolder'
        BY <2>1, <2>2 DEF SpmHolder
    <2>5. SpmSent' = SpmSent
        BY <2>1, <2>2 DEF SpmSent
    <2>6. SpmServing' = SpmAfter(r)
      <3>1. SpmServing' = SpmServing
          BY <2>1 DEF SpmTypes, SpmServing
      <3> QED
          BY <1>2, <2>1, <3>1 DEF SpmLegal, SpmAfter
    <2>7. spmThread'.req = NoReq
        BY <2>1 DEF SpmTypes
    <2>8. SpmOrdered'
        BY <1>1, <2>1, <2>5, <2>6, <2>7, SpmServedOrdered
    <2>9. ~ spmThread'.req.read /\ Len(spmQueue') = 0
        BY <2>1, <2>7 DEF NoReq
    <2>10. SpmReadsLast'
        BY <2>1, <2>2, <2>9 DEF SpmReadsLast, SpmAwaited
    <2> QED
        BY <2>3, <2>4, <2>8, <2>10
  <1> QED
      BY <1>3, <1>4

\* The start state satisfies the invariant.
LEMMA SpmInitInv == SpmInit => SpmInv
  <1> SUFFICES ASSUME SpmInit PROVE SpmInv
      OBVIOUS
  <1> USE SpmAssumption DEF SpmInit, NoReq
  <1>1. SpmTypes
      BY DEF SpmTypes, SpmTaskStates, SpmPcs, SpmDevs
  <1>2. SpmHolder /\ SpmReadsLast
      BY DEF SpmHolder, SpmReadsLast, SpmAwaited
  <1>3. SpmOrdered
      BY DEF SpmOrdered, SpmSent, SpmReached, SpmServing, SpmClosed
  <1> QED
      BY <1>1, <1>2, <1>3 DEF SpmInv

\* What a task has queued in a transaction, its end included, is carried out by
\* spi_xfer_thread before anything of the next one, on its own device and at its
\* task's priority, although the task gives the bus lock back as soon as the end is
\* queued; and a transfer that reads returns with its own buffer filled.
THEOREM SpiBusIsSerial == SpmSpec => []SpiBusSerial
  <1>1. SpmInv => SpiBusSerial
    <2> SUFFICES ASSUME SpmInv PROVE SpiBusSerial
        OBVIOUS
    <2>1. ASSUME spmThread.req # NoReq
          PROVE  IF spmThread.req.op = "START" THEN spmThread.open = NoDevice
                 ELSE /\ spmThread.open = spmThread.req.dev
                      /\ spmThread.priority = spmThread.req.task
        BY <2>1 DEF SpmInv, SpmOrdered, SpmLegal, SpmServing, SpmClosed
    <2> QED
        BY <2>1 DEF SpmInv, SpmReadsLast, SpiBusSerial
  <1>2. SpmInv /\ [SpmNext]_spmVars => SpmInv'
    <2>1. CASE UNCHANGED spmVars
        BY <2>1 DEF spmVars, SpmInv, SpmTypes, SpmHolder, SpmOrdered, SpmReached, SpmServing,
                    SpmSent, SpmReadsLast, SpmAwaited
    <2> QED
        BY <2>1, SpmLockGetInv, SpmHolderInv, SpmReturnInv, SpmReceiveInv, SpmServeInv
           DEF SpmNext, SpmTaskStep, SpmThreadStep
  <1> QED
      BY <1>1, <1>2, SpmInitInv, PTL DEF SpmSpec

(***************************************************************************)
(* The QSPI flash driver's locks.                                          *)
(***************************************************************************)

\* Where a task is in one of the driver's operations.
FlashPcs == {"idle", "spin", "locked", "unlock", "send", "sent", "wait", "done"}

\* What a task asks for and the bytes it reads are left open.
FlashShape ==
  /\ qfTask = [t \in QfTasks |-> qfTask[t]]
  /\ \A t \in QfTasks :
        /\ qfTask[t] = [pc |-> qfTask[t].pc, depth |-> qfTask[t].depth,
                        req |-> qfTask[t].req, buf |-> qfTask[t].buf]
        /\ qfTask[t].pc \in FlashPcs /\ qfTask[t].depth \in Nat
  /\ qfMutex \in [owner : QfTasks \cup {0}, count : Nat]
  /\ qfSpin \in Nat /\ qfLl \in BOOLEAN

\* How often a task has the mutex, and the spinlock: the one is taken before the
\* other and given back after it.
MutexOf(t) == qfTask[t].depth + IF qfTask[t].pc \in {"spin", "send", "sent"} THEN 1 ELSE 0
SpinOf(t) == qfTask[t].depth - IF qfTask[t].pc = "unlock" THEN 1 ELSE 0

MutexRight ==
  /\ qfMutex.owner = 0 => qfMutex.count = 0
  /\ \A t \in QfTasks :
        /\ qfMutex.owner = t => qfMutex.count = MutexOf(t) /\ MutexOf(t) > 0
        /\ qfMutex.owner # t => MutexOf(t) = 0
        /\ qfTask[t].pc \in {"idle", "spin"} => qfTask[t].depth = 0
        /\ qfTask[t].pc \in {"locked", "unlock"} => qfTask[t].depth > 0

SpinRight ==
  /\ qfLl => qfSpin = 1
  /\ \A t \in QfTasks : SpinOf(t) > 0 => qfSpin = SpinOf(t) /\ ~ qfLl
  /\ (~ qfLl /\ \A t \in QfTasks : SpinOf(t) = 0) => qfSpin = 0

\* The inductive invariant.
FlashInv == FlashShape /\ MutexRight /\ SpinRight

\* Steps that leave the locks alone, and every task where it is or one between two
\* of its operations.
LEMMA FlashKept ==
  ASSUME FlashInv, UNCHANGED <<qfMutex, qfSpin, qfLl>>,
         qfTask' = [t \in QfTasks |-> qfTask'[t]],
         \A t \in QfTasks :
            /\ qfTask'[t] = [pc |-> qfTask'[t].pc, depth |-> qfTask[t].depth,
                             req |-> qfTask'[t].req, buf |-> qfTask'[t].buf]
            /\ \/ qfTask'[t].pc = qfTask[t].pc
               \/ qfTask[t].pc = "send" /\ qfTask'[t].pc = "sent"
               \/ qfTask[t].pc = "wait" /\ qfTask'[t].pc = "done"
               \/ qfTask[t].pc = "done" /\ qfTask'[t].pc = IF qfTask[t].depth > 0 THEN "locked" ELSE "idle"
  PROVE  FlashInv'
  <1>1. \A t \in QfTasks :
           /\ qfTask'[t].depth = qfTask[t].depth /\ qfTask'[t].pc \in FlashPcs
           /\ qfTask[t].depth \in Nat
           /\ qfTask'[t].pc \in {"spin", "send", "sent"} <=> qfTask[t].pc \in {"spin", "send", "sent"}
           /\ qfTask'[t].pc = "unlock" <=> qfTask[t].pc = "unlock"
           /\ qfTask'[t].pc \in {"idle", "spin"} => qfTask[t].depth = 0
           /\ qfTask'[t].pc \in {"locked", "unlock"} => qfTask[t].depth > 0
      BY DEF FlashInv, FlashShape, MutexRight, FlashPcs
  <1>2. \A t \in QfTasks : MutexOf(t)' = MutexOf(t) /\ SpinOf(t)' = SpinOf(t)
      BY <1>1 DEF MutexOf, SpinOf
  <1>3. FlashShape'
      BY <1>1 DEF FlashInv, FlashShape
  <1>4. MutexRight'
      BY <1>1, <1>2 DEF FlashInv, MutexRight
  <1>5. SpinRight'
      BY <1>2 DEF FlashInv, SpinRight
  <1> QED
      BY <1>3, <1>4, <1>5 DEF FlashInv

\* A step of one task, which has the mutex afterwards or had it before.
LEMMA FlashOwned ==
  ASSUME FlashInv, NEW t \in QfTasks, qfTask' = [qfTask EXCEPT ![t] = qfTask'[t]],
         qfTask'[t] = [pc |-> qfTask'[t].pc, depth |-> qfTask'[t].depth,
                       req |-> qfTask'[t].req, buf |-> qfTask'[t].buf],
         qfTask'[t].pc \in FlashPcs, qfTask'[t].depth \in Nat,
         qfTask'[t].pc \in {"idle", "spin"} => qfTask'[t].depth = 0,
         qfTask'[t].pc \in {"locked", "unlock"} => qfTask'[t].depth > 0,
         qfMutex' \in [owner : QfTasks \cup {0}, count : Nat],
         qfMutex.owner \in {0, t},
         \/ qfMutex'.owner = t /\ qfMutex'.count = MutexOf(t)' /\ MutexOf(t)' > 0
         \/ qfMutex' = FreeMutex /\ MutexOf(t)' = 0,
         qfLl' = qfLl, qfSpin' \in Nat,
         \/ SpinOf(t)' = SpinOf(t) /\ qfSpin' = qfSpin
         \/ SpinOf(t)' > 0 /\ qfSpin' = SpinOf(t)' /\ ~ qfLl
         \/ SpinOf(t)' = 0 /\ qfSpin' = 0 /\ ~ qfLl
  PROVE  FlashInv'
  <1>1. /\ qfTask = [s \in QfTasks |-> qfTask[s]] /\ 0 \notin QfTasks
        /\ qfTask' = [s \in QfTasks |-> qfTask'[s]]
        /\ \A s \in QfTasks \ {t} : qfTask'[s] = qfTask[s]
      BY QfAssumption DEF FlashInv, FlashShape
  <1>2. \A s \in QfTasks \ {t} :
           /\ MutexOf(s)' = MutexOf(s) /\ SpinOf(s)' = SpinOf(s)
           /\ MutexOf(s) = 0 /\ SpinOf(s) <= 0
    <2>1. \A s \in QfTasks \ {t} : MutexOf(s) = 0
        BY <1>1 DEF FlashInv, MutexRight, FlashShape
    <2>2. \A s \in QfTasks \ {t} : SpinOf(s) <= 0
        BY <2>1 DEF FlashInv, FlashShape, MutexOf, SpinOf
    <2> QED
        BY <1>1, <2>1, <2>2 DEF MutexOf, SpinOf
  <1>3. \A s \in QfTasks : SpinOf(s) \in Int /\ SpinOf(s) >= 0
      BY DEF FlashInv, FlashShape, MutexRight, SpinOf
  <1>4. FlashShape'
      BY <1>1 DEF FlashInv, FlashShape
  <1>5. MutexRight'
      BY <1>1, <1>2 DEF FlashInv, MutexRight, FreeMutex
  <1>6. SpinRight'
      BY <1>2, <1>3 DEF FlashInv, SpinRight
  <1> QED
      BY <1>4, <1>5, <1>6 DEF FlashInv

\* A task takes the mutex, or takes it once more and the spinlock with it.
LEMMA FlashLockInv == ASSUME FlashInv, NEW t \in QfTasks, QfLock(t) PROVE FlashInv'
  <1>1. /\ qfTask = [s \in QfTasks |-> qfTask[s]] /\ qfTask[t].depth \in Nat /\ t # 0
        /\ qfTask[t] = [pc |-> qfTask[t].pc, depth |-> qfTask[t].depth,
                        req |-> qfTask[t].req, buf |-> qfTask[t].buf]
        /\ qfMutex \in [owner : QfTasks \cup {0}, count : Nat] /\ qfSpin \in Nat /\ qfLl' = qfLl
        /\ qfTask[t].pc \in {"idle", "locked"}
      BY QfAssumption DEF FlashInv, FlashShape, QfLock
  <1>2. /\ qfMutex.owner \in {0, t} /\ qfMutex'.owner = t /\ qfMutex'.count = qfMutex.count + 1
        /\ qfMutex' \in [owner : QfTasks \cup {0}, count : Nat]
      BY <1>1 DEF QfLock, MutexGet, MutexFree
  <1>3. CASE qfMutex.owner = t
    <2>1. qfTask[t].pc = "locked" /\ qfTask[t].depth > 0 /\ qfMutex.count = qfTask[t].depth
        BY <1>1, <1>3 DEF FlashInv, MutexRight, MutexOf
    <2>2. /\ qfTask' = [qfTask EXCEPT ![t].depth = @ + 1] /\ qfSpin' = qfSpin + 1
          /\ qfTask'[t].pc = "locked" /\ qfTask'[t].depth = qfTask[t].depth + 1
          /\ qfTask' = [qfTask EXCEPT ![t] = qfTask'[t]]
          /\ qfTask'[t] = [pc |-> qfTask'[t].pc, depth |-> qfTask'[t].depth,
                           req |-> qfTask'[t].req, buf |-> qfTask'[t].buf]
        BY <1>1, <1>3, <2>1 DEF QfLock
    <2>3. MutexOf(t)' = qfMutex'.count /\ MutexOf(t)' > 0 /\ SpinOf(t)' > 0 /\ qfSpin' = SpinOf(t)' /\ ~ qfLl
        BY <1>1, <1>2, <2>1, <2>2 DEF FlashInv, SpinRight, MutexOf, SpinOf
    <2> QED
        BY ONLY FlashInv, t \in QfTasks, <1>1, <1>2, <2>1, <2>2, <2>3, FlashOwned
                DEF FlashPcs
  <1>4. CASE qfMutex.owner # t
    <2>1. qfTask[t].depth = 0 /\ qfMutex.count = 0
        BY <1>1, <1>2, <1>4 DEF FlashInv, MutexRight, MutexOf
    <2>2. /\ qfTask' = [qfTask EXCEPT ![t].pc = "spin"] /\ qfSpin' = qfSpin
          /\ qfTask'[t].pc = "spin" /\ qfTask'[t].depth = 0
          /\ qfTask' = [qfTask EXCEPT ![t] = qfTask'[t]]
          /\ qfTask'[t] = [pc |-> qfTask'[t].pc, depth |-> qfTask'[t].depth,
                           req |-> qfTask'[t].req, buf |-> qfTask'[t].buf]
        BY <1>1, <1>4, <2>1 DEF QfLock, QfGoto
    <2>3. MutexOf(t)' = qfMutex'.count /\ MutexOf(t)' > 0 /\ SpinOf(t)' = SpinOf(t)
        BY <1>1, <1>2, <2>1, <2>2 DEF MutexOf, SpinOf
    <2> QED
        BY ONLY FlashInv, t \in QfTasks, <1>1, <1>2, <2>1, <2>2, <2>3, FlashOwned
                DEF FlashPcs
  <1> QED
      BY <1>3, <1>4

\* What a task that has the mutex does with the locks.
LEMMA FlashTaskInv ==
  ASSUME FlashInv, NEW t \in QfTasks,
         QfSpinGet(t) \/ QfSpinPut(t) \/ QfUnlock(t) \/ QfRequest(t) \/ QfSent(t)
  PROVE  FlashInv'
  <1>1. /\ qfTask = [s \in QfTasks |-> qfTask[s]] /\ qfTask[t].depth \in Nat /\ t # 0
        /\ qfTask[t] = [pc |-> qfTask[t].pc, depth |-> qfTask[t].depth,
                        req |-> qfTask[t].req, buf |-> qfTask[t].buf]
        /\ qfMutex \in [owner : QfTasks \cup {0}, count : Nat] /\ qfSpin \in Nat
        /\ qfTask[t].pc \in {"idle", "spin"} => qfTask[t].depth = 0
        /\ qfTask[t].pc \in {"locked", "unlock"} => qfTask[t].depth > 0
        /\ qfMutex.owner = t => qfMutex.count = MutexOf(t) /\ MutexOf(t) > 0
        /\ qfMutex.owner # t => MutexOf(t) = 0
        /\ qfMutex.owner = 0 => qfMutex.count = 0
        /\ SpinOf(t) > 0 => qfSpin = SpinOf(t) /\ ~ qfLl
      BY QfAssumption DEF FlashInv, FlashShape, MutexRight, SpinRight
  <1>2. CASE QfSpinGet(t)
    <2>1. /\ qfTask[t].pc = "spin" /\ qfSpin = 0 /\ qfSpin' = 1 /\ UNCHANGED <<qfMutex, qfLl>>
          /\ qfTask' = [qfTask EXCEPT ![t].pc = "locked", ![t].depth = 1]
        BY <1>2 DEF QfSpinGet
    <2>2. /\ qfTask'[t].pc = "locked" /\ qfTask'[t].depth = 1
          /\ qfTask' = [qfTask EXCEPT ![t] = qfTask'[t]]
          /\ qfTask'[t] = [pc |-> qfTask'[t].pc, depth |-> qfTask'[t].depth,
                           req |-> qfTask'[t].req, buf |-> qfTask'[t].buf]
        BY <1>1, <2>1
    <2>3. MutexOf(t)' = MutexOf(t) /\ MutexOf(t) > 0 /\ SpinOf(t)' = 1 /\ ~ qfLl
        BY <1>1, <2>1, <2>2 DEF FlashInv, SpinRight, MutexOf, SpinOf
    <2>4. qfMutex.owner = t
        BY <1>1, <2>3
    <2> QED
        BY ONLY FlashInv, t \in QfTasks, <1>1, <2>1, <2>2, <2>3, <2>4, FlashOwned
                DEF FlashPcs
  <1>3. CASE QfSpinPut(t)
    <2>1. /\ qfTask[t].pc = "locked" /\ qfSpin' = qfSpin - 1 /\ UNCHANGED <<qfMutex, qfLl>>
          /\ qfTask' = [qfTask EXCEPT ![t].pc = "unlock"]
        BY <1>3 DEF QfSpinPut, QfGoto
    <2>2. /\ qfTask'[t].pc = "unlock" /\ qfTask'[t].depth = qfTask[t].depth
          /\ qfTask' = [qfTask EXCEPT ![t] = qfTask'[t]]
          /\ qfTask'[t] = [pc |-> qfTask'[t].pc, depth |-> qfTask'[t].depth,
                           req |-> qfTask'[t].req, buf |-> qfTask'[t].buf]
        BY <1>1, <2>1
    <2>3. /\ MutexOf(t)' = MutexOf(t) /\ MutexOf(t) > 0 /\ ~ qfLl
          /\ qfSpin' = SpinOf(t)' /\ SpinOf(t)' \in Nat /\ qfSpin' \in Nat
        BY <1>1, <2>1, <2>2 DEF MutexOf, SpinOf
    <2>4. qfMutex.owner = t /\ (SpinOf(t)' = 0 \/ SpinOf(t)' > 0)
        BY <1>1, <2>3
    <2> QED
        BY ONLY FlashInv, t \in QfTasks, <1>1, <2>1, <2>2, <2>3, <2>4, FlashOwned
                DEF FlashPcs
  <1>4. CASE QfUnlock(t)
    <2>1. /\ qfTask[t].pc = "unlock" /\ UNCHANGED <<qfSpin, qfLl>>
          /\ qfTask' = [qfTask EXCEPT ![t].depth = @ - 1,
                                      ![t].pc = IF qfTask[t].depth = 1 THEN "idle" ELSE "locked"]
        BY <1>4 DEF QfUnlock
    <2>2. /\ qfTask'[t].pc = (IF qfTask[t].depth = 1 THEN "idle" ELSE "locked")
          /\ qfTask'[t].depth = qfTask[t].depth - 1 /\ qfTask'[t].depth \in Nat
          /\ qfTask' = [qfTask EXCEPT ![t] = qfTask'[t]]
          /\ qfTask'[t] = [pc |-> qfTask'[t].pc, depth |-> qfTask'[t].depth,
                           req |-> qfTask'[t].req, buf |-> qfTask'[t].buf]
      <3> DEFINE p == IF qfTask[t].depth = 1 THEN "idle" ELSE "locked"
                 d == qfTask[t].depth - 1
      <3>1. d \in Nat
          BY <1>1, <2>1
      <3>2. qfTask'[t] = [pc |-> p, depth |-> d, req |-> qfTask[t].req, buf |-> qfTask[t].buf]
        <4>1. qfTask' = [qfTask EXCEPT ![t].depth = d, ![t].pc = p]
            BY <2>1
        <4> HIDE DEF p, d
        <4> QED
            BY ONLY <1>1, <4>1, t \in QfTasks
      <3>3. qfTask' = [qfTask EXCEPT ![t] = qfTask'[t]]
          BY <1>1, <2>1
      <3> QED
          BY <3>1, <3>2, <3>3
    <2>3. /\ MutexOf(t)' = MutexOf(t) - 1 /\ MutexOf(t) > 0 /\ SpinOf(t)' = SpinOf(t)
          /\ MutexOf(t) = qfTask[t].depth
        BY <1>1, <2>1, <2>2 DEF MutexOf, SpinOf
    <2>4. qfMutex.owner = t /\ qfMutex.count = qfTask[t].depth
        BY <1>1, <2>3
    <2>5. CASE qfTask[t].depth = 1
      <3>1. qfMutex' = FreeMutex /\ FreeMutex \in [owner : QfTasks \cup {0}, count : Nat] /\ MutexOf(t)' = 0
          BY <1>4, <2>3, <2>4, <2>5 DEF QfUnlock, MutexPut, FreeMutex
      <3> QED
          BY ONLY FlashInv, t \in QfTasks, <1>1, <2>1, <2>2, <2>3, <2>4, <2>5, <3>1,
                  FlashOwned
                  DEF FlashPcs
    <2>6. CASE qfTask[t].depth # 1
      <3>1. /\ qfMutex'.owner = t /\ qfMutex'.count = qfMutex.count - 1 /\ qfMutex.count - 1 \in Nat
            /\ qfMutex' \in [owner : QfTasks \cup {0}, count : Nat]
          BY <1>1, <1>4, <2>3, <2>4, <2>6 DEF QfUnlock, MutexPut
      <3>2. qfMutex'.count = MutexOf(t)' /\ MutexOf(t)' > 0
          BY <1>1, <2>3, <2>4, <2>6, <3>1
      <3> QED
          BY ONLY FlashInv, t \in QfTasks, <1>1, <2>1, <2>2, <2>3, <2>4, <2>6, <3>1,
                  <3>2, FlashOwned
                  DEF FlashPcs
    <2> QED
        BY <2>5, <2>6
  <1>5. CASE QfRequest(t)
    <2>1. /\ qfTask[t].pc \in {"idle", "locked"} /\ UNCHANGED <<qfSpin, qfLl>>
          /\ qfMutex.owner \in {0, t} /\ qfMutex' = [owner |-> t, count |-> qfMutex.count + 1]
        BY <1>5 DEF QfRequest, MutexGet, MutexFree
    <2>2. PICK r : qfTask' = [qfTask EXCEPT ![t].pc = "send", ![t].buf = <<>>, ![t].req = r]
        BY <1>5 DEF QfRequest
    <2>3. /\ qfTask'[t].pc = "send" /\ qfTask'[t].depth = qfTask[t].depth
          /\ qfTask' = [qfTask EXCEPT ![t] = qfTask'[t]]
          /\ qfTask'[t] = [pc |-> qfTask'[t].pc, depth |-> qfTask'[t].depth,
                           req |-> qfTask'[t].req, buf |-> qfTask'[t].buf]
        BY <1>1, <2>2
    <2>4. /\ MutexOf(t)' = MutexOf(t) + 1 /\ MutexOf(t) = qfTask[t].depth /\ SpinOf(t)' = SpinOf(t)
          /\ qfMutex.count = qfTask[t].depth
        BY <1>1, <2>1, <2>3 DEF MutexOf, SpinOf
    <2>5. /\ qfMutex'.owner = t /\ qfMutex'.count = MutexOf(t)' /\ MutexOf(t)' > 0
          /\ qfMutex' \in [owner : QfTasks \cup {0}, count : Nat]
        BY <1>1, <2>1, <2>4
    <2> QED
        BY ONLY FlashInv, t \in QfTasks, <1>1, <2>1, <2>3, <2>4, <2>5, FlashOwned
                DEF FlashPcs
  <1>6. CASE QfSent(t)
    <2>1. /\ qfTask[t].pc = "sent" /\ UNCHANGED <<qfSpin, qfLl>>
          /\ qfTask' = [qfTask EXCEPT ![t].pc = IF IsRead(qfTask[t].req.op) THEN "wait" ELSE "done"]
        BY <1>6 DEF QfSent, QfGoto
    <2>2. /\ qfTask'[t].pc \in {"wait", "done"} /\ qfTask'[t].depth = qfTask[t].depth
          /\ qfTask' = [qfTask EXCEPT ![t] = qfTask'[t]]
          /\ qfTask'[t] = [pc |-> qfTask'[t].pc, depth |-> qfTask'[t].depth,
                           req |-> qfTask'[t].req, buf |-> qfTask'[t].buf]
        BY <1>1, <2>1
    <2>3. /\ MutexOf(t)' = qfTask[t].depth /\ MutexOf(t) = qfTask[t].depth + 1 /\ MutexOf(t) > 0
          /\ SpinOf(t)' = SpinOf(t)
        BY <1>1, <2>1, <2>2 DEF MutexOf, SpinOf
    <2>4. qfMutex.owner = t /\ qfMutex.count = qfTask[t].depth + 1
        BY <1>1, <2>3
    <2>5. CASE qfTask[t].depth = 0
      <3>1. qfMutex' = FreeMutex /\ FreeMutex \in [owner : QfTasks \cup {0}, count : Nat] /\ MutexOf(t)' = 0
          BY <1>6, <2>3, <2>4, <2>5 DEF QfSent, MutexPut, FreeMutex
      <3> QED
          BY ONLY FlashInv, t \in QfTasks, <1>1, <2>1, <2>2, <2>3, <2>4, <3>1,
                  FlashOwned
                  DEF FlashPcs
    <2>6. CASE qfTask[t].depth # 0
      <3>1. /\ qfMutex'.owner = t /\ qfMutex'.count = qfMutex.count - 1 /\ qfMutex.count - 1 \in Nat
            /\ qfMutex' \in [owner : QfTasks \cup {0}, count : Nat]
          BY <1>1, <1>6, <2>3, <2>4, <2>6 DEF QfSent, MutexPut
      <3>2. qfMutex'.count = MutexOf(t)' /\ MutexOf(t)' > 0
          BY <1>1, <2>3, <2>4, <2>6, <3>1
      <3> QED
          BY ONLY FlashInv, t \in QfTasks, <1>1, <2>1, <2>2, <2>3, <2>4, <3>1, <3>2,
                  FlashOwned
                  DEF FlashPcs
    <2> QED
        BY <2>5, <2>6
  <1> QED
      BY <1>2, <1>3, <1>4, <1>5, <1>6

\* A low level read.
LEMMA FlashLlInv == ASSUME FlashInv, QfLlGet \/ QfLlPut PROVE FlashInv'
  <1>1. UNCHANGED <<qfTask, qfMutex>> /\ qfLl' \in BOOLEAN /\ qfSpin' \in Nat
    <2>1. CASE QfLlGet
        BY <2>1 DEF QfLlGet
    <2>2. CASE QfLlPut
        BY <2>2 DEF QfLlPut
    <2> QED
        BY <2>1, <2>2
  <1>2. \A t \in QfTasks : SpinOf(t)' = SpinOf(t) /\ MutexOf(t)' = MutexOf(t) /\ SpinOf(t) \in Nat
      BY <1>1 DEF FlashInv, FlashShape, MutexRight, SpinOf, MutexOf
  <1>3. \A t \in QfTasks : SpinOf(t) = 0
      BY <1>2 DEF FlashInv, SpinRight, QfLlGet, QfLlPut
  <1>4. FlashShape' /\ MutexRight'
      BY <1>1, <1>2 DEF FlashInv, FlashShape, MutexRight
  <1>5. SpinRight'
      BY <1>2, <1>3 DEF SpinRight, QfLlGet, QfLlPut
  <1> QED
      BY <1>4, <1>5 DEF FlashInv

\* The thread, and what a task does besides.
LEMMA FlashOtherInv ==
  ASSUME FlashInv,
         \/ QfThreadStep
         \/ \E t \in QfTasks : QfSend(t) \/ QfWait(t) \/ QfReturn(t)
  PROVE  FlashInv'
  <1>1. /\ qfTask = [t \in QfTasks |-> qfTask[t]]
        /\ \A t \in QfTasks : /\ qfTask[t] = [pc |-> qfTask[t].pc, depth |-> qfTask[t].depth,
                                               req |-> qfTask[t].req, buf |-> qfTask[t].buf]
                              /\ qfTask[t].depth \in Nat
      BY DEF FlashInv, FlashShape
  <1>2. CASE QfReceive \/ QfWritePage \/ QfErase \/ QfFinish
    <2>1. UNCHANGED <<qfTask, qfMutex, qfSpin, qfLl>>
        BY <1>2 DEF QfReceive, QfWritePage, QfErase, QfFinish
    <2> QED
        BY ONLY FlashInv, <1>1, <2>1, FlashKept
  <1>3. CASE QfReadChunk
    <2>1. UNCHANGED <<qfMutex, qfSpin, qfLl>> /\ \E s, b : qfTask' = [qfTask EXCEPT ![s].buf = b]
        BY <1>3 DEF QfReadChunk
    <2>2. PICK s, b : qfTask' = [qfTask EXCEPT ![s].buf = b]
        BY <2>1
    <2>3. /\ qfTask' = [t \in QfTasks |-> qfTask'[t]]
          /\ \A t \in QfTasks : /\ qfTask'[t] = [pc |-> qfTask'[t].pc, depth |-> qfTask[t].depth,
                                                  req |-> qfTask'[t].req, buf |-> qfTask'[t].buf]
                                /\ qfTask'[t].pc = qfTask[t].pc
      <3>1. CASE s \in QfTasks
          BY ONLY <1>1, <2>2, <3>1
      <3>2. CASE s \notin QfTasks
        <4>1. qfTask' = qfTask
            BY ONLY <1>1, <2>2, <3>2
        <4> QED
            BY <1>1, <4>1
      <3> QED
          BY <3>1, <3>2
    <2> QED
        BY ONLY FlashInv, <2>1, <2>3, FlashKept
  <1>4. ASSUME NEW s \in QfTasks, QfSend(s) \/ QfWait(s) \/ QfReturn(s) PROVE FlashInv'
    <2>1. UNCHANGED <<qfMutex, qfSpin, qfLl>>
        BY <1>4 DEF QfSend, QfWait, QfReturn
    <2>2. /\ qfTask' = [t \in QfTasks |-> qfTask'[t]]
          /\ \A t \in QfTasks : /\ qfTask'[t] = [pc |-> qfTask'[t].pc, depth |-> qfTask[t].depth,
                                                  req |-> qfTask'[t].req, buf |-> qfTask'[t].buf]
                                /\ t # s => qfTask'[t].pc = qfTask[t].pc
          /\ QfSend(s) => qfTask'[s].pc = "sent"
          /\ QfWait(s) => qfTask'[s].pc = "done"
          /\ QfReturn(s) => qfTask'[s].pc = IF qfTask[s].depth > 0 THEN "locked" ELSE "idle"
      <3>1. ASSUME NEW p, qfTask' = [qfTask EXCEPT ![s].pc = p]
            PROVE  /\ qfTask' = [t \in QfTasks |-> qfTask'[t]]
                   /\ \A t \in QfTasks :
                         /\ qfTask'[t] = [pc |-> qfTask'[t].pc, depth |-> qfTask[t].depth,
                                          req |-> qfTask'[t].req, buf |-> qfTask'[t].buf]
                         /\ t # s => qfTask'[t].pc = qfTask[t].pc
                   /\ qfTask'[s].pc = p
          BY ONLY <1>1, <3>1, s \in QfTasks
      <3> DEFINE back == IF qfTask[s].depth > 0 THEN "locked" ELSE "idle"
      <3>2. /\ QfSend(s) => qfTask' = [qfTask EXCEPT ![s].pc = "sent"]
            /\ QfWait(s) => qfTask' = [qfTask EXCEPT ![s].pc = "done"]
            /\ QfReturn(s) => qfTask' = [qfTask EXCEPT ![s].pc = back, ![s].req = QfNoOp, ![s].buf = <<>>]
          BY DEF QfSend, QfWait, QfReturn, QfGoto
      <3> HIDE DEF back
      <3>3. CASE QfSend(s)
          BY <3>1, <3>2, <3>3 DEF QfSend, QfWait, QfReturn
      <3>4. CASE QfWait(s)
          BY <3>1, <3>2, <3>4 DEF QfSend, QfWait, QfReturn
      <3>5. CASE QfReturn(s)
        <4>1. /\ qfTask' = [t \in QfTasks |-> qfTask'[t]]
              /\ \A t \in QfTasks :
                    /\ qfTask'[t] = [pc |-> qfTask'[t].pc, depth |-> qfTask[t].depth,
                                     req |-> qfTask'[t].req, buf |-> qfTask'[t].buf]
                    /\ t # s => qfTask'[t].pc = qfTask[t].pc
              /\ qfTask'[s].pc = back
          <5>1. /\ qfTask' = [t \in QfTasks |-> qfTask'[t]]
                /\ \A t \in QfTasks \ {s} : qfTask'[t] = qfTask[t]
              BY ONLY <1>1, <3>2, <3>5, s \in QfTasks
          <5>2. qfTask'[s] = [qfTask[s] EXCEPT !.pc = back, !.req = QfNoOp, !.buf = <<>>]
              BY ONLY <1>1, <3>2, <3>5, s \in QfTasks
          <5>3. qfTask'[s] = [pc |-> back, depth |-> qfTask[s].depth, req |-> QfNoOp, buf |-> <<>>]
              BY ONLY <1>1, <5>2, s \in QfTasks
          <5> QED
              BY ONLY <1>1, <5>1, <5>3
        <4> QED
            BY <3>5, <4>1 DEF QfSend, QfWait, QfReturn, back
      <3> QED
          BY <1>4, <3>3, <3>4, <3>5
    <2>3. \A t \in QfTasks :
             \/ qfTask'[t].pc = qfTask[t].pc
             \/ qfTask[t].pc = "send" /\ qfTask'[t].pc = "sent"
             \/ qfTask[t].pc = "wait" /\ qfTask'[t].pc = "done"
             \/ qfTask[t].pc = "done" /\ qfTask'[t].pc = IF qfTask[t].depth > 0 THEN "locked" ELSE "idle"
        BY <1>4, <2>2 DEF QfSend, QfWait, QfReturn
    <2> QED
        BY ONLY FlashInv, <2>1, <2>2, <2>3, FlashKept
  <1> QED
      BY <1>2, <1>3, <1>4 DEF QfThreadStep

LEMMA FlashInitInv == ASSUME QfInit PROVE FlashInv
  <1>1. \A t \in QfTasks : qfTask[t].pc = "idle" /\ qfTask[t].depth = 0
      BY DEF QfInit
  <1>2. FlashShape
      BY <1>1 DEF QfInit, FlashShape, FreeMutex, FlashPcs
  <1>3. ASSUME NEW t \in QfTasks PROVE MutexOf(t) = 0 /\ SpinOf(t) = 0
    <2>1. /\ qfTask[t].pc = "idle" /\ qfTask[t].depth = 0
          /\ qfTask[t].pc \notin {"spin", "send", "sent"} /\ qfTask[t].pc # "unlock"
        BY <1>1
    <2> QED
        BY ONLY <2>1 DEF MutexOf, SpinOf
  <1>4. MutexRight /\ SpinRight
      BY <1>1, <1>3, QfAssumption DEF QfInit, FreeMutex, MutexRight, SpinRight
  <1> QED
      BY <1>2, <1>4 DEF FlashInv

LEMMA FlashStepInv == ASSUME FlashInv, [QfNext]_qfVars PROVE FlashInv'
  <1>1. ASSUME UNCHANGED qfVars PROVE FlashInv'
      BY <1>1 DEF FlashInv, FlashShape, MutexRight, SpinRight, MutexOf, SpinOf, qfVars
  <1> QED
      BY <1>1, FlashLockInv, FlashTaskInv, FlashLlInv, FlashOtherInv
         DEF QfNext, QfTaskStep

\* Nobody reads the flash from an interrupt routine while a task has the lock,
\* however often it has taken it, and the spinlock is free when nobody has it.
THEOREM FlashLockIsExclusive == QfSpec => []FlashLockExcludes
  <1>1. QfInit => FlashInv
      BY FlashInitInv
  <1>2. FlashInv /\ [QfNext]_qfVars => FlashInv'
      BY FlashStepInv
  <1>3. FlashInv => FlashLockExcludes
    <2> SUFFICES ASSUME FlashInv PROVE FlashLockExcludes
        OBVIOUS
    <2>1. ASSUME NEW t \in QfTasks
          PROVE  /\ qfTask[t].depth \in Nat /\ SpinOf(t) \in Nat
                 /\ qfTask[t].depth = 0 => SpinOf(t) = 0
                 /\ qfTask[t].depth > 0 /\ qfTask[t].pc # "unlock" => SpinOf(t) > 0
      <3>1. /\ qfTask[t].depth \in Nat /\ (qfTask[t].pc = "unlock" => qfTask[t].depth > 0)
          BY DEF FlashInv, FlashShape, MutexRight
      <3>2. CASE qfTask[t].pc = "unlock"
          BY ONLY <3>1, <3>2 DEF SpinOf
      <3>3. CASE qfTask[t].pc # "unlock"
          BY ONLY <3>1, <3>3 DEF SpinOf
      <3> QED
          BY <3>2, <3>3
    <2> QED
        BY <2>1 DEF FlashInv, SpinRight, FlashLockExcludes
  <1> QED
      BY <1>1, <1>2, <1>3, PTL DEF QfSpec

(***************************************************************************)
(* The contents of the flash.                                              *)
(***************************************************************************)

\* A number is a multiple of m and a remainder, in one way only.
LEMMA OneRemainder ==
  ASSUME NEW m \in Nat \ {0}, NEW k \in Int, NEW r \in 0..m - 1
  PROVE  (m * k + r) % m = r
  <1> DEFINE x == m * k + r
  <1>1. x \in Int /\ x = m * (x \div m) + (x % m) /\ x % m \in 0..m - 1 /\ x \div m \in Int
      OBVIOUS
  <1>2. CASE x \div m > k
    <2>1. m * (x \div m) >= m * (k + 1)
        BY <1>1, <1>2
    <2> QED
        BY <1>1, <2>1
  <1>3. CASE x \div m < k
    <2>1. m * (x \div m) <= m * (k - 1)
        BY <1>1, <1>3
    <2> QED
        BY <1>1, <2>1
  <1>4. CASE x \div m = k
      BY <1>1, <1>4
  <1> QED
      BY <1>1, <1>2, <1>3, <1>4

\* The multiple at or below a number.
LEMMA MultipleBelow ==
  ASSUME NEW m \in Nat \ {0}, NEW x \in Nat
  PROVE  /\ x % m \in 0..m - 1 /\ x - (x % m) \in Nat
         /\ (x - (x % m)) % m = 0
         /\ (x - (x % m) + m) % m = 0
  <1> DEFINE k == x \div m
             r == x % m
  <1>1. x = m * k + r /\ r \in 0..m - 1 /\ k \in Int
      OBVIOUS
  <1> HIDE DEF k, r
  <1>2. k >= 0
    <2> SUFFICES ASSUME k <= -1 PROVE FALSE
        BY <1>1
    <2>1. m * k <= m * (-1)
        BY <1>1
    <2> QED
        BY <1>1, <2>1
  <1>3. m * k \in Nat /\ x - r = m * k
      BY <1>1, <1>2
  <1>4. (m * k + 0) % m = 0 /\ (m * (k + 1) + 0) % m = 0
      BY <1>1, OneRemainder
  <1>5. m * k + 0 = m * k /\ m * (k + 1) + 0 = m * k + m
      BY <1>1
  <1> QED
      BY <1>1, <1>3, <1>4, <1>5 DEF r

\* The remainder of a number that lies behind a multiple.
LEMMA Behind ==
  ASSUME NEW m \in Nat \ {0}, NEW b \in Nat, b % m = 0, NEW x \in Nat, b <= x, x < b + m
  PROVE  x % m = x - b
  <1> DEFINE k == b \div m
  <1>1. b = m * k /\ k \in Int
      OBVIOUS
  <1> HIDE DEF k
  <1>2. x - b \in 0..m - 1 /\ x = m * k + (x - b)
      BY <1>1
  <1> QED
      BY <1>1, <1>2, OneRemainder

\* Two multiples are a multiple apart.
LEMMA MultiplesApart ==
  ASSUME NEW m \in Nat \ {0}, NEW a \in Nat, NEW b \in Nat, a % m = 0, b % m = 0, a < b
  PROVE  a + m <= b
  <1> SUFFICES ASSUME b < a + m PROVE FALSE
      OBVIOUS
  <1>1. a <= b
      OBVIOUS
  <1>2. b % m = b - a
      BY <1>1, Behind, Zenon
  <1> QED
      BY <1>2

LEMMA QfSizes ==
  /\ QfSize \in Nat /\ QfPage \in Nat \ {0} /\ QfSector \in Nat \ {0} /\ QfChunk \in Nat \ {0}
  /\ QfRanges \subseteq Nat \X Nat
    BY QfAssumption

\* What a page takes from an address on is what follows that address.
LEMMA PageProgrammed ==
  ASSUME NEW at \in Nat, NEW n \in Nat, n <= PageRoom(at)
  PROVE  /\ {at - (at % QfPage) + ((at + i) % QfPage) : i \in 0..n - 1} = at..at + n - 1
         /\ PageRoom(at) \in Nat \ {0}
  <1> DEFINE b == at - (at % QfPage)
  <1>1. QfPage \in Nat \ {0}
      BY QfSizes
  <1>2. b \in Nat /\ b % QfPage = 0 /\ at % QfPage \in 0..QfPage - 1
      BY <1>1, MultipleBelow
  <1>3. PageRoom(at) = b + QfPage - at /\ b <= at /\ at < b + QfPage
      BY <1>1, <1>2 DEF PageRoom
  <1> HIDE DEF b
  <1>4. ASSUME NEW i \in 0..n - 1 PROVE b + ((at + i) % QfPage) = at + i
    <2>1. at + i \in Nat /\ b <= at + i /\ at + i < b + QfPage
        BY <1>1, <1>2, <1>3
    <2>2. PICK x \in Nat : x = at + i
        BY <2>1
    <2>3. b <= x /\ x < b + QfPage
        BY <2>1, <2>2
    <2>4. x % QfPage = x - b
        BY <1>1, <1>2, <2>3, Behind, Zenon
    <2>5. b + (x % QfPage) = x
        BY <1>2, <2>4
    <2> QED
        BY <2>2, <2>5
  <1>5. {b + ((at + i) % QfPage) : i \in 0..n - 1} = {at + i : i \in 0..n - 1}
      BY <1>4
  <1>6. {at + i : i \in 0..n - 1} = at..at + n - 1
    <2>1. ASSUME NEW a \in at..at + n - 1 PROVE \E i \in 0..n - 1 : a = at + i
      <3>1. a - at \in 0..n - 1 /\ a = at + (a - at)
          OBVIOUS
      <3> QED
          BY <3>1
    <2> QED
        BY <2>1
  <1>7. {b + ((at + i) % QfPage) : i \in 0..n - 1} = at..at + n - 1
      BY <1>5, <1>6
  <1>8. PageRoom(at) \in Nat \ {0}
      BY <1>1, <1>2, <1>3
  <1> QED
      BY <1>7, <1>8 DEF b

\* Sectors that have been erased from the one of the address to p are those that
\* overlap the range, once p is behind the range.
LEMMA SectorsErased ==
  ASSUME NEW at \in Nat, NEW len \in Nat, NEW p \in Nat, p % QfSector = 0,
         SectorStart(at) <= p, p > SectorStart(at) => p < at + len + QfSector,
         p >= at + len \/ p >= QfSize, len > 0 \/ p = at,
         NEW a \in Bytes
  PROVE  (\E b \in at..at + len - 1 : SectorStart(b) = SectorStart(a)) <=> a \in SectorStart(at)..p - 1
  <1>1. QfSector \in Nat \ {0} /\ a \in Nat /\ a < QfSize /\ QfSize \in Nat
      BY QfSizes DEF Bytes
  <1>2. ASSUME NEW x \in Nat
        PROVE  /\ SectorStart(x) \in Nat /\ SectorStart(x) % QfSector = 0
               /\ SectorStart(x) <= x /\ x < SectorStart(x) + QfSector
               /\ (SectorStart(x) + QfSector) % QfSector = 0
    <2>1. x % QfSector \in 0..QfSector - 1
        BY <1>1, MultipleBelow, Zenon
    <2>2. /\ SectorStart(x) \in Nat /\ SectorStart(x) % QfSector = 0
          /\ (SectorStart(x) + QfSector) % QfSector = 0
        BY <1>1, MultipleBelow, Zenon DEF SectorStart
    <2>3. SectorStart(x) = x - (x % QfSector)
        BY DEF SectorStart
    <2> QED
        BY <1>1, <2>1, <2>2, <2>3
  <1>3. ASSUME NEW x \in Nat, NEW m \in Nat, m % QfSector = 0, m <= x, x < m + QfSector
        PROVE  SectorStart(x) = m
    <2>1. x % QfSector = x - m
        BY <1>1, <1>3, Behind, Zenon
    <2> QED
        BY <2>1 DEF SectorStart
  <1>4. ASSUME NEW x \in Nat, NEW y \in Nat, SectorStart(x) < SectorStart(y)
        PROVE  SectorStart(x) + QfSector <= SectorStart(y)
      BY <1>1, <1>2, <1>4, MultiplesApart
  <1>5. ASSUME NEW b \in at..at + len - 1, SectorStart(b) = SectorStart(a)
        PROVE  a \in SectorStart(at)..p - 1
    <2>1. b \in Nat /\ at <= b /\ b < at + len
        BY <1>5
    <2>2. SectorStart(at) <= SectorStart(b)
      <3>1. SectorStart(at) \in Nat /\ SectorStart(at) <= at
          BY <1>2
      <3>2. SectorStart(b) \in Nat /\ b < SectorStart(b) + QfSector
          BY <1>2, <2>1
      <3>3. SectorStart(b) < SectorStart(at) => SectorStart(b) + QfSector <= SectorStart(at)
          BY <1>4, <2>1
      <3> QED
          BY <1>1, <2>1, <3>1, <3>2, <3>3
    <2>3. a < p
      <3>1. CASE p >= QfSize
          BY <1>1, <3>1
      <3>2. CASE p >= at + len
        <4>1. SectorStart(b) < p
            BY <1>2, <2>1, <3>2
        <4>2. SectorStart(b) + QfSector <= p
            BY <1>1, <1>2, <2>1, <4>1, MultiplesApart
        <4> QED
            BY <1>1, <1>2, <1>5, <4>2
      <3> QED
          BY <3>1, <3>2
    <2> QED
        BY <1>1, <1>2, <1>5, <2>1, <2>2, <2>3
  <1>6. ASSUME a \in SectorStart(at)..p - 1
        PROVE  \E b \in at..at + len - 1 : SectorStart(b) = SectorStart(a)
    <2>1. SectorStart(at) \in Nat /\ SectorStart(at) <= at /\ SectorStart(at) <= a /\ a < p
        BY <1>1, <1>2, <1>6
    <2>2. CASE a \in at..at + len - 1
        BY <2>2
    <2>3. CASE a < at
      <3>1. SectorStart(a) = SectorStart(at)
          BY <1>1, <1>2, <1>3, <2>1, <2>3
      <3>2. len > 0
        <4>1. p = at => SectorStart(at) = at
            BY <1>1, <1>3
        <4> QED
            BY <1>1, <2>1, <2>3, <4>1
      <3>3. at \in at..at + len - 1
          BY <3>2
      <3> QED
          BY <3>1, <3>3
    <2>4. CASE a >= at + len
      <3>1. p > SectorStart(at) /\ p < at + len + QfSector
          BY <1>1, <2>1
      <3>2. SectorStart(a) < p
          BY <1>1, <1>2, <2>1
      <3>3. SectorStart(a) + QfSector <= p
          BY <1>1, <1>2, <3>2, MultiplesApart
      <3>4. len > 0
          BY <1>1, <2>1, <2>4
      <3>5. at + len - 1 \in Nat /\ SectorStart(a) <= at + len - 1 /\ at + len - 1 < SectorStart(a) + QfSector
        <4>1. /\ SectorStart(a) \in Nat /\ SectorStart(a) <= a /\ a < SectorStart(a) + QfSector
            BY <1>1, <1>2
        <4> QED
            BY <1>1, <2>4, <3>1, <3>3, <3>4, <4>1
      <3>6. SectorStart(at + len - 1) = SectorStart(a)
          BY <1>1, <1>2, <1>3, <3>5
      <3>7. at + len - 1 \in at..at + len - 1
          BY <3>4
      <3> QED
          BY <3>6, <3>7
    <2> QED
        BY <1>1, <2>2, <2>3, <2>4
  <1> QED
      BY <1>5, <1>6

\* What is asked of the thread.  An empty erase would take a sector with it unless it
\* begins with one, so none is asked for.
Contents == [Bytes -> {"FF", "D"}]
QfReqs == [op : {"READ", "FAST", "WRITE", "ERASE", "NONE"}, task : QfTasks \cup {0},
           address : Nat, len : Nat]
Asked(r) ==
  /\ r.op # "NONE" /\ r.task \in QfTasks
  /\ r.len > 0 \/ r.address % QfSector = 0

Inside(t) == qfTask[t].pc \in {"send", "sent", "wait", "done"}
Reader(t) == qfTask[t].pc \in {"sent", "wait"} /\ IsRead(qfTask[t].req.op)
Waits(r) == Reader(r.task) /\ qfTask[r.task].req = r /\ qfReady = 0

FlashTypes ==
  /\ qfFlash \in Contents /\ qfQueue \in Seq(QfReqs) /\ qfReady \in {0, 1}
  /\ qfRun \in [pc : {"idle", "run"}, req : QfReqs, address : Nat, left : Nat, before : Contents]

\* A task in an operation has the lock and its request is as it asked.
TaskRight(t) ==
  /\ qfTask[t].req \in QfReqs
  /\ Inside(t) => qfTask[t].depth > 0
  /\ qfTask[t].pc = "send" =>
        Asked(qfTask[t].req) /\ qfTask[t].req.task = t /\ qfTask[t].buf = <<>>
  /\ qfTask[t].pc = "done" /\ IsRead(qfTask[t].req.op) => Len(qfTask[t].buf) = qfTask[t].req.len

\* A read is the last operation of the queue, and its task waits for it.
QueueRight ==
  \A i \in 1..Len(qfQueue) :
     /\ Asked(qfQueue[i])
     /\ IsRead(qfQueue[i].op) =>
           i = Len(qfQueue) /\ Waits(qfQueue[i]) /\ qfTask[qfQueue[i].task].buf = <<>>

\* The signal is for the task that waits, when it has been served.
ReadyRight ==
  qfReady = 1 =>
     /\ qfQueue = <<>> /\ qfRun.pc = "idle"
     /\ \E t \in QfTasks : Reader(t) /\ Len(qfTask[t].buf) = qfTask[t].req.len

\* How far a read, a write and an erase have come.
ReadRight(r, at, left, buf) ==
  LET pos == r.len - left IN
  /\ left <= r.len /\ qfFlash = qfRun.before
  /\ buf \in Seq({"FF", "D"}) /\ pos <= Len(buf) /\ (left = 0 => Len(buf) = pos)
  /\ \A i \in 1..pos : buf[i] = Expected(qfRun.before, r.address, r.len)[i]
  /\ pos > 0 => at = r.address + pos /\ at <= QfSize
  /\ pos = 0 => at = r.address \/ (at = QfSize /\ r.address >= QfSize)

WriteRight(r, at, left) ==
  /\ left <= r.len /\ at = r.address + r.len - left
  /\ qfFlash = [a \in Bytes |-> IF a \in r.address..at - 1 THEN "D" ELSE qfRun.before[a]]

SectorRight(r, at, left) ==
  LET from == SectorStart(r.address)
      end == r.address + r.len
  IN  /\ at % QfSector = 0 /\ from <= at
      /\ at > from => at < end + QfSector
      /\ r.len > 0 \/ at = r.address
      /\ left = IF at < end THEN end - at ELSE 0
      /\ qfFlash = [a \in Bytes |-> IF a \in from..at - 1 THEN "FF" ELSE qfRun.before[a]]

ChipRight(r, at, left) ==
  /\ r.address = 0 /\ r.len >= QfSize /\ at >= QfSize /\ left = 0
  /\ qfFlash = [a \in Bytes |-> "FF"]

RunRight ==
  LET r == qfRun.req IN
  qfRun.pc = "run" =>
     /\ Asked(r) /\ qfConn = (IF r.op = "FAST" THEN "fast" ELSE "fl")
     /\ IsRead(r.op) =>
           /\ Waits(r) /\ qfQueue = <<>>
           /\ ReadRight(r, qfRun.address, qfRun.left, qfTask[r.task].buf)
     /\ r.op = "WRITE" => WriteRight(r, qfRun.address, qfRun.left)
     /\ r.op = "ERASE" => SectorRight(r, qfRun.address, qfRun.left)
                          \/ ChipRight(r, qfRun.address, qfRun.left)

\* The ports are with the library of the last operation.
PortsRight ==
  /\ qfLast \in {"NONE", "READ", "FAST", "WRITE", "ERASE"}
  /\ qfRun.pc = "idle" => /\ qfLast = "FAST" => qfConn = "fast"
                          /\ qfLast \in {"READ", "WRITE", "ERASE"} => qfConn = "fl"

\* The inductive invariant.
FlashData ==
  /\ FlashTypes /\ QueueRight /\ ReadyRight /\ RunRight /\ PortsRight
  /\ \A t \in QfTasks : TaskRight(t)

\* Tasks that are in an operation have the mutex.
LEMMA OneInside ==
  ASSUME FlashInv, \A t \in QfTasks : TaskRight(t),
         NEW t \in QfTasks, NEW u \in QfTasks, Inside(t), Inside(u)
  PROVE  t = u
  <1>1. ASSUME NEW s \in QfTasks, Inside(s) PROVE qfMutex.owner = s
    <2>1. qfTask[s].depth > 0 /\ qfTask[s].depth \in Nat
        BY <1>1 DEF TaskRight, FlashInv, FlashShape
    <2>2. MutexOf(s) > 0
        BY <2>1 DEF MutexOf
    <2> QED
        BY <2>2 DEF FlashInv, MutexRight
  <1> QED
      BY <1>1

\* Steps of tasks that are not readers before, and leave what they share with the
\* thread alone.
LEMMA FlashAsideInv ==
  ASSUME FlashData, UNCHANGED <<qfFlash, qfQueue, qfReady, qfRun, qfLast, qfConn>>,
         \A t \in QfTasks : TaskRight(t)',
         \A t \in QfTasks : Reader(t) => /\ Reader(t)' /\ qfTask'[t].req = qfTask[t].req
                                         /\ qfTask'[t].buf = qfTask[t].buf
  PROVE  FlashData'
  <1>1. ASSUME NEW r, r.task \in QfTasks, Waits(r)
        PROVE  Waits(r)' /\ qfTask'[r.task].buf = qfTask[r.task].buf
      BY <1>1 DEF Waits
  <1>2. FlashTypes' /\ PortsRight'
      BY DEF FlashData, FlashTypes, PortsRight
  <1>3. QueueRight'
      BY <1>1 DEF FlashData, QueueRight, Asked
  <1>4. ReadyRight'
      BY DEF FlashData, ReadyRight
  <1>5. RunRight'
    <2> SUFFICES ASSUME qfRun.pc = "run" PROVE RunRight'
        BY DEF RunRight
    <2>1. /\ Asked(qfRun.req) /\ qfRun.req.task \in QfTasks
          /\ IsRead(qfRun.req.op) =>
                /\ Waits(qfRun.req) /\ qfQueue = <<>>
                /\ ReadRight(qfRun.req, qfRun.address, qfRun.left, qfTask[qfRun.req.task].buf)
        BY DEF FlashData, RunRight, Asked
    <2>2. IsRead(qfRun.req.op) =>
                /\ Waits(qfRun.req)' /\ qfTask'[qfRun.req.task].buf = qfTask[qfRun.req.task].buf
        BY <1>1, <2>1
    <2> QED
        BY <2>1, <2>2 DEF FlashData, RunRight, ReadRight, WriteRight, SectorRight, ChipRight
  <1> QED
      BY <1>2, <1>3, <1>4, <1>5 DEF FlashData

\* The fields of a task's record after a step.
Becomes(t, p, d, r, b) ==
  /\ \A s \in QfTasks \ {t} : qfTask'[s] = qfTask[s]
  /\ qfTask'[t].pc = p /\ qfTask'[t].depth = d /\ qfTask'[t].req = r /\ qfTask'[t].buf = b

LEMMA TaskFields ==
  ASSUME FlashInv, NEW t \in QfTasks, NEW p, NEW d, NEW r, NEW b
  PROVE  LET c == qfTask[t] IN
         /\ qfTask' = [qfTask EXCEPT ![t].pc = p] => Becomes(t, p, c.depth, c.req, c.buf)
         /\ qfTask' = [qfTask EXCEPT ![t].depth = d] => Becomes(t, c.pc, d, c.req, c.buf)
         /\ qfTask' = [qfTask EXCEPT ![t].pc = p, ![t].depth = d] => Becomes(t, p, d, c.req, c.buf)
         /\ qfTask' = [qfTask EXCEPT ![t].depth = d, ![t].pc = p] => Becomes(t, p, d, c.req, c.buf)
         /\ qfTask' = [qfTask EXCEPT ![t].pc = p, ![t].req = r, ![t].buf = b]
               => Becomes(t, p, c.depth, r, b)
         /\ qfTask' = [qfTask EXCEPT ![t].pc = p, ![t].buf = b, ![t].req = r]
               => Becomes(t, p, c.depth, r, b)
         /\ qfTask' = [qfTask EXCEPT ![t].buf = b] => Becomes(t, c.pc, c.depth, c.req, b)
  <1> DEFINE c == qfTask[t]
  <1>1. /\ qfTask = [s \in QfTasks |-> qfTask[s]]
        /\ c = [pc |-> c.pc, depth |-> c.depth, req |-> c.req, buf |-> c.buf]
      BY DEF FlashInv, FlashShape
  <1>2. ASSUME qfTask' = [qfTask EXCEPT ![t].pc = p] PROVE Becomes(t, p, c.depth, c.req, c.buf)
      BY ONLY <1>1, <1>2, t \in QfTasks DEF Becomes
  <1>3. ASSUME qfTask' = [qfTask EXCEPT ![t].depth = d] PROVE Becomes(t, c.pc, d, c.req, c.buf)
      BY ONLY <1>1, <1>3, t \in QfTasks DEF Becomes
  <1>4. ASSUME qfTask' = [qfTask EXCEPT ![t].pc = p, ![t].depth = d]
        PROVE  Becomes(t, p, d, c.req, c.buf)
      BY ONLY <1>1, <1>4, t \in QfTasks DEF Becomes
  <1>5. ASSUME qfTask' = [qfTask EXCEPT ![t].depth = d, ![t].pc = p]
        PROVE  Becomes(t, p, d, c.req, c.buf)
      BY ONLY <1>1, <1>5, t \in QfTasks DEF Becomes
  <1>6. ASSUME qfTask' = [qfTask EXCEPT ![t].pc = p, ![t].req = r, ![t].buf = b]
        PROVE  Becomes(t, p, c.depth, r, b)
      BY ONLY <1>1, <1>6, t \in QfTasks DEF Becomes
  <1>7. ASSUME qfTask' = [qfTask EXCEPT ![t].pc = p, ![t].buf = b, ![t].req = r]
        PROVE  Becomes(t, p, c.depth, r, b)
      BY ONLY <1>1, <1>7, t \in QfTasks DEF Becomes
  <1>8. ASSUME qfTask' = [qfTask EXCEPT ![t].buf = b] PROVE Becomes(t, c.pc, c.depth, c.req, b)
      BY ONLY <1>1, <1>8, t \in QfTasks DEF Becomes
  <1> QED
      BY <1>2, <1>3, <1>4, <1>5, <1>6, <1>7, <1>8

\* Tasks that take, give back and ask.
LEMMA FlashTaskDataInv ==
  ASSUME QfLockAlways = TRUE, \A r \in QfRanges : r[2] > 0 \/ r[1] % QfSector = 0,
         FlashInv, FlashData, NEW t \in QfTasks,
         QfLock(t) \/ QfSpinGet(t) \/ QfSpinPut(t) \/ QfUnlock(t) \/ QfRequest(t)
         \/ QfSent(t) \/ QfReturn(t)
  PROVE  FlashData'
  <1>1. UNCHANGED <<qfFlash, qfQueue, qfReady, qfRun, qfLast, qfConn>>
      BY DEF QfLock, QfSpinGet, QfSpinPut, QfUnlock, QfRequest, QfSent, QfReturn, QfShared
  <1>2. TaskRight(t) /\ qfTask[t].depth \in Nat
      BY DEF FlashData, FlashInv, FlashShape
  <1>3. SUFFICES /\ \A s \in QfTasks \ {t} : qfTask'[s] = qfTask[s]
                 /\ TaskRight(t)'
                 /\ Reader(t) => /\ Reader(t)' /\ qfTask'[t].req = qfTask[t].req
                                 /\ qfTask'[t].buf = qfTask[t].buf
    <2>1. ASSUME \A s \in QfTasks \ {t} : qfTask'[s] = qfTask[s], TaskRight(t)'
          PROVE  \A s \in QfTasks : TaskRight(s)'
      <3>1. \A s \in QfTasks \ {t} : TaskRight(s)'
          BY <2>1 DEF FlashData, TaskRight, Inside, Asked
      <3> QED
          BY <2>1, <3>1
    <2>2. ASSUME \A s \in QfTasks \ {t} : qfTask'[s] = qfTask[s]
          PROVE  \A s \in QfTasks \ {t} : Reader(s) => Reader(s)'
        BY <2>2 DEF Reader
    <2> QED
        BY <1>1, <2>1, <2>2, FlashAsideInv
  <1>4. CASE QfLock(t) /\ qfMutex.owner = t
    <2> DEFINE d == qfTask[t].depth + 1
    <2>1. qfTask' = [qfTask EXCEPT ![t].depth = d] /\ qfTask[t].pc \in {"idle", "locked"}
        BY <1>4 DEF QfLock
    <2> HIDE DEF d
    <2>2. Becomes(t, qfTask[t].pc, d, qfTask[t].req, qfTask[t].buf)
        BY <2>1, TaskFields
    <2> QED
        BY <1>2, <2>1, <2>2 DEF Becomes, TaskRight, Inside, Reader, Asked
  <1>5. CASE QfLock(t) /\ qfMutex.owner # t
    <2>1. qfTask' = [qfTask EXCEPT ![t].pc = "spin"] /\ qfTask[t].pc \in {"idle", "locked"}
        BY <1>5 DEF QfLock, QfGoto
    <2>2. Becomes(t, "spin", qfTask[t].depth, qfTask[t].req, qfTask[t].buf)
        BY <2>1, TaskFields
    <2> QED
        BY <1>2, <2>1, <2>2 DEF Becomes, TaskRight, Inside, Reader, Asked
  <1>6. CASE QfSpinGet(t)
    <2>1. qfTask' = [qfTask EXCEPT ![t].pc = "locked", ![t].depth = 1] /\ qfTask[t].pc = "spin"
        BY <1>6 DEF QfSpinGet
    <2>2. Becomes(t, "locked", 1, qfTask[t].req, qfTask[t].buf)
        BY <2>1, TaskFields
    <2> QED
        BY <1>2, <2>1, <2>2 DEF Becomes, TaskRight, Inside, Reader, Asked
  <1>7. CASE QfSpinPut(t)
    <2>1. qfTask' = [qfTask EXCEPT ![t].pc = "unlock"] /\ qfTask[t].pc = "locked"
        BY <1>7 DEF QfSpinPut, QfGoto
    <2>2. Becomes(t, "unlock", qfTask[t].depth, qfTask[t].req, qfTask[t].buf)
        BY <2>1, TaskFields
    <2> QED
        BY <1>2, <2>1, <2>2 DEF Becomes, TaskRight, Inside, Reader, Asked
  <1>8. CASE QfUnlock(t)
    <2> DEFINE p == IF qfTask[t].depth = 1 THEN "idle" ELSE "locked"
               d == qfTask[t].depth - 1
    <2>1. qfTask' = [qfTask EXCEPT ![t].depth = d, ![t].pc = p] /\ qfTask[t].pc = "unlock"
        BY <1>8 DEF QfUnlock
    <2>2. p \in {"idle", "locked"}
        OBVIOUS
    <2> HIDE DEF p, d
    <2>3. Becomes(t, p, d, qfTask[t].req, qfTask[t].buf)
        BY <2>1, TaskFields
    <2> QED
        BY <1>2, <2>1, <2>2, <2>3 DEF Becomes, TaskRight, Inside, Reader, Asked
  <1>9. CASE QfRequest(t)
    <2>1. PICK op \in {QfReadOp, "WRITE", "ERASE"}, range \in QfRanges :
             qfTask' = [qfTask EXCEPT ![t].pc = "send", ![t].buf = <<>>,
                           ![t].req = [op |-> op, task |-> t, address |-> range[1], len |-> range[2]]]
        BY <1>9 DEF QfRequest
    <2> DEFINE r == [op |-> op, task |-> t, address |-> range[1], len |-> range[2]]
    <2>2. r \in QfReqs /\ Asked(r) /\ r.task = t
        BY QfSizes DEF QfReqs, Asked, QfReadOp
    <2>3. qfTask' = [qfTask EXCEPT ![t].pc = "send", ![t].buf = <<>>, ![t].req = r]
        BY <2>1
    <2> HIDE DEF r
    <2>4. Becomes(t, "send", qfTask[t].depth, r, <<>>)
        BY <2>3, TaskFields
    <2>5. qfTask[t].pc = "locked" /\ qfTask[t].depth > 0
        BY <1>9 DEF QfRequest, FlashInv, MutexRight
    <2> QED
        BY <1>2, <2>2, <2>4, <2>5 DEF Becomes, TaskRight, Inside, Reader, Asked
  <1>10. CASE QfSent(t)
    <2> DEFINE p == IF IsRead(qfTask[t].req.op) THEN "wait" ELSE "done"
    <2>1. qfTask' = [qfTask EXCEPT ![t].pc = p] /\ qfTask[t].pc = "sent"
        BY <1>10 DEF QfSent, QfGoto
    <2>2. p \in {"wait", "done"} /\ (p = "done" <=> ~ IsRead(qfTask[t].req.op))
        OBVIOUS
    <2> HIDE DEF p
    <2>3. Becomes(t, p, qfTask[t].depth, qfTask[t].req, qfTask[t].buf)
        BY <2>1, TaskFields
    <2> QED
        BY <1>2, <2>1, <2>2, <2>3 DEF Becomes, TaskRight, Inside, Reader, Asked
  <1>11. CASE QfReturn(t)
    <2> DEFINE p == IF qfTask[t].depth > 0 THEN "locked" ELSE "idle"
    <2>1. qfTask' = [qfTask EXCEPT ![t].pc = p, ![t].req = QfNoOp, ![t].buf = <<>>] /\ qfTask[t].pc = "done"
        BY <1>11 DEF QfReturn
    <2>2. p \in {"idle", "locked"} /\ QfNoOp \in QfReqs
        BY DEF QfNoOp, QfReqs
    <2> HIDE DEF p
    <2>3. Becomes(t, p, qfTask[t].depth, QfNoOp, <<>>)
        BY <2>1, TaskFields
    <2> QED
        BY <1>2, <2>1, <2>2, <2>3 DEF Becomes, TaskRight, Inside, Reader, Asked
  <1> QED
      BY <1>4, <1>5, <1>6, <1>7, <1>8, <1>9, <1>10, <1>11

\* A low level read.
LEMMA FlashLlDataInv == ASSUME FlashData, QfLlGet \/ QfLlPut PROVE FlashData'
  <1>1. UNCHANGED <<qfFlash, qfQueue, qfReady, qfRun, qfLast, qfConn, qfTask>>
      BY DEF QfLlGet, QfLlPut, QfShared
  <1>2. \A t \in QfTasks : TaskRight(t)' /\ (Reader(t) => Reader(t)')
      BY <1>1 DEF FlashData, TaskRight, Reader, Inside, Asked
  <1> QED
      BY <1>1, <1>2, FlashAsideInv

\* While a task is about to queue its operation no other waits for one.
LEMMA NoReader ==
  ASSUME FlashInv, FlashData, NEW t \in QfTasks, qfTask[t].pc = "send"
  PROVE  /\ qfReady = 0
         /\ \A i \in 1..Len(qfQueue) : ~ IsRead(qfQueue[i].op)
         /\ qfRun.pc = "run" => ~ IsRead(qfRun.req.op)
         /\ \A u \in QfTasks : ~ Reader(u)
  <1>1. ASSUME NEW u \in QfTasks, Reader(u) PROVE FALSE
    <2>1. Inside(u) /\ Inside(t)
        BY <1>1 DEF Reader, Inside
    <2>2. u = t
        BY <2>1, OneInside DEF FlashData
    <2> QED
        BY <1>1, <2>2 DEF Reader
  <1> QED
      BY <1>1 DEF FlashData, FlashTypes, ReadyRight, QueueRight, RunRight, Waits, Asked

\* A task that queues its operation is the only one inside.
LEMMA FlashSendDataInv ==
  ASSUME FlashInv, FlashData, NEW t \in QfTasks, QfSend(t)
  PROVE  FlashData'
  <1>0. qfTask[t].req \in QfReqs
      BY DEF FlashData, TaskRight
  <1> PICK r \in QfReqs : r = qfTask[t].req
      BY <1>0
  <1>1. /\ qfTask' = [qfTask EXCEPT ![t].pc = "sent"] /\ qfTask[t].pc = "send"
        /\ qfQueue' = Append(qfQueue, r)
        /\ UNCHANGED <<qfFlash, qfReady, qfRun, qfLast, qfConn>>
      BY DEF QfSend, QfGoto, QfShared
  <1>2. Becomes(t, "sent", qfTask[t].depth, r, qfTask[t].buf)
      BY <1>1, TaskFields
  <1>3. Asked(r) /\ r.task = t /\ qfTask[t].buf = <<>> /\ r \in QfReqs
      BY <1>1 DEF FlashData, TaskRight
  <1>4. /\ qfReady = 0 /\ \A i \in 1..Len(qfQueue) : ~ IsRead(qfQueue[i].op)
        /\ qfRun.pc = "run" => ~ IsRead(qfRun.req.op)
      BY <1>1, NoReader
  <1>5. /\ qfTask'[t].pc = "sent" /\ qfTask'[t].req = r /\ qfTask'[t].buf = <<>>
        /\ \A s \in QfTasks \ {t} : qfTask'[s] = qfTask[s]
        /\ qfTask'[t].depth = qfTask[t].depth
      BY <1>2, <1>3 DEF Becomes
  <1>6. FlashTypes' /\ PortsRight' /\ ReadyRight'
      BY <1>1, <1>3, <1>4 DEF FlashData, FlashTypes, PortsRight, ReadyRight
  <1>7. \A s \in QfTasks : TaskRight(s)'
    <2>1. TaskRight(t)'
        BY <1>1, <1>3, <1>5 DEF FlashData, TaskRight, Inside
    <2>2. \A s \in QfTasks \ {t} : TaskRight(s)'
        BY <1>5 DEF FlashData, TaskRight, Inside, Asked
    <2> QED
        BY <2>1, <2>2
  <1>8. RunRight'
      BY <1>1, <1>4 DEF FlashData, RunRight, Asked, WriteRight, SectorRight, ChipRight
  <1>9. QueueRight'
    <2>1. /\ qfQueue \in Seq(QfReqs) /\ Len(qfQueue') = Len(qfQueue) + 1
          /\ \A i \in 1..Len(qfQueue) : qfQueue'[i] = qfQueue[i]
          /\ qfQueue'[Len(qfQueue) + 1] = r
        BY <1>1, <1>3 DEF FlashData, FlashTypes
    <2>2. Waits(r)' \/ ~ IsRead(r.op)
        BY <1>1, <1>3, <1>4, <1>5 DEF Waits, Reader
    <2>3. ASSUME NEW i \in 1..Len(qfQueue)
          PROVE  Asked(qfQueue'[i]) /\ ~ IsRead(qfQueue'[i].op)
        BY <1>4, <2>1 DEF FlashData, QueueRight
    <2>4. ASSUME NEW i \in 1..Len(qfQueue') PROVE i \in 1..Len(qfQueue) \/ i = Len(qfQueue) + 1
        BY <2>1
    <2>5. qfTask'[r.task].buf = <<>>
        BY <1>3, <1>5
    <2> QED
        BY <1>3, <2>1, <2>2, <2>3, <2>4, <2>5 DEF QueueRight, Asked
  <1> QED
      BY <1>6, <1>7, <1>8, <1>9 DEF FlashData

\* The signal a task takes is its own.
LEMMA FlashWaitDataInv ==
  ASSUME FlashInv, FlashData, NEW t \in QfTasks, QfWait(t)
  PROVE  FlashData'
  <1>1. /\ qfTask' = [qfTask EXCEPT ![t].pc = "done"] /\ qfTask[t].pc = "wait"
        /\ qfReady = 1 /\ qfReady' = 0
        /\ UNCHANGED <<qfFlash, qfQueue, qfRun, qfLast, qfConn>>
      BY DEF QfWait, QfGoto, QfShared
  <1>2. Becomes(t, "done", qfTask[t].depth, qfTask[t].req, qfTask[t].buf)
      BY <1>1, TaskFields
  <1>3. PICK u \in QfTasks : Reader(u) /\ Len(qfTask[u].buf) = qfTask[u].req.len
      BY <1>1 DEF FlashData, ReadyRight
  <1>4. u = t
    <2>1. Inside(t) /\ Inside(u)
        BY <1>1, <1>3 DEF Inside, Reader
    <2> QED
        BY <2>1, OneInside DEF FlashData
  <1>5. qfQueue = <<>> /\ qfRun.pc = "idle"
      BY <1>1 DEF FlashData, ReadyRight
  <1>6. FlashTypes' /\ PortsRight' /\ ReadyRight' /\ QueueRight' /\ RunRight'
      BY <1>1, <1>5 DEF FlashData, FlashTypes, PortsRight, ReadyRight, QueueRight, RunRight
  <1>7. \A s \in QfTasks \ {t} : TaskRight(s)'
      BY <1>2 DEF FlashData, TaskRight, Inside, Asked, Becomes
  <1>8. TaskRight(t)'
      BY <1>1, <1>2, <1>3, <1>4 DEF FlashData, TaskRight, Inside, Becomes
  <1> QED
      BY <1>6, <1>7, <1>8 DEF FlashData

\* Where a sector starts.
LEMMA SectorStartBelow ==
  ASSUME NEW x \in Nat
  PROVE  /\ SectorStart(x) \in Nat /\ SectorStart(x) <= x /\ SectorStart(x) % QfSector = 0
         /\ x % QfSector = 0 => SectorStart(x) = x
  <1>1. QfSector \in Nat \ {0}
      BY QfSizes
  <1>2. x % QfSector \in 0..QfSector - 1
      BY <1>1, MultipleBelow, Zenon
  <1>3. SectorStart(x) \in Nat /\ SectorStart(x) % QfSector = 0
      BY <1>1, MultipleBelow, Zenon DEF SectorStart
  <1>4. SectorStart(x) = x - (x % QfSector)
      BY DEF SectorStart
  <1> QED
      BY <1>1, <1>2, <1>3, <1>4

\* The thread takes a request: nothing of it is done yet.
LEMMA FlashReceiveDataInv ==
  ASSUME FlashInv, FlashData, QfReceive
  PROVE  FlashData'
  <1>1. /\ qfQueue \in Seq(QfReqs) /\ qfQueue # <<>> /\ qfRun.pc = "idle" /\ qfReady = 0
        /\ qfFlash \in Contents
      BY DEF FlashData, FlashTypes, ReadyRight, QfReceive
  <1>2. Len(qfQueue) \in Nat \ {0} /\ Head(qfQueue) = qfQueue[1] /\ qfQueue[1] \in QfReqs
      BY <1>1
  <1> PICK r \in QfReqs : r = qfQueue[1]
      BY <1>2
  <1> PICK from : from = IF r.op = "ERASE" THEN SectorStart(r.address) ELSE r.address
      OBVIOUS
  <1> PICK left : left = r.len + r.address - from
      OBVIOUS
  <1>3. /\ qfQueue' = Tail(qfQueue) /\ qfConn' = Connection(qfLast, r.op)
        /\ qfRun' = [pc |-> "run", req |-> r, address |-> from, left |-> left, before |-> qfFlash]
        /\ UNCHANGED <<qfFlash, qfTask, qfReady, qfLast>>
      BY <1>2 DEF QfReceive
  <1>4. /\ qfRun'.pc = "run" /\ qfRun'.req = r /\ qfRun'.address = from /\ qfRun'.left = left
        /\ qfRun'.before = qfFlash
      BY <1>3
  <1>5. /\ Asked(r) /\ r.address \in Nat /\ r.len \in Nat
        /\ r.op \in {"READ", "FAST", "WRITE", "ERASE"}
        /\ IsRead(r.op) => Len(qfQueue) = 1 /\ Waits(r) /\ qfTask[r.task].buf = <<>>
    <2>1. 1 \in 1..Len(qfQueue)
        BY <1>2
    <2>2. /\ Asked(r)
          /\ IsRead(r.op) => 1 = Len(qfQueue) /\ Waits(r) /\ qfTask[r.task].buf = <<>>
        BY <2>1 DEF FlashData, QueueRight
    <2> QED
        BY <2>2 DEF QfReqs, Asked
  <1>6. /\ SectorStart(r.address) \in Nat /\ SectorStart(r.address) <= r.address
        /\ SectorStart(r.address) % QfSector = 0
        /\ r.address % QfSector = 0 => SectorStart(r.address) = r.address
      BY <1>5, SectorStartBelow
  <1>7. from \in Nat /\ left \in Nat
      BY <1>5, <1>6
  <1>8. /\ qfQueue' \in Seq(QfReqs) /\ Len(qfQueue') = Len(qfQueue) - 1
        /\ \A i \in 1..Len(qfQueue') : qfQueue'[i] = qfQueue[i + 1]
      BY <1>1, <1>3
  <1>9. FlashTypes'
      BY <1>1, <1>3, <1>4, <1>7, <1>8 DEF FlashTypes
  <1>10. QueueRight'
    <2>1. ASSUME NEW i \in 1..Len(qfQueue'), NEW q, q = qfQueue'[i]
          PROVE  /\ Asked(q)
                 /\ IsRead(q.op) => i = Len(qfQueue') /\ Waits(q) /\ qfTask[q.task].buf = <<>>
      <3>1. i + 1 \in 1..Len(qfQueue) /\ q = qfQueue[i + 1]
          BY <1>2, <1>8, <2>1
      <3> PICK j \in 1..Len(qfQueue) : j = i + 1 /\ q = qfQueue[j]
          BY <3>1
      <3>2. /\ Asked(q)
            /\ IsRead(q.op) => j = Len(qfQueue) /\ Waits(q) /\ qfTask[q.task].buf = <<>>
          BY DEF FlashData, QueueRight
      <3> QED
          BY <1>2, <1>8, <3>2
    <2>2. \A q : Waits(q) => Waits(q)'
        BY <1>3 DEF Waits, Reader
    <2> QED
        BY <1>3, <2>1, <2>2 DEF QueueRight, Asked, Waits, Reader
  <1>11. ReadyRight' /\ PortsRight'
      BY <1>1, <1>3, <1>4 DEF FlashData, ReadyRight, PortsRight
  <1>12. \A t \in QfTasks : TaskRight(t)'
      BY <1>3 DEF FlashData, TaskRight, Inside, Asked
  <1>13. qfConn' = IF r.op = "FAST" THEN "fast" ELSE "fl"
      BY <1>1, <1>3, <1>5 DEF FlashData, PortsRight, Connection
  <1>14. IsRead(r.op) => /\ Waits(r)' /\ qfQueue' = <<>>
                         /\ ReadRight(r, from, left, qfTask[r.task].buf)'
    <2> SUFFICES ASSUME IsRead(r.op)
                 PROVE  /\ Waits(r)' /\ qfQueue' = <<>>
                        /\ ReadRight(r, from, left, qfTask[r.task].buf)'
        OBVIOUS
    <2>1. from = r.address /\ left = r.len
        BY <1>5 DEF IsRead
    <2>2. Waits(r)'
        BY ONLY <1>3, <1>5, IsRead(r.op) DEF Waits, Reader
    <2>7. qfQueue' = <<>>
      <3>1. qfQueue' \in Seq(QfReqs) /\ Len(qfQueue') = 0
          BY <1>5, <1>8
      <3> QED
          BY ONLY <3>1
    <2>3. r.task \in QfTasks /\ qfTask[r.task].buf = <<>>
        BY <1>5 DEF Asked
    <2>4. r.len - r.len = 0 /\ r.len <= r.len
        BY <1>5
    <2>5. /\ qfTask'[r.task].buf = <<>> /\ qfTask'[r.task].buf \in Seq({"FF", "D"})
          /\ Len(qfTask'[r.task].buf) = 0
        BY <1>3, <2>3
    <2>6. ReadRight(r, from, left, qfTask[r.task].buf)'
        BY <1>3, <1>4, <1>5, <2>1, <2>4, <2>5 DEF ReadRight
    <2> QED
        BY <2>2, <2>6, <2>7
  <1>15. r.op = "WRITE" => WriteRight(r, from, left)'
      BY <1>1, <1>3, <1>4, <1>5 DEF WriteRight, Contents
  <1>16. r.op = "ERASE" => SectorRight(r, from, left)'
      BY <1>1, <1>3, <1>4, <1>5, <1>6 DEF SectorRight, Contents, Asked
  <1>17. RunRight'
      BY <1>3, <1>4, <1>5, <1>13, <1>14, <1>15, <1>16 DEF RunRight, Asked
  <1> QED
      BY <1>9, <1>10, <1>11, <1>12, <1>17 DEF FlashData

\* The loop has ended; a read is signalled.
LEMMA FlashFinishDataInv ==
  ASSUME FlashInv, FlashData, QfFinish
  PROVE  FlashData'
  <1> PICK r : r = qfRun.req
      OBVIOUS
  <1>1. /\ qfRun.pc = "run" /\ qfReady' = (IF IsRead(r.op) THEN 1 ELSE qfReady) /\ qfLast' = r.op
        /\ qfRun' = [pc |-> "idle", req |-> QfNoOp, address |-> 0, left |-> 0, before |-> qfFlash]
        /\ UNCHANGED <<qfFlash, qfTask, qfQueue, qfConn>>
      BY DEF QfFinish, QfAtEnd
  <1>2. /\ r \in QfReqs /\ Asked(r) /\ qfConn = (IF r.op = "FAST" THEN "fast" ELSE "fl")
        /\ qfReady = 0
      BY <1>1 DEF FlashData, FlashTypes, RunRight, ReadyRight
  <1>3. IsRead(r.op) => /\ qfRun.left = 0 /\ qfQueue = <<>> /\ Waits(r)
                        /\ Len(qfTask[r.task].buf) = r.len
    <2> SUFFICES ASSUME IsRead(r.op)
                 PROVE  /\ qfRun.left = 0 /\ qfQueue = <<>> /\ Waits(r)
                        /\ Len(qfTask[r.task].buf) = r.len
        OBVIOUS
    <2>1. /\ Waits(r) /\ qfQueue = <<>> /\ qfRun.left = 0
          /\ ReadRight(r, qfRun.address, qfRun.left, qfTask[r.task].buf)
        BY <1>1 DEF FlashData, RunRight, QfFinish, QfAtEnd
    <2>2. Len(qfTask[r.task].buf) = r.len - 0
        BY <2>1 DEF ReadRight
    <2> QED
        BY <1>2, <2>1, <2>2 DEF QfReqs
  <1>4. FlashTypes'
      BY <1>1, <1>2 DEF FlashData, FlashTypes, QfReqs, QfNoOp
  <1>5. QueueRight'
    <2>1. CASE IsRead(r.op)
        BY <1>1, <1>3, <2>1 DEF QueueRight
    <2>2. CASE ~ IsRead(r.op)
        BY <1>1, <2>2 DEF FlashData, QueueRight, Asked, Waits, Reader
    <2> QED
        BY <2>1, <2>2
  <1>6. ReadyRight'
    <2>1. CASE IsRead(r.op)
      <3>1. r.task \in QfTasks /\ Reader(r.task) /\ Len(qfTask[r.task].buf) = qfTask[r.task].req.len
          BY <1>2, <1>3, <2>1 DEF Waits, Asked
      <3> QED
          BY <1>1, <1>3, <2>1, <3>1 DEF ReadyRight, Reader
    <2>2. CASE ~ IsRead(r.op)
        BY <1>1, <1>2, <2>2 DEF ReadyRight
    <2> QED
        BY <2>1, <2>2
  <1>7. RunRight' /\ \A t \in QfTasks : TaskRight(t)'
      BY <1>1 DEF FlashData, RunRight, TaskRight, Inside, Asked
  <1>8. PortsRight'
      BY <1>1, <1>2 DEF PortsRight, Asked, QfReqs
  <1> QED
      BY <1>4, <1>5, <1>6, <1>7, <1>8 DEF FlashData

\* The thread goes on with a request that is not a read.
LEMMA FlashGoesOn ==
  ASSUME FlashData, qfRun.pc = "run", ~ IsRead(qfRun.req.op), qfFlash' \in Contents,
         NEW at \in Nat, NEW left \in Nat,
         qfRun' = [qfRun EXCEPT !.address = at, !.left = left],
         UNCHANGED <<qfTask, qfQueue, qfReady, qfLast, qfConn>>,
         /\ qfRun.req.op = "WRITE" => WriteRight(qfRun.req, at, left)'
         /\ qfRun.req.op = "ERASE" => SectorRight(qfRun.req, at, left)' \/ ChipRight(qfRun.req, at, left)'
  PROVE  FlashData'
  <1>1. /\ qfRun'.pc = "run" /\ qfRun'.req = qfRun.req /\ qfRun'.address = at /\ qfRun'.left = left
        /\ qfRun'.before = qfRun.before
        /\ qfRun' \in [pc : {"idle", "run"}, req : QfReqs, address : Nat, left : Nat, before : Contents]
      BY DEF FlashData, FlashTypes
  <1>2. FlashTypes'
      BY <1>1 DEF FlashData, FlashTypes
  <1>3. QueueRight' /\ ReadyRight' /\ PortsRight' /\ \A t \in QfTasks : TaskRight(t)'
      BY <1>1 DEF FlashData, QueueRight, ReadyRight, PortsRight, TaskRight, Inside, Asked, Waits, Reader
  <1>4. RunRight'
      BY <1>1 DEF FlashData, RunRight, Asked, WriteRight, SectorRight, ChipRight
  <1> QED
      BY <1>2, <1>3, <1>4 DEF FlashData

\* One page is programmed.
LEMMA FlashWriteDataInv ==
  ASSUME FlashInv, FlashData, QfWritePage
  PROVE  FlashData'
  <1> PICK r, at, left, before : /\ r = qfRun.req /\ at = qfRun.address /\ left = qfRun.left
                                 /\ before = qfRun.before
      OBVIOUS
  <1> PICK n : n = QfMin(left, PageRoom(at))
      OBVIOUS
  <1>1. /\ qfRun.pc = "run" /\ r.op = "WRITE" /\ left > 0 /\ at < QfSize
        /\ qfFlash' = [a \in Bytes |->
              IF a \in {at - (at % QfPage) + ((at + i) % QfPage) : i \in 0..n - 1} THEN "D" ELSE qfFlash[a]]
        /\ qfRun' = [qfRun EXCEPT !.address = @ + n, !.left = @ - n]
        /\ UNCHANGED <<qfTask, qfQueue, qfReady, qfLast, qfConn>>
      BY DEF QfWritePage
  <1>2. /\ r \in QfReqs /\ at \in Nat /\ left \in Nat /\ qfFlash \in Contents
        /\ qfRun.before \in Contents /\ r.address \in Nat /\ r.len \in Nat
      BY <1>1 DEF FlashData, FlashTypes, QfReqs
  <1>3. WriteRight(r, at, left)
      BY <1>1 DEF FlashData, RunRight
  <1>4. PageRoom(at) \in Nat \ {0}
    <2>1. QfPage \in Nat \ {0}
        BY QfSizes
    <2>2. at % QfPage \in 0..QfPage - 1
        BY <1>2, <2>1, MultipleBelow, Zenon
    <2> QED
        BY <2>1, <2>2 DEF PageRoom
  <1>5. n \in Nat /\ n <= left /\ n <= PageRoom(at)
      BY <1>2, <1>4 DEF QfMin
  <1>6. {at - (at % QfPage) + ((at + i) % QfPage) : i \in 0..n - 1} = at..at + n - 1
      BY <1>2, <1>5, PageProgrammed, Zenon
  <1>7. qfFlash' = [a \in Bytes |-> IF a \in at..at + n - 1 THEN "D" ELSE qfFlash[a]]
      BY <1>1, <1>6, Zenon
  <1>8. qfRun' = [qfRun EXCEPT !.address = at + n, !.left = left - n] /\ qfRun'.before = before
      BY <1>1
  <1>9. WriteRight(r, at + n, left - n)'
    <2>1. at = r.address + r.len - left /\ left <= r.len
        BY <1>3 DEF WriteRight
    <2> PICK to, rest : to = at + n /\ rest = left - n
        OBVIOUS
    <2>2. \A a \in Bytes : qfFlash[a] = IF a \in r.address..at - 1 THEN "D" ELSE before[a]
        BY <1>3 DEF WriteRight
    <2>3. \A a \in Bytes : qfFlash'[a] = IF a \in r.address..to - 1 THEN "D" ELSE qfRun'.before[a]
      <3> SUFFICES ASSUME NEW a \in Bytes
                   PROVE  qfFlash'[a] = IF a \in r.address..to - 1 THEN "D" ELSE before[a]
          BY <1>8
      <3>1. a \in r.address..to - 1 <=> a \in r.address..at - 1 \/ a \in at..at + n - 1
          BY <1>2, <1>5, <2>1, QfSizes DEF Bytes
      <3> QED
          BY <1>7, <2>2, <3>1
    <2>4. qfFlash' = [a \in Bytes |-> IF a \in r.address..to - 1 THEN "D" ELSE qfRun'.before[a]]
        BY <1>7, <2>3
    <2>5. rest <= r.len /\ to = r.address + r.len - rest
        BY <1>2, <1>5, <2>1
    <2>6. WriteRight(r, to, rest)'
        BY ONLY <2>4, <2>5 DEF WriteRight
    <2> QED
        BY <2>6
  <1>10. qfFlash' \in Contents
      BY <1>2, <1>7 DEF Contents
  <1>11. at + n \in Nat /\ left - n \in Nat
      BY <1>2, <1>5
  <1> QED
    <2>1. ~ IsRead(r.op) /\ r.op # "ERASE"
        BY <1>1 DEF IsRead
    <2>2. /\ qfRun.req = r /\ WriteRight(qfRun.req, at + n, left - n)'
          /\ qfRun' = [qfRun EXCEPT !.address = at + n, !.left = left - n]
        BY <1>8, <1>9 DEF WriteRight
    <2> QED
        BY ONLY FlashData, <1>1, <1>10, <1>11, <2>1, <2>2, FlashGoesOn

\* The chip or one sector is erased.
LEMMA FlashEraseDataInv ==
  ASSUME FlashInv, FlashData, QfErase
  PROVE  FlashData'
  <1> PICK r, at, left, before : /\ r = qfRun.req /\ at = qfRun.address /\ left = qfRun.left
                                 /\ before = qfRun.before
      OBVIOUS
  <1> PICK chip : chip = (r.address = 0 /\ r.len >= QfSize)
      OBVIOUS
  <1> PICK n : n = IF chip THEN QfSize ELSE QfSector
      OBVIOUS
  <1> PICK to, rest : to = at + n /\ rest = IF chip THEN 0 ELSE left - QfMin(n, left)
      OBVIOUS
  <1>1. /\ qfRun.pc = "run" /\ r.op = "ERASE" /\ left > 0 /\ at < QfSize
        /\ qfFlash' = [a \in Bytes |-> IF a \in at..at + n - 1 THEN "FF" ELSE qfFlash[a]]
        /\ qfRun' = [qfRun EXCEPT !.address = to, !.left = rest]
        /\ UNCHANGED <<qfTask, qfQueue, qfReady, qfLast, qfConn>>
      BY DEF QfErase
  <1>2. /\ r \in QfReqs /\ at \in Nat /\ left \in Nat /\ qfFlash \in Contents
        /\ before \in Contents /\ r.address \in Nat /\ r.len \in Nat
      BY <1>1 DEF FlashData, FlashTypes, QfReqs
  <1>3. SectorRight(r, at, left)
      BY <1>1 DEF FlashData, RunRight, ChipRight
  <1>4. QfSector \in Nat \ {0} /\ QfSize \in Nat
      BY QfSizes
  <1>5. n \in Nat /\ to \in Nat /\ rest \in Nat
      BY <1>2, <1>4 DEF QfMin
  <1>6. qfFlash' \in Contents
      BY <1>1, <1>2 DEF Contents
  <1>7. qfRun'.before = before
      BY <1>1
  <1> PICK from, end : from = SectorStart(r.address) /\ end = r.address + r.len
      OBVIOUS
  <1>8. /\ at % QfSector = 0 /\ from <= at
        /\ r.len > 0 \/ at = r.address
        /\ left = IF at < end THEN end - at ELSE 0
        /\ \A a \in Bytes : qfFlash[a] = IF a \in from..at - 1 THEN "FF" ELSE before[a]
      BY <1>3 DEF SectorRight
  <1>9. from \in Nat /\ end \in Nat /\ from <= r.address /\ at < end /\ left = end - at
      BY <1>1, <1>2, <1>8, SectorStartBelow
  <1>10. CASE chip
    <2>1. r.address = 0 /\ r.len >= QfSize /\ from = 0 /\ n = QfSize /\ rest = 0 /\ to >= QfSize
      <3>1. r.address = 0 /\ r.len >= QfSize
          BY <1>10, Zenon
      <3>2. n = QfSize /\ rest = 0
          BY <1>10
      <3> QED
          BY <1>2, <1>4, <1>9, <3>1, <3>2
    <2>2. ASSUME NEW a \in Bytes PROVE qfFlash'[a] = "FF"
      <3>1. a \in from..at - 1 \/ a \in at..at + n - 1
          BY <1>2, <1>4, <2>1 DEF Bytes
      <3> QED
          BY <1>1, <1>8, <3>1
    <2>3. qfFlash' = [a \in Bytes |-> "FF"]
        BY <1>1, <2>2
    <2>4. ChipRight(r, to, rest)'
        BY <2>1, <2>3 DEF ChipRight
    <2>5. qfRun.req = r /\ ChipRight(qfRun.req, to, rest)' /\ ~ IsRead(r.op) /\ r.op # "WRITE"
        BY <1>1, <2>4 DEF ChipRight, IsRead
    <2> QED
        BY ONLY FlashData, <1>1, <1>5, <1>6, <2>5, FlashGoesOn
  <1>11. CASE ~ chip
    <2>1. n = QfSector /\ to = at + QfSector /\ rest = IF to < end THEN end - to ELSE 0
        BY <1>2, <1>4, <1>9, <1>11 DEF QfMin
    <2>2. to % QfSector = 0
      <3>1. (at - (at % QfSector) + QfSector) % QfSector = 0
          BY <1>2, <1>4, MultipleBelow, Zenon
      <3>2. at - (at % QfSector) + QfSector = to
          BY <1>2, <1>4, <1>8, <2>1
      <3> QED
          BY <3>1, <3>2
    <2>3. from <= to /\ to < end + QfSector /\ r.len > 0
        BY <1>2, <1>4, <1>8, <1>9, <2>1
    <2>4. ASSUME NEW a \in Bytes
          PROVE  qfFlash'[a] = IF a \in from..to - 1 THEN "FF" ELSE qfRun'.before[a]
      <3>1. a \in from..to - 1 <=> a \in from..at - 1 \/ a \in at..at + n - 1
          BY <1>2, <1>4, <1>8, <1>9, <2>1 DEF Bytes
      <3>2. qfFlash'[a] = IF a \in from..to - 1 THEN "FF" ELSE before[a]
          BY <1>1, <1>8, <3>1
      <3> QED
          BY <1>7, <3>2
    <2>5. qfFlash' = [a \in Bytes |-> IF a \in from..to - 1 THEN "FF" ELSE qfRun'.before[a]]
        BY <1>1, <2>4
    <2>6. SectorRight(r, to, rest)'
        BY ONLY from = SectorStart(r.address), end = r.address + r.len, <2>1, <2>2, <2>3, <2>5
           DEF SectorRight
    <2>7. qfRun.req = r /\ SectorRight(qfRun.req, to, rest)' /\ ~ IsRead(r.op) /\ r.op # "WRITE"
        BY <1>1, <2>6 DEF SectorRight, IsRead
    <2> QED
        BY ONLY FlashData, <1>1, <1>5, <1>6, <2>7, FlashGoesOn
  <1> QED
      BY <1>10, <1>11

\* One chunk of a read: all that has been read with it.
LEMMA ChunkRead ==
  ASSUME NEW r \in QfReqs, NEW at \in Nat, NEW left \in Nat, NEW buf,
         ReadRight(r, at, left, buf), qfFlash \in Contents, left > 0
  PROVE  LET low == QfMin(at, QfSize)
             chunk == QfMin(left, QfChunk)
             n == QfMin(chunk, QfSize - low)
             all == SubSeq(buf, 1, r.len - left) \o Expected(qfFlash, low, chunk)
         IN  /\ low + n \in Nat /\ left - n \in Nat
             /\ ReadRight(r, low + n, left - n, all)
  <1> DEFINE low == QfMin(at, QfSize)
             chunk == QfMin(left, QfChunk)
             n == QfMin(chunk, QfSize - low)
             pos == r.len - left
             got == Expected(qfFlash, low, chunk)
             part == SubSeq(buf, 1, pos)
             all == part \o got
             next == low + n
             rest == left - n
             far == pos + n
  <1> USE DEF QfReqs
  <1>1. /\ QfSize \in Nat /\ QfChunk \in Nat \ {0} /\ r.address \in Nat /\ r.len \in Nat
      BY QfSizes
  <1>2. /\ low \in Nat /\ low <= at /\ low <= QfSize /\ chunk \in Nat \ {0} /\ chunk <= left
        /\ n \in Nat /\ n <= chunk /\ n <= QfSize - low /\ (at <= QfSize => low = at)
        /\ (at >= QfSize => low = QfSize)
      BY <1>1 DEF QfMin
  <1>3. /\ left <= r.len /\ qfFlash = qfRun.before /\ buf \in Seq({"FF", "D"})
        /\ pos \in Nat /\ pos <= Len(buf)
        /\ \A i \in 1..pos : buf[i] = Expected(qfRun.before, r.address, r.len)[i]
        /\ pos > 0 => at = r.address + pos /\ at <= QfSize
        /\ pos = 0 => at = r.address \/ (at = QfSize /\ r.address >= QfSize)
      BY <1>1 DEF ReadRight
  <1>4. pos + left = r.len
      BY <1>1
  <1> HIDE DEF low, chunk, n, pos
  <1>5. /\ got \in Seq({"FF", "D"}) /\ Len(got) = chunk
        /\ \A i \in 1..chunk : got[i] = IF low + i - 1 \in Bytes THEN qfFlash[low + i - 1] ELSE "FF"
    <2>1. ASSUME NEW i \in 1..chunk
          PROVE  (IF low + i - 1 \in Bytes THEN qfFlash[low + i - 1] ELSE "FF") \in {"FF", "D"}
        BY DEF Contents
    <2>2. got \in [1..chunk -> {"FF", "D"}]
        BY <2>1 DEF Expected
    <2>3. got \in Seq({"FF", "D"}) /\ Len(got) = chunk
        BY <1>2, <2>2
    <2> QED
        BY <2>3 DEF Expected
  <1>6. /\ part \in Seq({"FF", "D"}) /\ Len(part) = pos /\ \A i \in 1..pos : part[i] = buf[i]
      BY <1>3
  <1> HIDE DEF got, part
  <1>7. /\ all \in Seq({"FF", "D"}) /\ Len(all) = pos + chunk
        /\ \A i \in 1..pos : all[i] = part[i]
        /\ \A i \in pos + 1..pos + chunk : all[i] = got[i - pos]
    <2>1. /\ all \in Seq({"FF", "D"}) /\ Len(all) = Len(part) + Len(got)
          /\ \A i \in 1..Len(all) : all[i] = IF i <= Len(part) THEN part[i] ELSE got[i - Len(part)]
        BY <1>5, <1>6
    <2> HIDE DEF all
    <2>2. /\ Len(all) = pos + chunk /\ pos \in Nat /\ chunk \in Nat
          /\ \A i \in 1..Len(all) : all[i] = IF i <= pos THEN part[i] ELSE got[i - pos]
        BY <1>2, <1>3, <1>5, <1>6, <2>1
    <2>3. \A i \in 1..pos : i \in 1..Len(all) /\ i <= pos
        BY <2>2
    <2>4. \A i \in pos + 1..pos + chunk : i \in 1..Len(all) /\ ~ (i <= pos)
        BY <2>2
    <2> QED
        BY <2>1, <2>2, <2>3, <2>4
  <1> HIDE DEF all
  <1>8. n > 0 => low = r.address + pos
      BY <1>1, <1>2, <1>3
  <1>9. ASSUME NEW i \in 1..pos + n
        PROVE  all[i] = Expected(qfRun.before, r.address, r.len)[i]
    <2>1. CASE i <= pos
        BY <1>3, <1>6, <1>7, <2>1
    <2>2. CASE i > pos
      <3>0. i \in Nat /\ pos < i /\ i <= pos + n /\ n > 0
          BY <1>2, <1>3, <2>2
      <3>1. /\ i \in pos + 1..pos + chunk /\ i - pos \in 1..chunk /\ i \in 1..r.len /\ n > 0
            /\ low + (i - pos) - 1 = r.address + i - 1
        <4>1. low = r.address + pos
            BY <1>8, <3>0
        <4>2. pos \in Nat /\ n \in Nat /\ chunk \in Nat /\ n <= chunk /\ chunk <= left /\ pos + left = r.len
            BY <1>2, <1>3, <1>4
        <4> QED
            BY ONLY <1>1, <3>0, <4>1, <4>2, left \in Nat
      <3>2. all[i] = got[i - pos]
          BY <1>7, <3>1
      <3> PICK j \in 1..chunk : j = i - pos
          BY <3>1
      <3>3. got[j] = IF low + j - 1 \in Bytes THEN qfFlash[low + j - 1] ELSE "FF"
          BY <1>5
      <3>4. low + j - 1 = r.address + i - 1
          BY <3>1
      <3>5. all[i] = IF r.address + i - 1 \in Bytes THEN qfFlash[r.address + i - 1] ELSE "FF"
          BY <3>2, <3>3, <3>4
      <3> QED
          BY <1>3, <3>1, <3>5 DEF Expected
    <2> QED
        BY <1>3, <2>1, <2>2
  <1>10. /\ next \in Nat /\ rest \in Nat /\ r.len - rest = far /\ rest <= r.len /\ far \in Nat
         /\ far <= Len(all) /\ (rest = 0 => Len(all) = far)
    <2>1. next \in Nat /\ rest \in Nat /\ rest <= r.len /\ far \in Nat
        BY <1>1, <1>2, <1>3
    <2>2. r.len - rest = far
        BY <1>1, <1>2, <1>3, <1>4
    <2>3. far <= Len(all) /\ (rest = 0 => Len(all) = far)
        BY <1>2, <1>3, <1>7
    <2> QED
        BY <2>1, <2>2, <2>3
  <1>11. far > 0 => next = r.address + far /\ next <= QfSize
      BY <1>1, <1>2, <1>3, <1>8
  <1>12. far = 0 => next = r.address \/ (next = QfSize /\ r.address >= QfSize)
      BY <1>1, <1>2, <1>3
  <1>13. \A i \in 1..far : all[i] = Expected(qfRun.before, r.address, r.len)[i]
      BY <1>9
  <1> HIDE DEF next, rest, far
  <1>14. ReadRight(r, next, rest, all)
      BY <1>3, <1>7, <1>10, <1>11, <1>12, <1>13 DEF ReadRight
  <1> QED
      BY <1>10, <1>14, Zenon DEF next, rest, all, part, got, low, chunk, n, pos

\* The bytes of a chunk go to the task that waits.
LEMMA FlashReadDataInv ==
  ASSUME FlashInv, FlashData, QfReadChunk
  PROVE  FlashData'
  <1> PICK r, at, left, before, t : /\ r = qfRun.req /\ at = qfRun.address /\ left = qfRun.left
                                    /\ before = qfRun.before /\ t = r.task
      OBVIOUS
  <1> PICK buf : buf = qfTask[t].buf
      OBVIOUS
  <1> PICK low, chunk, pos : /\ low = QfMin(at, QfSize) /\ chunk = QfMin(left, QfChunk)
                             /\ pos = r.len - left
      OBVIOUS
  <1> PICK n, all : /\ n = QfMin(chunk, QfSize - low)
                    /\ all = SubSeq(buf, 1, pos) \o Expected(qfFlash, low, chunk)
      OBVIOUS
  <1>1. /\ qfRun.pc = "run" /\ IsRead(r.op) /\ left > 0
        /\ qfTask' = [qfTask EXCEPT ![t].buf = all]
        /\ qfRun' = [qfRun EXCEPT !.address = low + n, !.left = left - n]
        /\ UNCHANGED <<qfFlash, qfQueue, qfReady, qfLast, qfConn>>
    <2>1. QfReadChunk
        OBVIOUS
    <2> QED
        BY <2>1 DEF QfReadChunk
  <1>2. /\ r \in QfReqs /\ at \in Nat /\ left \in Nat /\ qfFlash \in Contents
        /\ before \in Contents /\ t \in QfTasks
      BY <1>1 DEF FlashData, FlashTypes, RunRight, Asked
  <1>3. Waits(r) /\ qfQueue = <<>> /\ ReadRight(r, at, left, buf)
      BY <1>1 DEF FlashData, RunRight
  <1>4. /\ low + n \in Nat /\ left - n \in Nat
        /\ ReadRight(r, low + n, left - n, all)
      BY <1>1, <1>2, <1>3, ChunkRead
  <1> PICK next, rest : next = low + n /\ rest = left - n
      OBVIOUS
  <1>5. /\ next \in Nat /\ rest \in Nat /\ ReadRight(r, next, rest, all)
        /\ qfRun' = [qfRun EXCEPT !.address = next, !.left = rest]
      BY <1>1, <1>4
  <1>6. Becomes(t, qfTask[t].pc, qfTask[t].depth, qfTask[t].req, all)
      BY <1>1, <1>2, TaskFields
  <1>7. /\ qfRun'.pc = "run" /\ qfRun'.req = r /\ qfRun'.address = next /\ qfRun'.left = rest
        /\ qfRun'.before = before
        /\ qfRun' \in [pc : {"idle", "run"}, req : QfReqs, address : Nat, left : Nat, before : Contents]
      BY <1>1, <1>5 DEF FlashData, FlashTypes
  <1>8. FlashTypes' /\ QueueRight' /\ PortsRight'
      BY <1>1, <1>3, <1>7 DEF FlashData, FlashTypes, QueueRight, PortsRight
  <1>9. ReadyRight'
    <2>1. qfReady' = 0
        BY <1>1, <1>3 DEF Waits
    <2> QED
        BY ONLY <2>1 DEF ReadyRight
  <1>10. qfTask[t].pc \in {"sent", "wait"} /\ qfTask[t].req = r /\ qfReady = 0
      BY <1>2, <1>3 DEF Waits, Reader
  <1>11. TaskRight(t)'
      BY <1>2, <1>6, <1>10 DEF FlashData, TaskRight, Becomes, Inside, Asked
  <1>12. \A s \in QfTasks \ {t} : TaskRight(s)'
      BY ONLY FlashData, <1>6 DEF FlashData, TaskRight, Becomes, Inside, Asked
  <1>13. Waits(r)'
      BY <1>1, <1>6, <1>10 DEF Waits, Becomes, Reader
  <1>14. ReadRight(r, next, rest, all)'
      BY ONLY <1>1, <1>5, <1>7, before = qfRun.before DEF ReadRight
  <1>15. Asked(r) /\ qfConn = IF r.op = "FAST" THEN "fast" ELSE "fl"
      BY <1>1 DEF FlashData, RunRight
  <1>16. qfTask'[r.task].buf = all /\ r.op # "WRITE" /\ r.op # "ERASE"
      BY <1>1, <1>6 DEF Becomes, IsRead
  <1>17. RunRight'
    <2>1. Waits(qfRun'.req) /\ qfQueue' = <<>>
        BY <1>1, <1>3, <1>7
    <2>2. Waits(r)' /\ ReadRight(r, next, rest, all)'
        BY <1>13, <1>14
    <2> QED
        BY ONLY <1>1, <1>7, <1>15, <1>16, <2>1, <2>2 DEF RunRight, Asked, ReadRight, Waits, Reader
  <1> QED
      BY <1>8, <1>9, <1>11, <1>12, <1>17 DEF FlashData

LEMMA FlashDataInit == ASSUME QfInit PROVE FlashData
  <1>1. \A t \in QfTasks : qfTask[t] = [pc |-> "idle", depth |-> 0, req |-> QfNoOp, buf |-> <<>>]
      BY DEF QfInit
  <1>2. QfNoOp \in QfReqs
      BY DEF QfReqs, QfNoOp
  <1>3. qfFlash \in Contents
      BY DEF QfInit, Contents
  <1>4. FlashTypes /\ QueueRight /\ ReadyRight /\ RunRight /\ PortsRight
      BY <1>2, <1>3 DEF QfInit, FlashTypes, QueueRight, ReadyRight, RunRight, PortsRight
  <1>5. \A t \in QfTasks : TaskRight(t)
      BY <1>1, <1>2 DEF TaskRight, Inside
  <1> QED
      BY <1>4, <1>5 DEF FlashData

LEMMA FlashDataStep ==
  ASSUME QfLockAlways = TRUE, \A r \in QfRanges : r[2] > 0 \/ r[1] % QfSector = 0,
         FlashInv, FlashData, [QfNext]_qfVars
  PROVE  FlashData'
  <1>1. CASE UNCHANGED qfVars
      BY <1>1 DEF qfVars, FlashData, FlashTypes, QueueRight, ReadyRight, RunRight, PortsRight,
                  TaskRight, Inside, Asked, Waits, Reader, ReadRight, WriteRight, SectorRight, ChipRight
  <1>2. CASE QfThreadStep
      BY <1>2, FlashReceiveDataInv, FlashReadDataInv, FlashWriteDataInv, FlashEraseDataInv,
         FlashFinishDataInv DEF QfThreadStep
  <1>3. CASE QfLlGet \/ QfLlPut
      BY <1>3, FlashLlDataInv
  <1>4. ASSUME NEW t \in QfTasks, QfLock(t) \/ QfRequest(t) \/ QfTaskStep(t) PROVE FlashData'
      BY <1>4, FlashTaskDataInv, FlashSendDataInv, FlashWaitDataInv DEF QfTaskStep
  <1> QED
      BY <1>1, <1>2, <1>3, <1>4 DEF QfNext

\* What the invariant says when a loop has ended.
LEMMA FlashDataExact == ASSUME FlashData PROVE FlashExact
  <1> PICK r, at, left : r = qfRun.req /\ at = qfRun.address /\ left = qfRun.left
      OBVIOUS
  <1>0. qfRun.pc = "run" => /\ r.op = "WRITE" => WriteRight(r, at, left)
                            /\ r.op = "ERASE" => SectorRight(r, at, left) \/ ChipRight(r, at, left)
      BY DEF FlashData, RunRight
  <1> PICK range : range = r.address..r.address + r.len - 1
      OBVIOUS
  <1> PICK sectors : sectors = {a \in Bytes : \E b \in range : SectorStart(b) = SectorStart(a)}
      OBVIOUS
  <1>1. FlashReadFilled
      BY DEF FlashData, TaskRight, FlashReadFilled
  <1>2. qfRun.pc = "run" => qfConn = (IF r.op = "FAST" THEN "fast" ELSE "fl")
      BY DEF FlashData, RunRight
  <1>3. ASSUME QfAtEnd
        PROVE  /\ r.op = "WRITE" =>
                     qfFlash = [a \in Bytes |-> IF a \in range THEN "D" ELSE qfRun.before[a]]
               /\ r.op = "ERASE" =>
                     qfFlash = [a \in Bytes |-> IF a \in sectors THEN "FF" ELSE qfRun.before[a]]
               /\ r.op \notin {"WRITE", "ERASE"} =>
                     /\ qfTask[r.task].buf = Expected(qfRun.before, r.address, r.len)
                     /\ qfFlash = qfRun.before
    <2>1. /\ qfRun.pc = "run"
          /\ left = 0 \/ (~ IsRead(r.op) /\ at >= QfSize)
          /\ r \in QfReqs /\ at \in Nat /\ left \in Nat /\ Asked(r)
          /\ r.address \in Nat /\ r.len \in Nat /\ QfSize \in Nat
        BY <1>3, QfSizes DEF QfAtEnd, FlashData, FlashTypes, RunRight, QfReqs
    <2>2. ASSUME r.op = "WRITE"
          PROVE  qfFlash = [a \in Bytes |-> IF a \in range THEN "D" ELSE qfRun.before[a]]
      <3>1. /\ left <= r.len /\ at = r.address + r.len - left
            /\ qfFlash = [a \in Bytes |-> IF a \in r.address..at - 1 THEN "D" ELSE qfRun.before[a]]
        <4>1. WriteRight(r, at, left)
            BY <1>0, <2>1, <2>2
        <4> QED
            BY <4>1 DEF WriteRight
      <3>2. ASSUME NEW a \in Bytes PROVE a \in r.address..at - 1 <=> a \in range
        <4>1. a \in Nat /\ a < QfSize
            BY <2>1 DEF Bytes
        <4>2. a \in range <=> r.address <= a /\ a < r.address + r.len
            BY <2>1, <4>1
        <4>3. left = 0 \/ at >= QfSize
            BY <2>1
        <4>4. a \in r.address..at - 1 <=> r.address <= a /\ a < at
            BY <2>1, <4>1
        <4> QED
            BY ONLY <2>1, <3>1, <4>1, <4>2, <4>3, <4>4
      <3> QED
          BY <3>1, <3>2
    <2>3. ASSUME r.op = "ERASE"
          PROVE  qfFlash = [a \in Bytes |-> IF a \in sectors THEN "FF" ELSE qfRun.before[a]]
      <3>1. CASE SectorRight(r, at, left)
        <4> PICK from, end : from = SectorStart(r.address) /\ end = r.address + r.len
            OBVIOUS
        <4>1. /\ at % QfSector = 0 /\ from <= at /\ (at > from => at < end + QfSector)
              /\ r.len > 0 \/ at = r.address
              /\ left = IF at < end THEN end - at ELSE 0
              /\ qfFlash = [a \in Bytes |-> IF a \in from..at - 1 THEN "FF" ELSE qfRun.before[a]]
            BY <3>1 DEF SectorRight
        <4>2. at >= end \/ at >= QfSize
            BY <2>1, <4>1
        <4>3. ASSUME NEW a \in Bytes PROVE a \in sectors <=> a \in from..at - 1
          <5>1. /\ SectorStart(r.address) <= at
                /\ at > SectorStart(r.address) => at < r.address + r.len + QfSector
                /\ at >= r.address + r.len \/ at >= QfSize
                /\ r.len > 0 \/ at = r.address
              BY <4>1, <4>2
          <5>2. (\E b \in r.address..r.address + r.len - 1 : SectorStart(b) = SectorStart(a))
                <=> a \in SectorStart(r.address)..at - 1
              BY ONLY <2>1, <4>1, <5>1, SectorsErased, Zenon
          <5> QED
              BY <5>2
        <4> QED
            BY <4>1, <4>3
      <3>2. CASE ChipRight(r, at, left)
        <4>1. r.address = 0 /\ r.len >= QfSize /\ qfFlash = [a \in Bytes |-> "FF"]
            BY <3>2 DEF ChipRight
        <4>2. ASSUME NEW a \in Bytes PROVE a \in sectors
          <5>1. a \in range
              BY <2>1, <4>1 DEF Bytes
          <5> QED
              BY <5>1
        <4>3. \A a \in Bytes : (IF a \in sectors THEN "FF" ELSE qfRun.before[a]) = "FF"
            BY <4>2
        <4> QED
            BY <4>1, <4>3
      <3> QED
          BY ONLY <1>0, <2>1, <2>3, <3>1, <3>2, Zenon
    <2>4. ASSUME r.op \notin {"WRITE", "ERASE"}
          PROVE  /\ qfTask[r.task].buf = Expected(qfRun.before, r.address, r.len)
                 /\ qfFlash = qfRun.before
      <3>1. IsRead(r.op)
          BY <2>1, <2>4 DEF Asked, QfReqs, IsRead
      <3>2. left = 0 /\ ReadRight(r, at, left, qfTask[r.task].buf)
          BY <2>1, <3>1 DEF FlashData, RunRight
      <3> PICK buf : buf = qfTask[r.task].buf
          OBVIOUS
      <3>3. /\ buf \in Seq({"FF", "D"}) /\ Len(buf) = r.len /\ qfFlash = qfRun.before
            /\ \A i \in 1..r.len : buf[i] = Expected(qfRun.before, r.address, r.len)[i]
        <4>1. r.len - left = r.len
            BY <2>1, <3>2
        <4> QED
            BY <3>2, <4>1 DEF ReadRight
      <3>4. buf = [i \in 1..r.len |-> buf[i]]
          BY <3>3
      <3>5. buf = Expected(qfRun.before, r.address, r.len)
          BY <3>3, <3>4 DEF Expected
      <3> QED
          BY <3>3, <3>5
    <2> QED
        BY <2>2, <2>3, <2>4
  <1> QED
      BY <1>1, <1>2, <1>3 DEF FlashExact

\* Whatever a task asks of the thread is done to the bytes of its range and no others,
\* and a read returns what is there, if tasks take the lock for every operation and
\* none asks for an empty erase inside a sector.
THEOREM FlashIsExact ==
  ASSUME QfLockAlways = TRUE, \A r \in QfRanges : r[2] > 0 \/ r[1] % QfSector = 0
  PROVE  QfSpec => []FlashExact
  <1>1. QfInit => FlashInv /\ FlashData
      BY FlashInitInv, FlashDataInit
  <1>2. FlashInv /\ FlashData /\ [QfNext]_qfVars => (FlashInv /\ FlashData)'
      BY FlashStepInv, FlashDataStep
  <1>3. FlashInv /\ FlashData => FlashExact
      BY FlashDataExact
  <1> QED
      BY <1>1, <1>2, <1>3, PTL DEF QfSpec

(***************************************************************************)
(* The UART receiver.                                                      *)
(***************************************************************************)

\* Every byte carries its number on the line, so order is that of numbers.
Sorted(s) == \A i, j \in 1..Len(s) : i < j => s[i] < s[j]

\* What is in s lies below x, or below what is in t.
Under(s, x) == \A i \in 1..Len(s) : s[i] < x
Before(s, t) == \A i \in 1..Len(t) : Under(s, t[i])

\* The bus thread has a byte, or an error, that it has not passed on.
UrxPending == urxHil.pc \in {"send", "error"}

UrxTypes ==
  /\ urxLine \in Nat /\ urxRead \in Nat
  /\ urxStream \in Seq(Nat) /\ urxApp.bytes \in Seq(Nat) /\ urxFifo \in Seq(Nat)
  /\ urxChan = <<>> \/ \E b \in Nat : urxChan = <<b>>
  /\ urxIsr.byte \in Nat
  /\ urxApp = [pc |-> urxApp.pc, bytes |-> urxApp.bytes]
  /\ urxIsr = [pc |-> urxIsr.pc, byte |-> urxIsr.byte, flags |-> urxIsr.flags]
  /\ urxApp.pc \in {"wait", "error"} => urxApp.bytes = <<>>
  /\ Len(urxStream) <= UrxStream

\* What the driver's thread and the application have lies below x.
Delivered(x) == urxRead < x /\ Under(urxStream, x) /\ Under(urxApp.bytes, x) /\ Under(urxFifo, x)

\* What they have is in order.
UrxFront ==
  /\ Sorted(urxStream) /\ Sorted(urxApp.bytes) /\ Sorted(urxFifo)
  /\ Before(<<urxRead>>, urxStream) /\ Before(<<urxRead>>, urxApp.bytes)
  /\ Before(<<urxRead>>, urxFifo)
  /\ Before(urxStream, urxApp.bytes) /\ Before(urxStream, urxFifo)
  /\ Before(urxApp.bytes, urxFifo)

\* What the bus thread and the routine have is in order and comes after it.
UrxBack ==
  /\ Delivered(urxLine + 1) /\ (UrxPending => Delivered(urxLine))
  /\ urxIsr.pc = "push" =>
        /\ Delivered(urxIsr.byte) /\ urxIsr.byte < urxLine + 1
        /\ UrxPending => urxIsr.byte < urxLine
        /\ \A i \in 1..Len(urxChan) : urxIsr.byte < urxChan[i]
  /\ \A i \in 1..Len(urxChan) :
        /\ Delivered(urxChan[i]) /\ urxChan[i] < urxLine + 1
        /\ UrxPending => urxChan[i] < urxLine

\* The inductive invariant.
UrxInv == UrxTypes /\ UrxFront /\ UrxBack

\* One sequence behind another.
LEMMA Joined ==
  ASSUME NEW s \in Seq(Nat), NEW t \in Seq(Nat), Sorted(s), Sorted(t), Before(s, t)
  PROVE  /\ s \o t \in Seq(Nat) /\ Sorted(s \o t) /\ Len(s \o t) = Len(s) + Len(t)
         /\ \A u \in Seq(Nat) : Before(s, u) /\ Before(t, u) => Before(s \o t, u)
         /\ \A u \in Seq(Nat) : Before(u, s) /\ Before(u, t) => Before(u, s \o t)
         /\ \A x \in Nat : Under(s, x) /\ Under(t, x) => Under(s \o t, x)
  <1> DEFINE st == s \o t
  <1>1. /\ st \in Seq(Nat) /\ Len(st) = Len(s) + Len(t) /\ Len(s) \in Nat /\ Len(t) \in Nat
        /\ \A i \in 1..Len(st) : st[i] = IF i <= Len(s) THEN s[i] ELSE t[i - Len(s)]
        /\ \A i \in 1..Len(s) : s[i] \in Nat
        /\ \A i \in 1..Len(t) : t[i] \in Nat
      OBVIOUS
  <1> HIDE DEF st
  <1>2. ASSUME NEW i \in 1..Len(st), NEW j \in 1..Len(st), i < j PROVE st[i] < st[j]
    <2>1. CASE j <= Len(s)
      <3>1. i \in 1..Len(s) /\ j \in 1..Len(s) /\ st[i] = s[i] /\ st[j] = s[j]
          BY ONLY <1>1, <1>2, <2>1, i \in 1..Len(st), j \in 1..Len(st)
      <3> QED
          BY ONLY <1>2, <3>1, Sorted(s) DEF Sorted
    <2>2. CASE Len(s) < i
      <3>1. /\ i - Len(s) \in 1..Len(t) /\ j - Len(s) \in 1..Len(t) /\ i - Len(s) < j - Len(s)
            /\ st[i] = t[i - Len(s)] /\ st[j] = t[j - Len(s)]
          BY ONLY SMTT(60), <1>1, <1>2, <2>2, i \in 1..Len(st), j \in 1..Len(st)
      <3> QED
          BY ONLY <3>1, Sorted(t) DEF Sorted
    <2>3. CASE i <= Len(s) /\ Len(s) < j
      <3>1. /\ i \in 1..Len(s) /\ j - Len(s) \in 1..Len(t)
            /\ st[i] = s[i] /\ st[j] = t[j - Len(s)]
          BY ONLY <1>1, <1>2, <2>3, i \in 1..Len(st), j \in 1..Len(st)
      <3> QED
          BY ONLY <3>1, Before(s, t) DEF Before, Under
    <2> QED
        BY ONLY <1>1, <1>2, <2>1, <2>2, <2>3, i \in 1..Len(st), j \in 1..Len(st)
  <1>3. ASSUME NEW i \in 1..Len(st)
        PROVE  \/ i \in 1..Len(s) /\ st[i] = s[i]
               \/ i - Len(s) \in 1..Len(t) /\ st[i] = t[i - Len(s)]
    <2>1. CASE i <= Len(s)
        BY ONLY <1>1, <2>1, i \in 1..Len(st)
    <2>2. CASE Len(s) < i
        BY ONLY <1>1, <2>2, i \in 1..Len(st)
    <2> QED
        BY ONLY <1>1, <2>1, <2>2, i \in 1..Len(st)
  <1>4. ASSUME NEW x \in Nat, Under(s, x), Under(t, x) PROVE Under(st, x)
      BY ONLY <1>3, <1>4 DEF Under
  <1>5. ASSUME NEW u \in Seq(Nat), Before(s, u), Before(t, u) PROVE Before(st, u)
    <2>1. ASSUME NEW k \in 1..Len(u) PROVE Under(st, u[k])
      <3>1. u[k] \in Nat /\ Under(s, u[k]) /\ Under(t, u[k])
          BY <1>5 DEF Before
      <3> QED
          BY ONLY <1>4, <3>1
    <2> QED
        BY ONLY <2>1 DEF Before
  <1>6. ASSUME NEW u \in Seq(Nat), Before(u, s), Before(u, t) PROVE Before(u, st)
    <2>1. ASSUME NEW i \in 1..Len(st) PROVE Under(u, st[i])
        BY ONLY <1>3, <1>6, i \in 1..Len(st) DEF Before
    <2> QED
        BY ONLY <2>1 DEF Before
  <1> QED
      BY <1>1, <1>2, <1>4, <1>5, <1>6 DEF Sorted, st

\* What one buffer passes on to the next.
LEMMA PassedOn ==
  ASSUME NEW s \in Seq(Nat), s # <<>>
  PROVE  /\ Head(s) \in Nat /\ Tail(s) \in Seq(Nat) /\ Len(s) >= 1 /\ Head(s) = s[1]
         /\ Len(Tail(s)) = Len(s) - 1 /\ Len(s) \in Nat
         /\ \A i \in 1..Len(s) - 1 : Tail(s)[i] = s[i + 1]
  OBVIOUS

\* What is left after the first, and the first on its own.
LEMMA TailOrder ==
  ASSUME NEW s \in Seq(Nat), s # <<>>
  PROVE  /\ Sorted(s) => Sorted(Tail(s)) /\ Before(<<Head(s)>>, Tail(s))
         /\ \A x \in Nat : Under(s, x) => Under(Tail(s), x) /\ Head(s) < x
         /\ \A t \in Seq(Nat) : Before(t, s) => Before(t, Tail(s)) /\ Under(t, Head(s))
         /\ \A t \in Seq(Nat) : Before(s, t) => Before(Tail(s), t) /\ Before(<<Head(s)>>, t)
  <1>1. /\ Head(s) \in Nat /\ Tail(s) \in Seq(Nat) /\ Len(s) \in Nat /\ Len(s) >= 1 /\ Head(s) = s[1]
        /\ Len(Tail(s)) = Len(s) - 1
        /\ \A i \in 1..Len(s) - 1 : Tail(s)[i] = s[i + 1]
        /\ Len(<<Head(s)>>) = 1 /\ <<Head(s)>>[1] = Head(s)
      BY PassedOn
  <1> DEFINE r == Tail(s)  h == Head(s)  one == <<Head(s)>>
  <1>2. /\ h = s[1] /\ Len(r) = Len(s) - 1 /\ Len(one) = 1 /\ one[1] = h
        /\ \A i \in 1..Len(r) : r[i] = s[i + 1] /\ i + 1 \in 1..Len(s) /\ 1 < i + 1
        /\ 1 \in 1..Len(s) /\ Len(r) \in Nat
      BY <1>1
  <1> HIDE DEF r, h, one
  <1>3. Sorted(s) => Sorted(r) /\ Before(one, r)
    <2> SUFFICES ASSUME Sorted(s) PROVE Sorted(r) /\ Before(one, r)
        OBVIOUS
    <2>1. ASSUME NEW i \in 1..Len(r), NEW j \in 1..Len(r), i < j PROVE r[i] < r[j]
      <3>1. i + 1 < j + 1 /\ i + 1 \in 1..Len(s) /\ j + 1 \in 1..Len(s)
          BY ONLY <1>2, <2>1, i \in 1..Len(r), j \in 1..Len(r)
      <3> QED
          BY ONLY <1>2, <3>1, Sorted(s), i \in 1..Len(r), j \in 1..Len(r) DEF Sorted
    <2>2. ASSUME NEW k \in 1..Len(r), NEW i \in 1..Len(one) PROVE one[i] < r[k]
      <3>1. i = 1 /\ k + 1 \in 1..Len(s) /\ 1 < k + 1
          BY ONLY <1>2, k \in 1..Len(r), i \in 1..Len(one)
      <3> QED
          BY ONLY <1>2, <3>1, Sorted(s), k \in 1..Len(r) DEF Sorted
    <2> QED
        BY ONLY <2>1, <2>2 DEF Sorted, Before, Under
  <1>4. \A x \in Nat : Under(s, x) => Under(r, x) /\ h < x
      BY ONLY <1>2 DEF Under
  <1>5. \A t \in Seq(Nat) : Before(t, s) => Before(t, r) /\ Under(t, h)
      BY ONLY <1>2 DEF Before, Under
  <1>6. ASSUME NEW t \in Seq(Nat), Before(s, t) PROVE Before(r, t) /\ Before(one, t)
    <2>1. ASSUME NEW k \in 1..Len(t) PROVE Under(r, t[k]) /\ Under(one, t[k])
      <3>1. Under(s, t[k])
          BY ONLY <1>6, k \in 1..Len(t) DEF Before
      <3> QED
        <4>1. ASSUME NEW i \in 1..Len(r) PROVE r[i] < t[k]
            BY ONLY <1>2, <3>1, i \in 1..Len(r) DEF Under
        <4>2. ASSUME NEW i \in 1..Len(one) PROVE one[i] < t[k]
          <5>1. i = 1
              BY ONLY <1>2, i \in 1..Len(one)
          <5> QED
              BY ONLY <1>2, <3>1, <5>1 DEF Under
        <4> QED
            BY ONLY <4>1, <4>2 DEF Under
    <2> QED
        BY ONLY <2>1 DEF Before
  <1> QED
      BY ONLY <1>3, <1>4, <1>5, <1>6 DEF r, h, one

\* One more at the end.
LEMMA AppendOrder ==
  ASSUME NEW s \in Seq(Nat), NEW b \in Nat
  PROVE  /\ Append(s, b) \in Seq(Nat)
         /\ Sorted(s) /\ Under(s, b) => Sorted(Append(s, b))
         /\ \A x \in Nat : Under(s, x) /\ b < x => Under(Append(s, b), x)
         /\ \A t \in Seq(Nat) : Before(t, s) /\ Under(t, b) => Before(t, Append(s, b))
         /\ \A t \in Seq(Nat) : Before(s, t) /\ Before(<<b>>, t) => Before(Append(s, b), t)
  <1> DEFINE a == Append(s, b)  one == <<b>>
  <1>1. /\ a \in Seq(Nat) /\ Len(a) = Len(s) + 1 /\ Len(s) \in Nat /\ a[Len(s) + 1] = b
        /\ \A i \in 1..Len(s) : a[i] = s[i]
        /\ Len(one) = 1 /\ one[1] = b
      OBVIOUS
  <1> HIDE DEF a, one
  <1>2. ASSUME Sorted(s), Under(s, b) PROVE Sorted(a)
    <2>1. ASSUME NEW i \in 1..Len(a), NEW j \in 1..Len(a), i < j PROVE a[i] < a[j]
      <3>1. CASE j <= Len(s)
        <4>1. i \in 1..Len(s) /\ j \in 1..Len(s)
            BY ONLY <1>1, <2>1, <3>1, i \in 1..Len(a), j \in 1..Len(a)
        <4> QED
            BY ONLY <1>1, <1>2, <2>1, <4>1 DEF Sorted
      <3>2. CASE j = Len(s) + 1
          BY ONLY <1>1, <1>2, <2>1, <3>2, i \in 1..Len(a), j \in 1..Len(a) DEF Under
      <3> QED
          BY ONLY <1>1, <3>1, <3>2, j \in 1..Len(a)
    <2> QED
        BY ONLY <2>1 DEF Sorted
  <1>3. \A x \in Nat : Under(s, x) /\ b < x => Under(a, x)
      BY ONLY <1>1 DEF Under
  <1>4. ASSUME NEW t \in Seq(Nat), Before(t, s), Under(t, b) PROVE Before(t, a)
    <2>1. ASSUME NEW k \in 1..Len(a) PROVE Under(t, a[k])
      <3>1. k \in 1..Len(s) \/ k = Len(s) + 1
          BY ONLY <1>1, k \in 1..Len(a)
      <3> QED
        <4>1. CASE k \in 1..Len(s)
            BY ONLY <1>1, <1>4, <4>1 DEF Before
        <4>2. CASE k = Len(s) + 1
            BY ONLY <1>1, <1>4, <4>2
        <4> QED
            BY ONLY <3>1, <4>1, <4>2
    <2> QED
        BY ONLY <2>1 DEF Before
  <1>5. ASSUME NEW t \in Seq(Nat), Before(s, t), Before(one, t) PROVE Before(a, t)
    <2>1. ASSUME NEW k \in 1..Len(t) PROVE Under(a, t[k])
      <3>1. Under(s, t[k]) /\ Under(one, t[k])
          BY ONLY <1>5, k \in 1..Len(t) DEF Before
      <3>2. ASSUME NEW i \in 1..Len(a) PROVE a[i] < t[k]
        <4>1. CASE i \in 1..Len(s)
            BY ONLY <1>1, <3>1, <4>1 DEF Under
        <4>2. CASE i = Len(s) + 1
            BY ONLY <1>1, <3>1, <4>2 DEF Under
        <4> QED
            BY ONLY <1>1, <4>1, <4>2, i \in 1..Len(a)
      <3> QED
          BY ONLY <3>2 DEF Under
    <2> QED
        BY ONLY <2>1 DEF Before
  <1> QED
      BY ONLY <1>1, <1>2, <1>3, <1>4, <1>5 DEF a, one

\* The first n of a sequence.
LEMMA FrontOrder ==
  ASSUME NEW s \in Seq(Nat), NEW n \in 0..Len(s)
  PROVE  /\ SubSeq(s, 1, n) \in Seq(Nat) /\ Len(SubSeq(s, 1, n)) = n
         /\ Sorted(s) => Sorted(SubSeq(s, 1, n))
         /\ \A x \in Nat : Under(s, x) => Under(SubSeq(s, 1, n), x)
         /\ \A t \in Seq(Nat) : Before(t, s) => Before(t, SubSeq(s, 1, n))
         /\ \A t \in Seq(Nat) : Before(s, t) => Before(SubSeq(s, 1, n), t)
  <1> DEFINE f == SubSeq(s, 1, n)
  <1>1. /\ f \in Seq(Nat) /\ Len(f) = n /\ \A i \in 1..n : f[i] = s[i] /\ i \in 1..Len(s)
      OBVIOUS
  <1> HIDE DEF f
  <1>2. /\ Sorted(s) => Sorted(f)
        /\ \A x \in Nat : Under(s, x) => Under(f, x)
        /\ \A t \in Seq(Nat) : Before(t, s) => Before(t, f)
        /\ \A t \in Seq(Nat) : Before(s, t) => Before(f, t)
      BY ONLY <1>1 DEF Sorted, Before, Under
  <1> QED
      BY ONLY <1>1, <1>2 DEF f

\* Bytes above all that was delivered stay so where it does not grow.
LEMMA BackKept ==
  ASSUME UrxInv, \A x \in Nat : Delivered(x) => Delivered(x)',
         UNCHANGED <<urxLine, urxHil, urxChan, urxIsr>>
  PROVE  UrxBack'
  <1>1. /\ urxLine \in Nat /\ urxLine + 1 \in Nat /\ urxIsr.byte \in Nat
        /\ \A i \in 1..Len(urxChan) : urxChan[i] \in Nat
      BY DEF UrxInv, UrxTypes
  <1> QED
      BY <1>1 DEF UrxInv, UrxBack, UrxPending

\* The bus thread.
LEMMA UrxHilInv == ASSUME UrxInv, UrxHilCode PROVE UrxInv'
  <1>1. UNCHANGED <<urxIsr, urxFifo, urxApp, urxStream, urxRead>>
      BY DEF UrxHilCode, UrxFrame, uart_rx_error_callback, uart_rx_hil_thread
  <1>2. UrxTypes' /\ UrxFront'
      BY <1>1
         DEF UrxInv, UrxTypes, UrxFront, UrxHilCode, UrxFrame, uart_rx_error_callback, 
                  uart_rx_hil_thread
  <1>3. /\ \A x \in Nat : Delivered(x) => Delivered(x + 1)
        /\ urxLine \in Nat /\ \A i \in 1..Len(urxChan) : urxChan[i] \in Nat
        /\ urxIsr.byte \in Nat
    <2>1. \A t \in Seq(Nat), x \in Nat : Under(t, x) => Under(t, x + 1)
        BY DEF Under
    <2>2. \A x \in Nat : Delivered(x) => Delivered(x + 1)
        BY <2>1 DEF Delivered, UrxInv, UrxTypes
    <2> QED
        BY <2>2 DEF UrxInv, UrxTypes
  <1>4. ASSUME UrxFrame PROVE UrxBack'
    <2>1. ~ UrxPending /\ UrxPending' /\ urxLine' = urxLine + 1 /\ urxChan' = urxChan
        BY <1>4 DEF UrxFrame, UrxPending
    <2>2. Delivered(urxLine + 1) /\ Delivered(urxLine + 1 + 1)
        BY <1>3 DEF UrxInv, UrxBack
    <2> QED
        BY <1>1, <1>3, <2>1, <2>2 DEF UrxInv, UrxBack, Delivered
  <1>5. ASSUME uart_rx_error_callback PROVE UrxBack'
    <2>1. UrxPending /\ UrxPending' /\ urxLine' = urxLine /\ urxChan' = urxChan
        BY <1>5 DEF uart_rx_error_callback, UrxPending
    <2> QED
        BY <1>1, <2>1 DEF UrxInv, UrxBack, Delivered
  <1>6. ASSUME uart_rx_hil_thread PROVE UrxBack'
    <2>1. UrxPending /\ ~ UrxPending' /\ urxLine' = urxLine /\ urxChan' = <<urxLine>>
        BY <1>6 DEF uart_rx_hil_thread, UrxPending
    <2>2. Len(urxChan') = 1 /\ urxChan'[1] = urxLine
        BY <2>1
    <2> QED
        BY <1>1, <1>3, <2>1, <2>2 DEF UrxInv, UrxBack, Delivered
  <1> QED
      BY <1>2, <1>4, <1>5, <1>6 DEF UrxHilCode, UrxInv

\* The routine.
LEMMA UrxIsrInv == ASSUME UrxInv, UrxIsrCode PROVE UrxInv'
  <1>1. UNCHANGED <<urxLine, urxHil, urxApp, urxStream, urxRead>>
      BY DEF UrxIsrCode, UrxIsrNotify, UrxIsrPush, UrxIsrOverrun
  <1>2. CASE UNCHANGED urxFifo
    <2>1. (UrxPending' <=> UrxPending) /\ urxLine' = urxLine
        BY <1>1 DEF UrxPending
    <2>2. ASSUME UrxIsrNotify PROVE UrxTypes' /\ UrxBack'
      <3>1. PICK b \in Nat : urxChan = <<b>>
          BY <2>2 DEF UrxInv, UrxTypes, UrxIsrNotify
      <3>2. /\ urxIsr' = [pc |-> "push", byte |-> b, flags |-> {}] /\ urxChan' = <<>>
            /\ 1 \in 1..Len(urxChan) /\ urxChan[1] = b /\ Len(urxChan') = 0
          BY <2>2, <3>1 DEF UrxIsrNotify
      <3>3. Delivered(b) /\ b < urxLine + 1 /\ (UrxPending => b < urxLine)
          BY <3>2 DEF UrxInv, UrxBack
      <3>4. UrxTypes'
          BY <1>1, <1>2, <3>2 DEF UrxInv, UrxTypes
      <3>5. UrxBack'
          BY <1>1, <1>2, <2>1, <3>2, <3>3 DEF UrxInv, UrxBack, Delivered
      <3> QED
          BY <3>4, <3>5
    <2>3. ASSUME UrxIsrPush \/ UrxIsrOverrun PROVE UrxTypes' /\ UrxBack'
      <3>1. /\ urxIsr'.pc # "push" /\ urxIsr'.byte \in Nat /\ UNCHANGED urxChan
            /\ urxIsr' = [pc |-> urxIsr'.pc, byte |-> urxIsr'.byte, flags |-> urxIsr'.flags]
        <4>1. /\ urxIsr.byte \in Nat
              /\ urxIsr = [pc |-> urxIsr.pc, byte |-> urxIsr.byte, flags |-> urxIsr.flags]
            BY DEF UrxInv, UrxTypes
        <4>2. \/ urxIsr' = [pc |-> "idle", byte |-> 0, flags |-> {}]
              \/ urxIsr' = [urxIsr EXCEPT !.pc = "overrun", !.flags = urxFlags]
            BY <2>3 DEF UrxIsrPush, UrxIsrOverrun
        <4>3. UNCHANGED urxChan
            BY <2>3 DEF UrxIsrPush, UrxIsrOverrun
        <4>4. CASE urxIsr' = [urxIsr EXCEPT !.pc = "overrun", !.flags = urxFlags]
            BY ONLY <4>1, <4>3, <4>4
        <4>5. CASE urxIsr' = [pc |-> "idle", byte |-> 0, flags |-> {}]
            BY ONLY <4>3, <4>5
        <4> QED
            BY <4>2, <4>4, <4>5
      <3>2. UrxTypes'
          BY <1>1, <1>2, <3>1 DEF UrxInv, UrxTypes
      <3>3. UrxBack'
          BY <1>1, <1>2, <2>1, <3>1 DEF UrxInv, UrxBack, Delivered
      <3> QED
          BY <3>2, <3>3
    <2>4. UrxFront'
        BY <1>1, <1>2 DEF UrxInv, UrxFront
    <2> QED
        BY <2>2, <2>3, <2>4 DEF UrxIsrCode, UrxInv
  <1>3. CASE ~ UNCHANGED urxFifo
    <2>1. /\ urxIsr.pc = "push" /\ urxFifo' = Append(urxFifo, urxIsr.byte) /\ UNCHANGED urxChan
          /\ urxIsr' = [pc |-> "idle", byte |-> 0, flags |-> {}]
        BY <1>3 DEF UrxIsrCode, UrxIsrNotify, UrxIsrPush, UrxIsrOverrun
    <2>2. /\ urxFifo \in Seq(Nat) /\ urxIsr.byte \in Nat /\ Delivered(urxIsr.byte)
          /\ urxStream \in Seq(Nat) /\ urxApp.bytes \in Seq(Nat) /\ <<urxRead>> \in Seq(Nat)
          /\ Under(<<urxRead>>, urxIsr.byte)
        BY <2>1 DEF UrxInv, UrxTypes, UrxBack, Delivered, Under
    <2>3. UrxTypes'
        BY <1>1, <2>1, <2>2, AppendOrder DEF UrxInv, UrxTypes
    <2>4. UrxFront'
        BY <1>1, <2>1, <2>2, AppendOrder DEF UrxInv, UrxFront, Delivered
    <2>6. UrxBack'
      <3>1. (UrxPending' <=> UrxPending) /\ urxLine' = urxLine /\ urxLine \in Nat /\ urxIsr'.pc # "push"
          BY <1>1, <2>1 DEF UrxPending, UrxInv, UrxTypes
      <3>2. \A i \in 1..Len(urxChan) : urxChan[i] \in Nat
          BY DEF UrxInv, UrxTypes
      <3>3. /\ Delivered(urxLine + 1) /\ urxIsr.byte < urxLine + 1
            /\ UrxPending => Delivered(urxLine) /\ urxIsr.byte < urxLine
            /\ \A i \in 1..Len(urxChan) : /\ Delivered(urxChan[i]) /\ urxIsr.byte < urxChan[i]
                                          /\ urxChan[i] < urxLine + 1
                                          /\ UrxPending => urxChan[i] < urxLine
          BY <2>1 DEF UrxInv, UrxBack
      <3>4. /\ Delivered(urxLine + 1)' /\ (UrxPending => Delivered(urxLine)')
            /\ \A i \in 1..Len(urxChan) : Delivered(urxChan[i])'
        <4>1. urxLine + 1 \in Nat
            BY <3>1
        <4> QED
            BY <1>1, <2>1, <2>2, <3>1, <3>2, <3>3, <4>1, AppendOrder DEF Delivered
      <3> QED
          BY <2>1, <3>1, <3>3, <3>4 DEF UrxBack
    <2> QED
        BY <2>3, <2>4, <2>6 DEF UrxInv
  <1> QED
      BY <1>2, <1>3

\* The driver's thread.
LEMMA UrxAppInv == ASSUME UrxInv, UrxAppCode PROVE UrxInv'
  <1>1. /\ urxStream \in Seq(Nat) /\ urxApp.bytes \in Seq(Nat) /\ urxFifo \in Seq(Nat)
        /\ urxApp = [pc |-> urxApp.pc, bytes |-> urxApp.bytes]
        /\ <<urxRead>> \in Seq(Nat) /\ <<>> \in Seq(Nat)
        /\ urxApp.pc \in {"wait", "error"} => urxApp.bytes = <<>>
        /\ UNCHANGED <<urxLine, urxHil, urxChan, urxIsr, urxRead>>
      BY DEF UrxInv, UrxTypes, UrxAppCode, UrxTake, UrxPop, UrxSend, UrxClearFlags
  <1>2. CASE UrxPop /\ urxFifo # <<>>
    <2> DEFINE b == Head(urxFifo)
    <2>1. /\ urxApp' = [pc |-> urxApp.pc, bytes |-> Append(urxApp.bytes, b)]
          /\ urxFifo' = Tail(urxFifo) /\ urxStream' = urxStream /\ urxApp.pc = "pop"
        BY <1>1, <1>2 DEF UrxPop
    <2>2. b \in Nat /\ Tail(urxFifo) \in Seq(Nat)
        BY <1>1, <1>2, PassedOn
    <2>3. /\ Sorted(Tail(urxFifo)) /\ Before(<<b>>, Tail(urxFifo))
          /\ Before(<<urxRead>>, Tail(urxFifo)) /\ Under(<<urxRead>>, b)
          /\ Before(urxStream, Tail(urxFifo)) /\ Under(urxStream, b)
          /\ Before(urxApp.bytes, Tail(urxFifo)) /\ Under(urxApp.bytes, b)
          /\ \A x \in Nat : Under(urxFifo, x) => Under(Tail(urxFifo), x) /\ b < x
        BY <1>1, <1>2, TailOrder DEF UrxInv, UrxFront
    <2> HIDE DEF b
    <2>4. /\ Append(urxApp.bytes, b) \in Seq(Nat) /\ Sorted(Append(urxApp.bytes, b))
          /\ Before(<<urxRead>>, Append(urxApp.bytes, b))
          /\ Before(urxStream, Append(urxApp.bytes, b))
          /\ Before(Append(urxApp.bytes, b), Tail(urxFifo))
          /\ \A x \in Nat : Under(urxApp.bytes, x) /\ b < x => Under(Append(urxApp.bytes, b), x)
        BY <1>1, <2>2, <2>3, AppendOrder DEF UrxInv, UrxFront
    <2>5. \A x \in Nat : Delivered(x) => Delivered(x)'
        BY <1>1, <2>1, <2>3, <2>4 DEF Delivered
    <2>6. UrxTypes'
        BY <1>1, <2>1, <2>2, <2>4 DEF UrxInv, UrxTypes
    <2>7. UrxFront'
        BY <1>1, <2>1, <2>3, <2>4 DEF UrxInv, UrxFront
    <2> QED
        BY <1>1, <2>5, <2>6, <2>7, BackKept DEF UrxInv
  <1>3. CASE UrxSend
    <2>1. PICK n \in 0..Len(urxApp.bytes) :
             /\ urxStream' = urxStream \o SubSeq(urxApp.bytes, 1, n) /\ urxApp'.bytes = <<>>
             /\ urxApp' = [pc |-> urxApp'.pc, bytes |-> <<>>] /\ urxFifo' = urxFifo
             /\ Len(urxStream) + n <= UrxStream
      <3>1. /\ Len(urxApp.bytes) \in Nat /\ Len(urxStream) \in Nat /\ UrxStream \in Nat
            /\ Len(urxStream) <= UrxStream
          BY <1>1, UrxAssumption DEF UrxInv, UrxTypes
      <3> DEFINE room == UrxStream - Len(urxStream)
                 n == IF Len(urxApp.bytes) <= room THEN Len(urxApp.bytes) ELSE room
      <3>2. n \in 0..Len(urxApp.bytes) /\ Len(urxStream) + n <= UrxStream
          BY <3>1
      <3> QED
          BY <1>3, <3>2 DEF UrxSend
    <2> DEFINE f == SubSeq(urxApp.bytes, 1, n)
    <2>2. /\ f \in Seq(Nat) /\ Sorted(f) /\ Before(<<urxRead>>, f) /\ Before(urxStream, f)
          /\ Before(f, urxFifo) /\ Len(f) = n /\ \A x \in Nat : Under(urxApp.bytes, x) => Under(f, x)
        BY <1>1, <2>1, FrontOrder DEF UrxInv, UrxFront
    <2> HIDE DEF f
    <2>3. /\ urxStream \o f \in Seq(Nat) /\ Sorted(urxStream \o f)
          /\ Before(urxStream \o f, urxFifo) /\ Before(<<urxRead>>, urxStream \o f)
          /\ Len(urxStream \o f) <= UrxStream
          /\ \A x \in Nat : Under(urxStream, x) /\ Under(f, x) => Under(urxStream \o f, x)
      <3>1. Len(urxStream \o f) = Len(urxStream) + n
        <4>1. urxStream \in Seq(Nat) /\ f \in Seq(Nat) /\ Len(f) = n
            BY <1>1, <2>2
        <4>2. Len(urxStream \o f) = Len(urxStream) + Len(f)
            BY <1>1, <2>2, Joined DEF UrxInv, UrxFront
        <4> QED
            BY <4>1, <4>2
      <3> QED
          BY <1>1, <2>1, <2>2, <3>1, Joined DEF UrxInv, UrxFront
    <2>4. \A t \in Seq(Nat) : Sorted(<<>>) /\ Before(t, <<>>) /\ Before(<<>>, t)
        BY DEF Sorted, Before, Under
    <2>5. \A x \in Nat : Under(<<>>, x)
        BY DEF Under
    <2>6. \A x \in Nat : Delivered(x) => Delivered(x)'
        BY <1>1, <2>1, <2>2, <2>3, <2>5 DEF Delivered, f
    <2>7. UrxTypes'
        BY <1>1, <2>1, <2>3 DEF UrxInv, UrxTypes, f
    <2>8. UrxFront'
        BY <1>1, <2>1, <2>3, <2>4 DEF UrxInv, UrxFront, f
    <2> QED
        BY <1>1, <2>6, <2>7, <2>8, BackKept DEF UrxInv
  <1>4. CASE UrxTake \/ UrxClearFlags \/ (UrxPop /\ urxFifo = <<>>)
    <2>1. /\ urxApp'.bytes = urxApp.bytes /\ urxApp' = [pc |-> urxApp'.pc, bytes |-> urxApp'.bytes]
          /\ urxApp'.pc \in {"wait", "error"} => urxApp.bytes = <<>>
          /\ UNCHANGED <<urxFifo, urxStream>>
      <3>1. CASE UrxTake
          BY <1>1, <3>1 DEF UrxTake
      <3>2. CASE UrxClearFlags
          BY <1>1, <3>2 DEF UrxClearFlags
      <3>3. CASE UrxPop /\ urxFifo = <<>>
          BY <1>1, <3>3 DEF UrxPop
      <3> QED
          BY <1>4, <3>1, <3>2, <3>3
    <2>2. \A x \in Nat : Delivered(x) => Delivered(x)'
        BY <1>1, <2>1 DEF Delivered
    <2>3. UrxTypes' /\ UrxFront'
        BY <1>1, <2>1 DEF UrxInv, UrxTypes, UrxFront
    <2> QED
        BY <1>1, <2>2, <2>3, BackKept DEF UrxInv
  <1> QED
      BY <1>2, <1>3, <1>4 DEF UrxAppCode

\* The application.
LEMMA UrxReadInv ==
  ASSUME UrxInv, rtos_uart_rx_read \/ rtos_uart_rx_reset_buffer
  PROVE  UrxInv'
  <1>1. /\ urxStream \in Seq(Nat) /\ urxApp.bytes \in Seq(Nat) /\ urxFifo \in Seq(Nat)
        /\ urxStream # <<>> /\ UNCHANGED <<urxLine, urxHil, urxChan, urxIsr, urxApp, urxFifo>>
      BY DEF UrxInv, UrxTypes, rtos_uart_rx_read, rtos_uart_rx_reset_buffer
  <1>2. CASE rtos_uart_rx_read
    <2> DEFINE b == Head(urxStream)
    <2>1. b \in Nat /\ Tail(urxStream) \in Seq(Nat)
        BY <1>1, PassedOn
    <2>2. /\ Sorted(Tail(urxStream)) /\ Before(<<b>>, Tail(urxStream))
          /\ Before(Tail(urxStream), urxApp.bytes) /\ Before(<<b>>, urxApp.bytes)
          /\ Before(Tail(urxStream), urxFifo) /\ Before(<<b>>, urxFifo)
          /\ \A x \in Nat : Under(urxStream, x) => Under(Tail(urxStream), x) /\ b < x
        BY <1>1, TailOrder DEF UrxInv, UrxFront
    <2>3. urxRead' = b /\ urxStream' = Tail(urxStream)
        BY <1>2 DEF rtos_uart_rx_read
    <2> HIDE DEF b
    <2>4. \A x \in Nat : Delivered(x) => Delivered(x)'
        BY <1>1, <2>2, <2>3 DEF Delivered
    <2>5. UrxTypes'
      <3>1. Len(Tail(urxStream)) <= UrxStream
          BY <1>1, PassedOn, UrxAssumption DEF UrxInv, UrxTypes
      <3> QED
          BY <1>1, <2>1, <2>3, <3>1 DEF UrxInv, UrxTypes
    <2>6. UrxFront'
        BY <1>1, <2>2, <2>3 DEF UrxInv, UrxFront
    <2> QED
        BY <1>1, <2>4, <2>5, <2>6, BackKept DEF UrxInv
  <1>3. CASE rtos_uart_rx_reset_buffer
    <2>1. urxStream' = <<>> /\ urxRead' = urxRead /\ <<>> \in Seq(Nat)
        BY <1>3 DEF rtos_uart_rx_reset_buffer
    <2>2. \A t \in Seq(Nat) : Sorted(<<>>) /\ Before(t, <<>>) /\ Before(<<>>, t)
        BY DEF Sorted, Before, Under
    <2>3. \A x \in Nat : Under(<<>>, x)
        BY DEF Under
    <2>4. \A x \in Nat : Delivered(x) => Delivered(x)'
        BY <1>1, <2>1, <2>3 DEF Delivered
    <2>5. UrxTypes'
        BY <1>1, <2>1, UrxAssumption DEF UrxInv, UrxTypes
    <2>6. <<urxRead>> \in Seq(Nat)
        BY DEF UrxInv, UrxTypes
    <2>7. UrxFront'
        BY <1>1, <2>1, <2>2, <2>6 DEF UrxInv, UrxFront
    <2> QED
        BY <1>1, <2>4, <2>5, <2>7, BackKept DEF UrxInv
  <1> QED
      BY <1>2, <1>3

\* The bytes the application reads, and those on their way to it, are in the order
\* of the line, none of them twice, whatever is dropped on the way.
THEOREM UartKeepsOrder == UrxSpec => []UartInOrder
  <1>1. UrxInit => UrxInv
    <2>1. \A t \in Seq(Nat) : Sorted(<<>>) /\ Before(t, <<>>) /\ Before(<<>>, t)
        BY DEF Sorted, Before, Under
    <2>2. \A x \in Nat : Under(<<>>, x)
        BY DEF Under
    <2>3. <<0>> \in Seq(Nat) /\ <<>> \in Seq(Nat) /\ Len(<<>>) = 0
        OBVIOUS
    <2> SUFFICES ASSUME UrxInit PROVE UrxInv
        OBVIOUS
    <2>4. UrxTypes
        BY <2>3, UrxAssumption DEF UrxInit, UrxTypes
    <2>5. UrxFront
        BY <2>1, <2>3 DEF UrxInit, UrxFront
    <2>6. UrxBack
        BY <2>2, <2>3 DEF UrxInit, UrxBack, UrxPending, Delivered
    <2> QED
        BY <2>4, <2>5, <2>6 DEF UrxInv
  <1>2. UrxInv /\ [UrxNext]_urxVars => UrxInv'
    <2>1. ASSUME UrxInv, UNCHANGED urxVars PROVE UrxInv'
        BY <2>1 DEF UrxInv, UrxTypes, UrxFront, UrxBack, UrxPending, Delivered, urxVars
    <2> QED
        BY <2>1, UrxHilInv, UrxIsrInv, UrxAppInv, UrxReadInv DEF UrxNext
  <1>3. UrxInv => UartInOrder
    <2> SUFFICES ASSUME UrxInv PROVE UartInOrder
        OBVIOUS
    <2> DEFINE i == IF urxIsr.pc = "push" THEN <<urxIsr.byte>> ELSE <<>>
               l == IF urxHil.pc \in {"send", "error"} THEN <<urxLine>> ELSE <<>>
               r == <<urxRead>>
    <2>1. /\ r \in Seq(Nat) /\ urxStream \in Seq(Nat) /\ urxApp.bytes \in Seq(Nat)
          /\ urxFifo \in Seq(Nat) /\ urxChan \in Seq(Nat)
          /\ urxIsr.byte \in Nat /\ urxLine \in Nat /\ Len(<<>>) = 0
      <3>1. urxRead \in Nat /\ (urxChan = <<>> \/ \E b \in Nat : urxChan = <<b>>)
          BY DEF UrxInv, UrxTypes
      <3>2. r \in Seq(Nat) /\ urxChan \in Seq(Nat) /\ Len(<<>>) = 0
        <4>1. r \in Seq(Nat) /\ Len(<<>>) = 0
            BY <3>1
        <4>2. CASE urxChan = <<>>
            BY ONLY <4>2, <4>1
        <4>3. CASE \E b \in Nat : urxChan = <<b>>
            BY ONLY <4>3, <4>1
        <4> QED
            BY <3>1, <4>1, <4>2, <4>3
      <3> QED
          BY <3>2 DEF UrxInv, UrxTypes
    <2>2. /\ i \in Seq(Nat) /\ (urxIsr.pc = "push" => Len(i) = 1 /\ i[1] = urxIsr.byte)
          /\ urxIsr.pc # "push" => Len(i) = 0
      <3>1. CASE urxIsr.pc = "push"
          BY <2>1, <3>1
      <3>2. CASE urxIsr.pc # "push"
          BY <2>1, <3>2
      <3> QED
          BY <3>1, <3>2
    <2>3. /\ l \in Seq(Nat) /\ (UrxPending => Len(l) = 1 /\ l[1] = urxLine)
          /\ ~ UrxPending => Len(l) = 0
      <3>1. CASE UrxPending
          BY <2>1, <3>1 DEF UrxPending
      <3>2. CASE ~ UrxPending
          BY <2>1, <3>2 DEF UrxPending
      <3> QED
          BY <3>1, <3>2
    <2>4. urxChan = <<>> \/ Len(urxChan) = 1
        BY DEF UrxInv, UrxTypes
    <2>5. UartInOrder <=>
             \A n \in 1..Len(r \o (urxStream \o urxApp.bytes \o urxFifo \o i \o urxChan \o l)) - 1 :
                (r \o (urxStream \o urxApp.bytes \o urxFifo \o i \o urxChan \o l))[n]
                   < (r \o (urxStream \o urxApp.bytes \o urxFifo \o i \o urxChan \o l))[n + 1]
        BY DEF UartInOrder, UrxInFlight
    <2> HIDE DEF i, l
    <2>6. /\ Sorted(i) /\ Sorted(l) /\ Sorted(r) /\ Sorted(urxChan)
          /\ Before(i, urxChan) /\ Before(i, l) /\ Before(urxChan, l)
      <3>1. \A t \in {i, l, r, urxChan} : Len(t) = 0 \/ Len(t) = 1
          BY <2>2, <2>3, <2>4
      <3>2. \A t : Len(t) = 0 \/ Len(t) = 1 => Sorted(t)
          BY DEF Sorted
      <3>3. /\ Len(i) = 1 => \A k \in 1..Len(urxChan) : i[1] < urxChan[k]
            /\ Len(i) = 1 /\ Len(l) = 1 => i[1] < l[1]
            /\ Len(l) = 1 => \A k \in 1..Len(urxChan) : urxChan[k] < l[1]
          BY <2>2, <2>3 DEF UrxInv, UrxBack
      <3>4. Before(i, urxChan) /\ Before(i, l) /\ Before(urxChan, l)
          BY <2>2, <2>3, <3>1, <3>3 DEF Before, Under
      <3> QED
          BY <3>1, <3>2, <3>4
    <2>7. /\ \A k \in 1..Len(i) : Delivered(i[k])
          /\ \A k \in 1..Len(l) : Delivered(l[k])
          /\ \A k \in 1..Len(urxChan) : Delivered(urxChan[k])
      <3>1. \A k \in 1..Len(urxChan) : Delivered(urxChan[k])
          BY DEF UrxInv, UrxBack
      <3>2. ASSUME NEW k \in 1..Len(i) PROVE Delivered(i[k])
        <4>1. urxIsr.pc = "push" /\ k = 1 /\ i[1] = urxIsr.byte
          <5>1. urxIsr.pc = "push"
              BY <2>2
          <5>2. Len(i) = 1 /\ i[1] = urxIsr.byte
              BY <2>2, <5>1
          <5> QED
              BY <5>1, <5>2
        <4>2. Delivered(urxIsr.byte)
            BY <4>1 DEF UrxInv, UrxBack
        <4> QED
            BY <4>1, <4>2
      <3>3. ASSUME NEW k \in 1..Len(l) PROVE Delivered(l[k])
        <4>1. UrxPending /\ k = 1 /\ l[1] = urxLine
          <5>1. UrxPending
              BY <2>3
          <5>2. Len(l) = 1 /\ l[1] = urxLine
              BY <2>3, <5>1
          <5> QED
              BY <5>1, <5>2
        <4>2. Delivered(urxLine)
            BY <4>1 DEF UrxInv, UrxBack
        <4> QED
            BY <4>1, <4>2
      <3> QED
          BY <3>1, <3>2, <3>3
    <2>8. \A k \in {i, urxChan, l} :
             /\ Before(r, k) /\ Before(urxStream, k) /\ Before(urxApp.bytes, k) /\ Before(urxFifo, k)
        BY <2>7 DEF Delivered, Before, Under
    <2> HIDE DEF r
    <2> DEFINE s1 == urxStream \o urxApp.bytes
               s2 == s1 \o urxFifo
               s3 == s2 \o i
               s4 == s3 \o urxChan
               s5 == s4 \o l
               all == r \o s5
    <2>9. /\ s1 \in Seq(Nat) /\ Sorted(s1) /\ Before(r, s1) /\ Before(s1, urxFifo)
          /\ \A k \in {i, urxChan, l} : Before(s1, k)
      <3>1. i \in Seq(Nat) /\ l \in Seq(Nat) /\ urxChan \in Seq(Nat)
          BY <2>1, <2>2, <2>3
      <3> QED
          BY <2>1, <2>8, <3>1, Joined DEF UrxInv, UrxFront, r
    <2> HIDE DEF s1
    <2>10. /\ s2 \in Seq(Nat) /\ Sorted(s2) /\ Before(r, s2)
           /\ \A k \in {i, urxChan, l} : Before(s2, k)
      <3>1. i \in Seq(Nat) /\ l \in Seq(Nat) /\ urxChan \in Seq(Nat) /\ urxFifo \in Seq(Nat)
          BY <2>1, <2>2, <2>3
      <3>2. Sorted(urxFifo) /\ Before(r, urxFifo) /\ \A k \in {i, urxChan, l} : Before(urxFifo, k)
          BY <2>8 DEF UrxInv, UrxFront, r
      <3>3. /\ s2 \in Seq(Nat) /\ Sorted(s2)
            /\ \A u \in Seq(Nat) : Before(s1, u) /\ Before(urxFifo, u) => Before(s2, u)
            /\ \A u \in Seq(Nat) : Before(u, s1) /\ Before(u, urxFifo) => Before(u, s2)
          BY ONLY <2>9, <3>1, <3>2, Joined
      <3> QED
          BY ONLY <2>1, <2>9, <3>1, <3>2, <3>3
    <2> HIDE DEF s2
    <2>11. /\ s3 \in Seq(Nat) /\ Sorted(s3) /\ Before(r, s3) /\ Before(s3, urxChan) /\ Before(s3, l)
        BY <2>1, <2>2, <2>3, <2>6, <2>8, <2>10, Joined
    <2> HIDE DEF s3
    <2>12. s4 \in Seq(Nat) /\ Sorted(s4) /\ Before(r, s4) /\ Before(s4, l)
        BY <2>1, <2>3, <2>6, <2>8, <2>11, Joined
    <2> HIDE DEF s4
    <2>13. s5 \in Seq(Nat) /\ Sorted(s5) /\ Before(r, s5)
        BY <2>1, <2>3, <2>6, <2>8, <2>12, Joined
    <2> HIDE DEF s5
    <2>14. all \in Seq(Nat) /\ Sorted(all)
        BY <2>1, <2>6, <2>13, Joined
    <2>15. \A n \in 1..Len(all) - 1 : all[n] < all[n + 1]
      <3> HIDE DEF all
      <3> SUFFICES ASSUME NEW n \in 1..Len(all) - 1 PROVE all[n] < all[n + 1]
          OBVIOUS
      <3>1. n \in 1..Len(all) /\ n + 1 \in 1..Len(all) /\ n < n + 1
          BY <2>14
      <3> QED
          BY ONLY <2>14, <3>1 DEF Sorted
    <2> QED
        BY <2>5, <2>15 DEF all, s1, s2, s3, s4, s5
  <1> QED
      BY <1>1, <1>2, <1>3, PTL DEF UrxSpec

(***************************************************************************)
(* The I2C slave.                                                          *)
(***************************************************************************)

\* What the buffer may hold, the byte sent when there is none included.
IscAny == IscBytes \cup {0}
\* What the application is told.
IscRequests == {"rx", "tx_start", "tx_done"}

IscTypes ==
  /\ iscCtx = [buf |-> iscCtx.buf, rx_data_i |-> iscCtx.rx_data_i, tx |-> iscCtx.tx,
               tx_data_len |-> iscCtx.tx_data_len, tx_data_i |-> iscCtx.tx_data_i,
               tx_data_sent |-> iscCtx.tx_data_sent, waiting |-> iscCtx.waiting,
               tx_done |-> iscCtx.tx_done]
  /\ iscCtx.buf \in Seq(IscAny) /\ iscCtx.rx_data_i \in Nat /\ iscCtx.tx_data_sent \in Nat
  /\ iscCtx.waiting \in BOOLEAN /\ iscCtx.tx_done \in BOOLEAN
  /\ iscHil = [pc |-> iscHil.pc, then |-> iscHil.then]
  /\ iscHil.then \in {"idle", "read", "write"}
  /\ iscBus.data \in Seq(IscAny)

\* The bytes of a transfer that fit the buffer.
IscFit(data) == IF Len(data) <= IscBufLen THEN data ELSE SubSeq(data, 1, IscBufLen)

\* Buffer and indices are those of a transfer, or of none.
Received(x) ==
  /\ x.dir = "rx" /\ x.data \in Seq(IscAny) /\ x.data # <<>> /\ iscCtx.tx_data_sent = 0
  /\ iscCtx.buf = IscFit(x.data) /\ iscCtx.rx_data_i = Len(IscFit(x.data))
Sent(x) ==
  /\ x.dir = "tx" /\ x.data \in Seq(IscAny) /\ x.data # <<>> /\ iscCtx.rx_data_i = 0
  /\ iscCtx.tx_data_sent = Len(x.data)
Nothing == iscCtx.rx_data_i = 0 /\ iscCtx.tx_data_sent = 0

\* A transfer that is over and has to be told, and what the check finds.
Told(q) ==
  \E x : /\ iscDone = <<x>>
         /\ \/ q = "rx" /\ Received(x)
            \/ q = "tx_done" /\ Sent(x) /\ iscCtx.tx_done
OverRight ==
  \/ iscDone = <<>> /\ Nothing
  \/ iscDone = <<>> /\ iscCtx.rx_data_i = 0 /\ ~ iscCtx.tx_done
  \/ Told("rx") \/ Told("tx_done")

BusThreadRight ==
  /\ iscCtx.waiting => iscHil.pc \in {"idle", "previous"}
  /\ iscHil.pc \in {"reading", "writing", "refused"} =>
        /\ iscDone = <<>>
        /\ \/ iscBus = NoTransfer /\ Nothing /\ (iscHil.pc = "writing" => iscCtx.buf = <<>>)
           \/ iscHil.pc = "reading" /\ Sent(iscBus)
           \/ iscHil.pc # "reading" /\ Received(iscBus)
  /\ iscHil.pc \notin {"reading", "writing", "refused"} => iscBus = NoTransfer
  /\ iscHil.pc \in {"read", "write", "tx_start"} => iscDone = <<>> /\ Nothing
  /\ iscHil.pc = "idle" /\ ~ iscCtx.waiting => iscDone = <<>> /\ Nothing
  /\ iscHil.pc \in {"previous", "complete"} /\ ~ iscCtx.waiting => OverRight

\* Where the one request is.
Resting(o, p, f, a, b) ==
  /\ iscOut = o /\ iscPend = p /\ iscFlags = f /\ iscBack = b
  /\ iscApp = [pc |-> a, flags |-> IF a = "wait" THEN {} ELSE {a}]
Nowhere == Resting(<<>>, <<>>, {}, "wait", 0)
OnItsWay(q) ==
  \/ Resting(<<q>>, <<>>, {}, "wait", 0) \/ Resting(<<>>, <<q>>, {}, "wait", 0)
  \/ Resting(<<>>, <<>>, {q}, "wait", 0) \/ Resting(<<>>, <<>>, {}, q, 0)
Answered == Resting(<<>>, <<>>, {}, "wait", 1)

\* The bus thread waits for an answer.
IscAwaits == iscCtx.waiting \/ iscHil.pc \in {"answer", "tx_start"}

RequestRight ==
  /\ ~ IscAwaits => Nowhere
  /\ IscAwaits =>
        \/ Answered /\ iscDone = <<>> /\ Nothing
        \/ \E q \in IscRequests :
              /\ OnItsWay(q)
              /\ IF iscHil.pc = "tx_start" THEN q = "tx_start" ELSE Told(q)

\* The inductive invariant.
IscInv == IscTypes /\ BusThreadRight /\ RequestRight

\* What the application reads of the context stays as it is.
IscCtxKept ==
  /\ iscCtx'.buf = iscCtx.buf /\ iscCtx'.rx_data_i = iscCtx.rx_data_i
  /\ iscCtx'.tx_data_sent = iscCtx.tx_data_sent /\ iscCtx'.tx_done = iscCtx.tx_done

\* What only changes whether the thread waits says nothing of a transfer.
LEMMA TransferKept ==
  ASSUME IscCtxKept
  PROVE  /\ Nothing' <=> Nothing
         /\ \A x : (Received(x)' <=> Received(x)) /\ (Sent(x)' <=> Sent(x))
         /\ iscDone' = iscDone => (OverRight' <=> OverRight) /\ \A q : Told(q)' <=> Told(q)
  <1>1. (Nothing' <=> Nothing) /\ \A x : (Received(x)' <=> Received(x)) /\ (Sent(x)' <=> Sent(x))
      BY DEF IscCtxKept, Nothing, Received, Sent
  <1>2. ASSUME iscDone' = iscDone PROVE \A q : Told(q)' <=> Told(q)
      BY <1>2 DEF IscCtxKept, Told, Received, Sent
  <1>3. ASSUME iscDone' = iscDone PROVE OverRight' <=> OverRight
      BY <1>1, <1>2, <1>3 DEF IscCtxKept, OverRight
  <1> QED
      BY <1>1, <1>2, <1>3

\* The request goes from one place to the next.
LEMMA IscMoves ==
  ASSUME IscInv, UNCHANGED <<iscCtx, iscHil, iscBus, iscDone>>, ~ Nowhere, ~ Answered,
         \A q \in IscRequests : OnItsWay(q) => OnItsWay(q)'
  PROVE  IscInv'
  <1>1. IscCtxKept /\ (IscAwaits' <=> IscAwaits)
      BY DEF IscCtxKept, IscAwaits
  <1>2. IscTypes'
      BY DEF IscInv, IscTypes
  <1>3. (Nothing' <=> Nothing) /\ (OverRight' <=> OverRight) /\ \A q : Told(q)' <=> Told(q)
      BY <1>1, TransferKept
  <1>4. BusThreadRight'
      BY <1>1, <1>3, TransferKept DEF IscInv, BusThreadRight, Received, Sent
  <1>5. RequestRight'
      BY <1>1, <1>3 DEF IscInv, RequestRight
  <1> QED
      BY <1>2, <1>4, <1>5 DEF IscInv

\* The request on its way from the bus thread to the application's thread.
LEMMA IscMoveInv ==
  ASSUME IscInv, rtos_i2c_slave_isr \/ IscSetFlags \/ IscTakeFlags
  PROVE  IscInv'
  <1>1. UNCHANGED <<iscCtx, iscHil, iscBus, iscDone>>
      BY DEF rtos_i2c_slave_isr, IscSetFlags, IscTakeFlags
  <1>2. ~ Nowhere /\ ~ Answered
      BY DEF rtos_i2c_slave_isr, IscSetFlags, IscTakeFlags, Nowhere, Answered, Resting
  <1>3. ASSUME NEW q \in IscRequests, OnItsWay(q) PROVE OnItsWay(q)'
    <2>1. CASE rtos_i2c_slave_isr
      <3>1. Resting(<<q>>, <<>>, {}, "wait", 0)
          BY <1>3, <2>1 DEF OnItsWay, Resting, rtos_i2c_slave_isr
      <3>2. Resting(<<>>, <<q>>, {}, "wait", 0)'
          BY <2>1, <3>1 DEF Resting, rtos_i2c_slave_isr
      <3> QED
          BY <3>2 DEF OnItsWay
    <2>2. CASE IscSetFlags
      <3>1. Resting(<<>>, <<q>>, {}, "wait", 0)
          BY <1>3, <2>2 DEF OnItsWay, Resting, IscSetFlags
      <3>2. Resting(<<>>, <<>>, {q}, "wait", 0)'
          BY <2>2, <3>1 DEF Resting, IscSetFlags
      <3> QED
          BY <3>2 DEF OnItsWay
    <2>3. CASE IscTakeFlags
      <3>1. Resting(<<>>, <<>>, {q}, "wait", 0)
          BY <1>3, <2>3 DEF OnItsWay, Resting, IscTakeFlags
      <3>2. NextCallback({q}) = q /\ q # "wait"
          BY DEF NextCallback, IscRequests
      <3>3. Resting(<<>>, <<>>, {}, q, 0)'
          BY <2>3, <3>1, <3>2 DEF Resting, IscTakeFlags
      <3> QED
          BY <3>3 DEF OnItsWay
    <2> QED
        BY <2>1, <2>2, <2>3
  <1> QED
      BY <1>1, <1>2, <1>3, IscMoves

\* The application has served the request.
LEMMA IscServed ==
  ASSUME IscInv, NEW q \in IscRequests, iscApp.pc = q
  PROVE  /\ Resting(<<>>, <<>>, {}, q, 0) /\ IscAwaits
         /\ IF iscHil.pc = "tx_start" THEN q = "tx_start" ELSE Told(q)
         /\ iscHil.pc \in {"idle", "previous", "answer", "tx_start"}
         /\ CallbackDone => iscApp' = [pc |-> "wait", flags |-> {}]
  <1>1. q # "wait"
      BY DEF IscRequests
  <1>2. IscAwaits
      BY <1>1 DEF IscInv, RequestRight, Nowhere, Resting
  <1>3. ~ Answered
      BY <1>1 DEF Answered, Resting
  <1>4. PICK p \in IscRequests :
           OnItsWay(p) /\ IF iscHil.pc = "tx_start" THEN p = "tx_start" ELSE Told(p)
      BY <1>2, <1>3 DEF IscInv, RequestRight
  <1>5. p = q /\ Resting(<<>>, <<>>, {}, q, 0)
      BY <1>1, <1>4 DEF OnItsWay, Resting
  <1>6. iscHil.pc \in {"idle", "previous", "answer", "tx_start"}
      BY <1>2 DEF IscInv, IscAwaits, BusThreadRight
  <1>7. CallbackDone => iscApp' = [pc |-> "wait", flags |-> {}]
    <2>1. iscApp = [pc |-> q, flags |-> {q}]
        BY <1>1, <1>5 DEF Resting
    <2>2. iscApp.flags \ {iscApp.pc} = {}
        BY <2>1
    <2> QED
        BY <2>2 DEF CallbackDone, NextCallback
  <1> QED
      BY <1>2, <1>4, <1>5, <1>6, <1>7

\* A callback has returned: what it was told is dealt with, and the answer is
\* on its way back.
LEMMA IscAnswered ==
  ASSUME IscInv, NEW q \in IscRequests, iscApp.pc = q, CallbackDone, iscBack' = iscBack + 1,
         UNCHANGED <<iscHil, iscOut, iscPend, iscFlags, iscBus>>, IscTypes',
         iscCtx'.waiting = iscCtx.waiting, iscDone' = <<>>, Nothing'
  PROVE  IscInv'
  <1>1. /\ Resting(<<>>, <<>>, {}, q, 0) /\ IscAwaits
        /\ iscHil.pc \in {"idle", "previous", "answer", "tx_start"}
        /\ iscApp' = [pc |-> "wait", flags |-> {}]
      BY IscServed
  <1>2. Answered' /\ (IscAwaits' <=> IscAwaits)
      BY <1>1 DEF Answered, Resting, IscAwaits
  <1>3. BusThreadRight'
      BY <1>1 DEF IscInv, BusThreadRight, OverRight, IscAwaits
  <1>4. RequestRight'
      BY <1>1, <1>2 DEF RequestRight
  <1> QED
      BY <1>3, <1>4 DEF IscInv

\* The application's callbacks.
LEMMA IscAppInv == ASSUME IscInv, IscRx \/ IscTxStart \/ IscTxDone PROVE IscInv'
  <1>1. IscTypes
      BY DEF IscInv
  <1>2. CASE IscRx
    <2>1. /\ "rx" \in IscRequests /\ iscApp.pc = "rx" /\ CallbackDone /\ iscBack' = iscBack + 1
          /\ UNCHANGED <<iscHil, iscOut, iscPend, iscFlags, iscBus>>
          /\ iscDone' = Tail(iscDone) /\ iscCtx' = [iscCtx EXCEPT !.rx_data_i = 0]
        BY <1>2 DEF IscRx, IscRequests
    <2>2. Told("rx")
        BY <2>1, IscServed
    <2>3. PICK x : iscDone = <<x>> /\ Received(x)
        BY <2>2 DEF Told
    <2>4. iscDone' = <<>>
        BY <2>1, <2>3
    <2>5. IscTypes' /\ iscCtx'.waiting = iscCtx.waiting /\ Nothing'
        BY <1>1, <2>1, <2>3 DEF IscTypes, Nothing, Received
    <2> QED
        BY ONLY IscInv, <2>1, <2>4, <2>5, IscAnswered
  <1>3. CASE IscTxDone
    <2>1. /\ "tx_done" \in IscRequests /\ iscApp.pc = "tx_done" /\ CallbackDone
          /\ UNCHANGED <<iscHil, iscOut, iscPend, iscFlags, iscBus>> /\ iscBack' = iscBack + 1
          /\ iscDone' = Tail(iscDone) /\ iscCtx' = TxCleared(iscCtx)
        BY <1>3 DEF IscTxDone, IscRequests
    <2>2. Told("tx_done")
        BY <2>1, IscServed
    <2>3. PICK x : iscDone = <<x>> /\ Sent(x)
        BY <2>2 DEF Told
    <2>4. iscDone' = <<>>
        BY <2>1, <2>3
    <2>5. IscTypes' /\ iscCtx'.waiting = iscCtx.waiting /\ Nothing'
        BY <1>1, <2>1, <2>3 DEF IscTypes, Nothing, Sent, TxCleared
    <2> QED
        BY ONLY IscInv, <2>1, <2>4, <2>5, IscAnswered
  <1>4. CASE IscTxStart
    <2>1. /\ "tx_start" \in IscRequests /\ iscApp.pc = "tx_start" /\ CallbackDone
          /\ UNCHANGED <<iscHil, iscOut, iscPend, iscFlags, iscBus, iscDone>>
          /\ iscBack' = iscBack + 1
        BY <1>4 DEF IscTxStart, IscRequests
    <2>2. PICK n : iscCtx' = [iscCtx EXCEPT !.tx_data_len = n]
        BY <1>4 DEF IscTxStart
    <2>3. iscHil.pc = "tx_start" \/ Told("tx_start")
        BY <2>1, IscServed
    <2>4. iscDone' = <<>> /\ Nothing
        BY <2>1, <2>3 DEF Told, IscInv, BusThreadRight
    <2>5. IscTypes' /\ iscCtx'.waiting = iscCtx.waiting /\ Nothing'
        BY <1>1, <2>1, <2>2, <2>4 DEF IscTypes, Nothing
    <2> QED
        BY ONLY IscInv, <2>1, <2>4, <2>5, IscAnswered
  <1> QED
      BY <1>2, <1>3, <1>4

\* What the check finds of the transfer that an event of the bus ends.
LEMMA TransferEnds ==
  ASSUME IscInv, ~ iscCtx.waiting, iscHil.pc \in {"idle", "reading", "writing", "refused"},
         TransferOver, UNCHANGED iscCtx
  PROVE  OverRight'
  <1>1. IscCtxKept
      BY DEF IscCtxKept
  <1>2. CASE iscBus = NoTransfer
    <2>1. iscDone' = <<>> /\ Nothing
        BY <1>2 DEF TransferOver, NoTransfer, IscInv, BusThreadRight, Received, Sent
    <2> QED
        BY <1>1, <2>1, TransferKept DEF OverRight
  <1>3. CASE iscBus # NoTransfer /\ Received(iscBus)
    <2>1. iscDone = <<>> /\ iscBus.data # <<>> /\ iscBus.dir = "rx"
        BY <1>3 DEF IscInv, BusThreadRight, Received
    <2>2. iscDone' = <<iscBus>>
        BY <2>1 DEF TransferOver
    <2>3. PICK x : x = iscBus
        OBVIOUS
    <2>4. Received(x)'
        BY <1>1, <1>3, <2>3, TransferKept
    <2> QED
        BY <2>2, <2>3, <2>4 DEF OverRight, Told
  <1>4. CASE iscBus # NoTransfer /\ Sent(iscBus)
    <2>1. iscDone = <<>> /\ iscBus.data # <<>> /\ iscBus.dir = "tx" /\ iscCtx.rx_data_i = 0
        BY <1>4 DEF IscInv, BusThreadRight, Sent
    <2>2. PICK x : x = iscBus
        OBVIOUS
    <2>3. Sent(x)'
        BY <1>1, <1>4, <2>2, TransferKept
    <2>4. CASE iscCtx.tx_done
      <3>1. iscDone' = <<x>> /\ iscCtx'.tx_done
          BY <2>1, <2>2, <2>4 DEF TransferOver
      <3> QED
          BY <2>3, <3>1 DEF OverRight, Told
    <2>5. CASE ~ iscCtx.tx_done
      <3>1. iscDone' = <<>> /\ ~ iscCtx'.tx_done /\ iscCtx'.rx_data_i = 0
          BY <2>1, <2>2, <2>5 DEF TransferOver
      <3> QED
          BY <3>1 DEF OverRight
    <2> QED
        BY <2>4, <2>5
  <1> QED
      BY <1>2, <1>3, <1>4 DEF IscInv, BusThreadRight

\* A stop or a repeated start ends a transfer.
LEMMA IscEventInv ==
  ASSUME IscInv, IscStop \/ \E then \in {"read", "write"} : IscStart(then)
  PROVE  IscInv'
  <1>1. /\ UNCHANGED <<iscCtx, iscOut, iscPend, iscFlags, iscBack, iscApp>> /\ TransferOver
        /\ iscHil.pc \in {"idle", "reading", "writing", "refused"} /\ iscBus' = NoTransfer
        /\ \E then \in {"idle", "read", "write"} : iscHil' = [pc |-> "previous", then |-> then]
      BY DEF IscStop, IscStart, TransferOver
  <1>2. IscTypes'
      BY <1>1 DEF IscInv, IscTypes, NoTransfer
  <1>3. IscCtxKept /\ iscHil'.pc = "previous" /\ (IscAwaits' <=> IscAwaits) /\ (IscAwaits <=> iscCtx.waiting)
      BY <1>1 DEF IscCtxKept, IscAwaits
  <1>4. BusThreadRight'
      BY <1>1, <1>3, TransferEnds DEF IscInv, BusThreadRight
  <1>5. CASE iscCtx.waiting
    <2>1. iscHil.pc = "idle" /\ iscBus = NoTransfer
        BY <1>1, <1>5 DEF IscInv, BusThreadRight
    <2>2. iscDone' = iscDone
        BY <1>1, <2>1 DEF TransferOver, NoTransfer
    <2>3. (Nothing' <=> Nothing) /\ \A q : Told(q)' <=> Told(q)
        BY <1>3, <2>2, TransferKept
    <2>4. (Answered' <=> Answered) /\ \A q : OnItsWay(q)' <=> OnItsWay(q)
        BY <1>1 DEF Answered, OnItsWay, Resting
    <2>5. RequestRight'
        BY <1>3, <1>5, <2>1, <2>2, <2>3, <2>4 DEF IscInv, RequestRight
    <2> QED
        BY <1>2, <1>4, <2>5 DEF IscInv
  <1>6. CASE ~ iscCtx.waiting
    <2>1. RequestRight'
        BY <1>1, <1>3, <1>6 DEF IscInv, RequestRight, Nowhere, Resting
    <2> QED
        BY <1>2, <1>4, <2>1 DEF IscInv
  <1> QED
      BY <1>2, <1>5, <1>6 DEF IscInv, IscTypes

\* The check for a transfer that has not been told.
LEMMA IscPreviousInv == ASSUME IscInv, IscPrevious PROVE IscInv'
  <1>1. /\ iscHil.pc = "previous" /\ (iscCtx.waiting => iscBack > 0)
        /\ iscBack' = IF iscCtx.waiting THEN iscBack - 1 ELSE iscBack
        /\ iscCtx' = [iscCtx EXCEPT !.waiting = FALSE]
        /\ iscHil' = [iscHil EXCEPT !.pc = "complete"]
        /\ UNCHANGED <<iscOut, iscPend, iscFlags, iscApp, iscBus, iscDone>>
      BY DEF IscPrevious, HilGoto
  <1>2. IscTypes' /\ IscCtxKept /\ iscHil'.pc = "complete" /\ ~ iscCtx'.waiting
      BY <1>1 DEF IscInv, IscTypes, IscCtxKept
  <1>3. IscAwaits <=> iscCtx.waiting
      BY <1>1 DEF IscAwaits
  <1>4. Nowhere' /\ OverRight
    <2>1. CASE iscCtx.waiting
      <3>1. Answered /\ iscDone = <<>> /\ Nothing
          BY <1>1, <1>3, <2>1 DEF IscInv, RequestRight, OnItsWay, Resting
      <3> QED
          BY <1>1, <2>1, <3>1 DEF Answered, Nowhere, Resting, OverRight
    <2>2. CASE ~ iscCtx.waiting
        BY <1>1, <1>3, <2>2 DEF IscInv, RequestRight, BusThreadRight, Nowhere, Resting
    <2> QED
        BY <2>1, <2>2
  <1>5. OverRight'
      BY <1>1, <1>2, <1>4, TransferKept
  <1>6. BusThreadRight'
      BY <1>1, <1>2, <1>5 DEF IscInv, BusThreadRight
  <1>7. RequestRight'
      BY <1>2, <1>4 DEF RequestRight, IscAwaits
  <1> QED
      BY <1>2, <1>6, <1>7 DEF IscInv

\* The request that the check sends.
LEMMA IscRequested ==
  ASSUME IscInv, ~ IscAwaits, NEW q \in {"rx", "tx_done"}, Told(q), iscHil.pc = "complete",
         iscOut' = Append(iscOut, q),
         iscCtx' = IF iscHil.then = "idle" THEN NoteWaiting(iscCtx) ELSE iscCtx,
         HilGoto(IF iscHil.then # "idle" THEN "answer" ELSE iscHil.then),
         UNCHANGED <<iscPend, iscFlags, iscBack, iscApp, iscBus, iscDone>>
  PROVE  IscInv'
  <1>1. IscTypes' /\ IscCtxKept
      BY DEF IscInv, IscTypes, IscCtxKept, NoteWaiting, HilGoto
  <1>2. \/ iscHil'.pc = "answer" /\ iscCtx'.waiting = FALSE
        \/ iscHil'.pc = "idle" /\ iscCtx'.waiting = TRUE
      BY DEF IscInv, IscTypes, IscAwaits, NoteWaiting, HilGoto
  <1>3. OnItsWay(q)'
      BY DEF IscInv, RequestRight, Nowhere, OnItsWay, Resting
  <1>4. Told(q)'
      BY <1>1, TransferKept
  <1>5. BusThreadRight'
      BY <1>2 DEF IscInv, BusThreadRight
  <1>6. RequestRight'
      BY <1>2, <1>3, <1>4 DEF RequestRight, IscAwaits, IscRequests
  <1> QED
      BY <1>1, <1>5, <1>6 DEF IscInv

\* The bus thread goes where it has nothing to tell.
LEMMA IscGoesOn ==
  ASSUME IscInv, IscTypes', Nowhere', Nothing', iscDone' = <<>>, ~ iscCtx'.waiting,
         iscBus' = NoTransfer, iscHil'.pc \in {"idle", "read", "write", "reading", "writing", "refused"},
         iscHil'.pc = "writing" => iscCtx'.buf = <<>>
  PROVE  IscInv'
  <1>1. RequestRight'
      BY DEF RequestRight, IscAwaits
  <1>2. BusThreadRight'
      BY DEF BusThreadRight
  <1> QED
      BY <1>1, <1>2 DEF IscInv

\* The check that runs once the previous request is answered.
LEMMA IscCompleteInv == ASSUME IscInv, IscComplete PROVE IscInv'
  <1> DEFINE code == IF iscCtx.tx_data_sent > 0
                     THEN IF iscCtx.tx_done THEN "tx_done" ELSE "none"
                     ELSE IF iscCtx.rx_data_i > 0 THEN "rx" ELSE "none"
  <1>1. /\ iscHil.pc = "complete"
        /\ iscOut' = IF code = "none" THEN iscOut ELSE Append(iscOut, code)
        /\ iscCtx' = IF code # "none"
                     THEN IF iscHil.then = "idle" THEN NoteWaiting(iscCtx) ELSE iscCtx
                     ELSE IF iscCtx.tx_data_sent > 0 THEN TxCleared(iscCtx) ELSE iscCtx
        /\ HilGoto(IF code # "none" /\ iscHil.then # "idle" THEN "answer" ELSE iscHil.then)
        /\ UNCHANGED <<iscPend, iscFlags, iscBack, iscApp, iscBus, iscDone>>
      BY DEF IscComplete
  <1>2. /\ ~ iscCtx.waiting /\ ~ IscAwaits /\ OverRight /\ iscBus = NoTransfer
        /\ Nowhere /\ IscTypes
      BY <1>1 DEF IscInv, BusThreadRight, RequestRight, IscAwaits
  <1>3. ASSUME Told("rx") PROVE code = "rx"
    <2>1. PICK x : Received(x)
        BY <1>3 DEF Told
    <2>2. Len(IscFit(x.data)) > 0
      <3>1. x.data \in Seq(IscAny) /\ x.data # <<>>
          BY <2>1 DEF Received
      <3> QED
          BY <3>1, IscAssumption DEF IscFit
    <2> QED
        BY <2>1, <2>2 DEF Received
  <1>4. ASSUME Told("tx_done") PROVE code = "tx_done"
    <2>1. PICK x : Sent(x) /\ iscCtx.tx_done
        BY <1>4 DEF Told
    <2>2. Len(x.data) > 0
      <3>1. x.data \in Seq(IscAny) /\ x.data # <<>>
          BY <2>1 DEF Sent
      <3> QED
          BY <3>1
    <2> QED
        BY <2>1, <2>2 DEF Sent
  <1>5. CASE Told("rx") \/ Told("tx_done")
    <2>1. PICK q \in {"rx", "tx_done"} : Told(q) /\ code = q
        BY <1>3, <1>4, <1>5
    <2> HIDE DEF code
    <2>2. /\ iscOut' = Append(iscOut, q)
          /\ iscCtx' = IF iscHil.then = "idle" THEN NoteWaiting(iscCtx) ELSE iscCtx
          /\ HilGoto(IF iscHil.then # "idle" THEN "answer" ELSE iscHil.then)
      <3>1. code # "none"
          BY <2>1
      <3> QED
          BY <1>1, <2>1, <3>1
    <2> QED
        BY <1>1, <1>2, <2>1, <2>2, IscRequested
  <1>6. CASE iscDone = <<>> /\ iscCtx.rx_data_i = 0 /\ (iscCtx.tx_data_sent = 0 \/ ~ iscCtx.tx_done)
    <2>1. code = "none"
        BY <1>2, <1>6 DEF IscTypes
    <2> HIDE DEF code
    <2>2. /\ iscOut' = iscOut /\ HilGoto(iscHil.then)
          /\ iscCtx' = IF iscCtx.tx_data_sent > 0 THEN TxCleared(iscCtx) ELSE iscCtx
        BY <1>1, <2>1
    <2>3. IscTypes' /\ Nothing' /\ ~ iscCtx'.waiting
      <3>1. CASE iscCtx.tx_data_sent > 0
          BY <1>1, <1>2, <1>6, <2>2, <3>1 DEF IscTypes, Nothing, TxCleared, HilGoto
      <3>2. CASE ~ (iscCtx.tx_data_sent > 0)
          BY <1>1, <1>2, <1>6, <2>2, <3>2 DEF IscTypes, Nothing, HilGoto
      <3> QED
          BY <3>1, <3>2
    <2>4. iscHil'.pc \in {"idle", "read", "write"} /\ Nowhere'
        BY <1>1, <1>2, <2>2 DEF IscTypes, HilGoto, Nowhere, Resting
    <2> QED
        BY <1>1, <1>2, <1>6, <2>3, <2>4, IscGoesOn
  <1> QED
      BY <1>2, <1>5, <1>6 DEF OverRight, Nothing

\* The bus thread has its answer.
LEMMA IscAnswerInv == ASSUME IscInv, IscAnswer \/ IscReadAck PROVE IscInv'
  <1>1. /\ iscHil.pc \in {"answer", "tx_start"} /\ iscBack > 0 /\ iscBack' = iscBack - 1
        /\ UNCHANGED <<iscOut, iscPend, iscFlags, iscApp, iscBus, iscDone>>
      BY DEF IscAnswer, IscReadAck
  <1>2. Answered /\ iscDone = <<>> /\ Nothing /\ ~ iscCtx.waiting /\ iscBus = NoTransfer
      BY <1>1 DEF IscInv, RequestRight, BusThreadRight, IscAwaits, OnItsWay, Resting
  <1>3. Nowhere'
      BY <1>1, <1>2 DEF Answered, Nowhere, Resting
  <1>4. IscTypes
      BY DEF IscInv
  <1>5. /\ IscTypes' /\ Nothing' /\ ~ iscCtx'.waiting
        /\ iscHil'.pc \in {"idle", "read", "write", "reading", "refused"}
    <2>1. CASE IscAnswer
        BY <1>1, <1>2, <1>4, <2>1 DEF IscAnswer, IscTypes, Nothing, HilGoto
    <2>2. CASE IscReadAck
        BY <1>1, <1>2, <1>4, <2>2 DEF IscReadAck, IscTypes, Nothing, HilGoto
    <2> QED
        BY <2>1, <2>2
  <1> QED
      BY <1>1, <1>2, <1>3, <1>5, IscGoesOn

\* A new transfer is acknowledged.
LEMMA IscAckInv == ASSUME IscInv, IscReadRequest \/ IscWriteAck PROVE IscInv'
  <1>1. /\ iscHil.pc \in {"read", "write"} /\ ~ iscCtx.waiting /\ ~ IscAwaits /\ Nowhere
        /\ iscDone = <<>> /\ Nothing /\ iscBus = NoTransfer /\ IscTypes
        /\ UNCHANGED <<iscPend, iscFlags, iscBack, iscApp, iscBus, iscDone>>
      BY
         DEF IscReadRequest, IscWriteAck, IscInv, BusThreadRight, RequestRight,
             IscAwaits
  <1>2. CASE IscReadRequest
    <2>1. /\ IscTypes' /\ Nothing' /\ ~ iscCtx'.waiting /\ iscHil'.pc = "tx_start"
          /\ iscOut' = Append(iscOut, "tx_start")
        BY <1>1, <1>2 DEF IscReadRequest, IscTypes, Nothing, HilGoto
    <2>2. OnItsWay("tx_start")'
        BY <1>1, <2>1 DEF Nowhere, OnItsWay, Resting
    <2>3. RequestRight'
        BY <2>1, <2>2 DEF RequestRight, IscAwaits, IscRequests
    <2>4. BusThreadRight'
        BY <1>1, <2>1 DEF BusThreadRight
    <2> QED
        BY <2>1, <2>3, <2>4 DEF IscInv
  <1>3. CASE IscWriteAck
    <2>1. /\ IscTypes' /\ Nothing' /\ ~ iscCtx'.waiting /\ iscCtx'.buf = <<>>
          /\ iscHil'.pc \in {"writing", "refused"} /\ iscOut' = iscOut
      <3>1. PICK there \in {"writing", "refused"} : iscHil' = [iscHil EXCEPT !.pc = there]
          BY <1>3 DEF IscWriteAck, HilGoto
      <3>2. iscCtx' = [iscCtx EXCEPT !.rx_data_i = 0, !.buf = <<>>] /\ iscOut' = iscOut
          BY <1>3 DEF IscWriteAck
      <3>3. /\ iscHil'.pc = there /\ iscHil'.then = iscHil.then
            /\ iscHil' = [pc |-> iscHil'.pc, then |-> iscHil'.then]
          BY <1>1, <3>1 DEF IscTypes
      <3>4. iscCtx' = [buf |-> <<>>, rx_data_i |-> 0, tx |-> iscCtx.tx,
                       tx_data_len |-> iscCtx.tx_data_len, tx_data_i |-> iscCtx.tx_data_i,
                       tx_data_sent |-> iscCtx.tx_data_sent, waiting |-> iscCtx.waiting,
                       tx_done |-> iscCtx.tx_done]
          BY <1>1, <3>2 DEF IscTypes
      <3> QED
        <4>1. <<>> \in Seq(IscAny) /\ 0 \in Nat
            OBVIOUS
        <4>2. IscTypes'
            BY <1>1, <3>3, <3>4, <4>1 DEF IscTypes
        <4>3. Nothing' /\ ~ iscCtx'.waiting /\ iscCtx'.buf = <<>>
            BY <1>1, <3>4 DEF Nothing
        <4> QED
            BY <3>1, <3>2, <3>3, <4>2, <4>3
    <2>2. Nowhere'
        BY <1>1, <2>1 DEF Nowhere, Resting
    <2> QED
        BY <1>1, <2>1, <2>2, IscGoesOn
  <1> QED
      BY <1>2, <1>3

\* A byte more than fits the buffer changes nothing.
LEMMA FitAppend ==
  ASSUME NEW d \in Seq(IscAny), NEW b \in IscAny
  PROVE  /\ Append(d, b) \in Seq(IscAny) /\ Append(d, b) # <<>>
         /\ Len(Append(d, b)) = Len(d) + 1
         /\ Len(IscFit(d)) \in Nat /\ IscFit(d) \in Seq(IscAny)
         /\ Len(IscFit(d)) < IscBufLen =>
               IscFit(Append(d, b)) = Append(IscFit(d), b)
               /\ Len(IscFit(Append(d, b))) = Len(IscFit(d)) + 1
         /\ ~ (Len(IscFit(d)) < IscBufLen) => IscFit(Append(d, b)) = IscFit(d)
  <1>1. /\ IscBufLen \in Nat /\ Len(d) \in Nat /\ Append(d, b) \in Seq(IscAny)
        /\ Len(Append(d, b)) = Len(d) + 1
      BY IscAssumption
  <1>2. CASE Len(d) < IscBufLen
      BY <1>1, <1>2 DEF IscFit
  <1>3. CASE ~ (Len(d) < IscBufLen)
    <2>1. IscFit(d) = SubSeq(d, 1, IscBufLen) /\ Len(IscFit(d)) = IscBufLen
        BY <1>1, <1>3 DEF IscFit
    <2>2. IscFit(Append(d, b)) = SubSeq(Append(d, b), 1, IscBufLen)
        BY <1>1, <1>3 DEF IscFit
    <2>3. SubSeq(Append(d, b), 1, IscBufLen) = SubSeq(d, 1, IscBufLen)
        BY <1>1, <1>3
    <2> QED
        BY <1>1, <2>1, <2>2, <2>3, <1>3
  <1> QED
      BY <1>2, <1>3

\* A byte is sent or received.
LEMMA IscDataInv ==
  ASSUME IscInv, i2c_master_req_data \/ \E b \in IscBytes : i2c_master_sent_data(b)
  PROVE  IscInv'
  <1>1. /\ iscHil.pc \in {"reading", "writing"} /\ ~ iscCtx.waiting /\ ~ IscAwaits /\ Nowhere
        /\ iscDone = <<>> /\ IscTypes
        /\ UNCHANGED <<iscOut, iscPend, iscFlags, iscBack, iscApp, iscDone>>
      BY
         DEF i2c_master_req_data, i2c_master_sent_data, IscInv, BusThreadRight,
             RequestRight, IscAwaits
  <1>2. Nowhere'
      BY <1>1 DEF Nowhere, Resting
  <1>3. CASE i2c_master_req_data
    <2>1. /\ iscHil.pc = "reading" /\ UNCHANGED iscHil
          /\ iscBus' = [dir |-> "tx", data |-> Append(iscBus.data, 0)]
          /\ \E n : iscCtx' = [iscCtx EXCEPT !.tx_data_i = n, !.tx_data_sent = @ + 1]
        BY <1>3 DEF i2c_master_req_data
    <2>2. PICK n : iscCtx' = [iscCtx EXCEPT !.tx_data_i = n, !.tx_data_sent = @ + 1]
        BY <2>1
    <2>3. iscBus.data \in Seq(IscAny) /\ 0 \in IscAny
        BY <1>1 DEF IscTypes, IscAny
    <2>4. iscCtx.rx_data_i = 0 /\ iscCtx.tx_data_sent = Len(iscBus.data)
        BY <2>1 DEF IscInv, BusThreadRight, NoTransfer, Nothing, Sent
    <2>5. IscTypes' /\ ~ iscCtx'.waiting /\ Sent(iscBus)'
      <3>1. /\ iscCtx.tx_data_sent + 1 \in Nat /\ Append(iscBus.data, 0) \in Seq(IscAny)
            /\ Append(iscBus.data, 0) # <<>> /\ Len(Append(iscBus.data, 0)) = iscCtx.tx_data_sent + 1
        <4>1. /\ Append(iscBus.data, 0) \in Seq(IscAny) /\ Append(iscBus.data, 0) # <<>>
              /\ Len(Append(iscBus.data, 0)) = Len(iscBus.data) + 1 /\ Len(iscBus.data) \in Nat
          <5>1. PICK z \in IscAny : z = 0
              BY <2>3
          <5>2. /\ Append(iscBus.data, z) \in Seq(IscAny) /\ Append(iscBus.data, z) # <<>>
                /\ Len(Append(iscBus.data, z)) = Len(iscBus.data) + 1 /\ Len(iscBus.data) \in Nat
              BY <2>3, FitAppend
          <5> QED
              BY <5>1, <5>2
        <4> QED
            BY <2>4, <4>1
      <3>2. iscCtx' = [buf |-> iscCtx.buf, rx_data_i |-> iscCtx.rx_data_i, tx |-> iscCtx.tx,
                       tx_data_len |-> iscCtx.tx_data_len, tx_data_i |-> n,
                       tx_data_sent |-> iscCtx.tx_data_sent + 1, waiting |-> iscCtx.waiting,
                       tx_done |-> iscCtx.tx_done]
          BY <1>1, <2>2 DEF IscTypes
      <3> QED
          BY <1>1, <2>1, <2>4, <3>1, <3>2 DEF IscTypes, Sent
    <2>6. BusThreadRight'
        BY <1>1, <2>1, <2>5 DEF BusThreadRight
    <2>7. RequestRight'
        BY <1>2, <2>1, <2>5 DEF RequestRight, IscAwaits
    <2> QED
        BY <2>5, <2>6, <2>7 DEF IscInv
  <1>4. ASSUME NEW b \in IscBytes, i2c_master_sent_data(b) PROVE IscInv'
    <2>1. /\ iscHil.pc = "writing" /\ iscBus' = [dir |-> "rx", data |-> Append(iscBus.data, b)]
          /\ iscCtx' = IF iscCtx.rx_data_i < IscBufLen
                       THEN [iscCtx EXCEPT !.buf = Append(@, b), !.rx_data_i = @ + 1]
                       ELSE iscCtx
          /\ \E there \in {"writing", "refused"} : iscHil' = [iscHil EXCEPT !.pc = there]
        BY <1>4 DEF i2c_master_sent_data, HilGoto
    <2>2. /\ iscBus.data \in Seq(IscAny) /\ b \in IscAny
          /\ iscHil' = [pc |-> iscHil'.pc, then |-> iscHil'.then]
          /\ iscHil'.then \in {"idle", "read", "write"} /\ iscHil'.pc \in {"writing", "refused"}
        BY <1>1, <2>1 DEF IscTypes, IscAny
    <2>3. /\ iscCtx.tx_data_sent = 0 /\ iscCtx.buf = IscFit(iscBus.data)
          /\ iscCtx.rx_data_i = Len(IscFit(iscBus.data))
        BY <2>1, IscAssumption
           DEF IscInv, BusThreadRight, NoTransfer, Nothing, Received, IscFit
    <2>4. IscTypes' /\ ~ iscCtx'.waiting /\ Received(iscBus)'
      <3>1. CASE iscCtx.rx_data_i < IscBufLen
        <4>1. /\ iscCtx' = [iscCtx EXCEPT !.buf = Append(iscCtx.buf, b), !.rx_data_i = iscCtx.rx_data_i + 1]
              /\ Append(iscCtx.buf, b) = IscFit(Append(iscBus.data, b))
              /\ Append(iscCtx.buf, b) \in Seq(IscAny)
              /\ iscCtx.rx_data_i + 1 = Len(IscFit(Append(iscBus.data, b)))
            BY <2>1, <2>2, <2>3, <3>1, FitAppend
        <4>2. iscCtx' = [buf |-> Append(iscCtx.buf, b), rx_data_i |-> iscCtx.rx_data_i + 1,
                         tx |-> iscCtx.tx, tx_data_len |-> iscCtx.tx_data_len,
                         tx_data_i |-> iscCtx.tx_data_i, tx_data_sent |-> iscCtx.tx_data_sent,
                         waiting |-> iscCtx.waiting, tx_done |-> iscCtx.tx_done]
            BY <1>1, <4>1 DEF IscTypes
        <4>3. iscCtx.rx_data_i + 1 \in Nat
            BY <1>1 DEF IscTypes
        <4>4. /\ Append(iscBus.data, b) \in Seq(IscAny) /\ Append(iscBus.data, b) # <<>>
            BY <2>2, FitAppend
        <4> QED
            BY <1>1, <2>1, <2>2, <2>3, <4>1, <4>2, <4>3, <4>4 DEF IscTypes, Received
      <3>2. CASE ~ (iscCtx.rx_data_i < IscBufLen)
          BY <1>1, <2>1, <2>2, <2>3, <3>2, FitAppend DEF IscTypes, Received
      <3> QED
          BY <3>1, <3>2
    <2>5. BusThreadRight'
        BY <1>1, <2>2, <2>4 DEF BusThreadRight
    <2>6. RequestRight'
        BY <1>2, <2>2, <2>4 DEF RequestRight, IscAwaits
    <2> QED
        BY <2>4, <2>5, <2>6 DEF IscInv
  <1> QED
      BY <1>3, <1>4

\* The two threads pass one request to and fro, and the application has the buffer
\* and the indices of the transfer it is told of.
THEOREM I2cSlaveTellsOnce == IscSpec => []I2cSlaveOneRequest
  <1>1. IscInit => IscInv
    <2> SUFFICES ASSUME IscInit PROVE IscInv
        OBVIOUS
    <2>1. /\ IscTypes /\ Nothing /\ iscDone = <<>> /\ ~ iscCtx.waiting /\ iscHil.pc = "idle"
          /\ iscBus = NoTransfer /\ Nowhere
        BY DEF IscInit, IscTypes, Nothing, NoTransfer, Nowhere, Resting
    <2> QED
        BY <2>1 DEF IscInv, BusThreadRight, RequestRight, IscAwaits
  <1>2. IscInv /\ [IscNext]_iscVars => IscInv'
    <2>1. ASSUME IscInv, UNCHANGED iscVars PROVE IscInv'
      <3>1. IscCtxKept
          BY <2>1 DEF iscVars, IscCtxKept
      <3>2. IscTypes'
          BY <2>1 DEF iscVars, IscInv, IscTypes
      <3>3. BusThreadRight'
          BY <2>1, <3>1, TransferKept
             DEF iscVars, IscInv, BusThreadRight, Received, Sent
      <3>4. RequestRight'
          BY <2>1, <3>1, TransferKept
             DEF iscVars, IscInv, RequestRight, IscAwaits, Nowhere, Answered, OnItsWay, Resting
      <3> QED
          BY <3>2, <3>3, <3>4 DEF IscInv
    <2> QED
        BY <2>1, IscEventInv, IscDataInv, IscPreviousInv, IscCompleteInv, IscAnswerInv,
           IscAckInv, 
           IscAppInv, IscMoveInv
           DEF IscNext, IscBusEvent, IscHilCode, IscAppCode
  <1>3. IscInv => I2cSlaveOneRequest
    <2> SUFFICES ASSUME IscInv PROVE I2cSlaveOneRequest
        OBVIOUS
    <2> DEFINE awaited == (IF iscCtx.waiting THEN 1 ELSE 0)
                            + (IF iscHil.pc \in {"answer", "tx_start"} THEN 1 ELSE 0)
               requests == Len(iscOut) + Len(iscPend) + iscBack
                             + (IF iscFlags # {} THEN 1 ELSE 0)
                             + (IF iscApp.pc # "wait" THEN 1 ELSE 0)
    <2>1. CASE ~ IscAwaits
      <3>1. Nowhere
          BY <2>1 DEF IscInv, RequestRight
      <3>2. requests = 0 /\ iscApp.pc = "wait"
          BY <3>1 DEF Nowhere, Resting
      <3>3. awaited = 0
          BY <2>1 DEF IscAwaits
      <3> QED
          BY <3>2, <3>3 DEF I2cSlaveOneRequest
    <2>2. CASE IscAwaits
      <3>1. awaited = 1
          BY <2>2 DEF IscAwaits, IscInv, BusThreadRight
      <3>2. CASE Answered
        <4>1. requests = 1 /\ iscApp.pc = "wait"
            BY <3>2 DEF Answered, Resting
        <4> QED
            BY <3>1, <4>1 DEF I2cSlaveOneRequest
      <3>3. ASSUME NEW q \in IscRequests, OnItsWay(q)
            PROVE  requests = 1 /\ (iscApp.pc = "wait" \/ iscApp.pc = q)
        <4>1. q # "wait" /\ Len(<<q>>) = 1 /\ Len(<<>>) = 0 /\ {q} # {}
            BY DEF IscRequests
        <4>2. CASE Resting(<<q>>, <<>>, {}, "wait", 0)
            BY <4>1, <4>2 DEF Resting
        <4>3. CASE Resting(<<>>, <<q>>, {}, "wait", 0)
            BY <4>1, <4>3 DEF Resting
        <4>4. CASE Resting(<<>>, <<>>, {q}, "wait", 0)
            BY <4>1, <4>4 DEF Resting
        <4>5. CASE Resting(<<>>, <<>>, {}, q, 0)
            BY <4>1, <4>5 DEF Resting
        <4> QED
            BY <3>3, <4>2, <4>3, <4>4, <4>5 DEF OnItsWay
      <3>4. CASE ~ Answered
        <4>1. PICK q \in IscRequests :
                 OnItsWay(q) /\ IF iscHil.pc = "tx_start" THEN q = "tx_start" ELSE Told(q)
            BY <2>2, <3>4 DEF IscInv, RequestRight
        <4>2. requests = 1 /\ (iscApp.pc = "wait" \/ iscApp.pc = q)
            BY <3>3, <4>1
        <4>3. iscApp.pc = "rx" => Told("rx")
            BY <4>1, <4>2
        <4>4. iscApp.pc = "tx_done" => Told("tx_done")
            BY <4>1, <4>2
        <4>5. iscApp.pc = "rx" =>
                 /\ iscDone # <<>> /\ Head(iscDone).dir = "rx"
                 /\ SubSeq(iscCtx.buf, 1, iscCtx.rx_data_i) = IscFit(Head(iscDone).data)
          <5> SUFFICES ASSUME iscApp.pc = "rx"
                       PROVE  /\ iscDone # <<>> /\ Head(iscDone).dir = "rx"
                              /\ SubSeq(iscCtx.buf, 1, iscCtx.rx_data_i) = IscFit(Head(iscDone).data)
              OBVIOUS
          <5>1. PICK x : iscDone = <<x>> /\ Received(x)
              BY <4>3 DEF Told
          <5>2. iscCtx.buf \in Seq(IscAny) /\ iscCtx.rx_data_i = Len(iscCtx.buf)
              BY <5>1 DEF Received, IscInv, IscTypes
          <5>3. SubSeq(iscCtx.buf, 1, iscCtx.rx_data_i) = iscCtx.buf
              BY <5>2
          <5> QED
              BY <5>1, <5>3 DEF Received
        <4>6. iscApp.pc = "tx_done" =>
                 /\ iscDone # <<>> /\ Head(iscDone).dir = "tx"
                 /\ iscCtx.tx_data_sent = Len(Head(iscDone).data)
            BY <4>4 DEF Told, Sent
        <4> QED
            BY <3>1, <4>2, <4>5, <4>6 DEF I2cSlaveOneRequest, IscFit
      <3> QED
          BY <3>2, <3>4
    <2> QED
        BY <2>1, <2>2
  <1> QED
      BY <1>1, <1>2, <1>3, PTL DEF IscSpec

(***************************************************************************)
(* SPI slave.                                                              *)
(***************************************************************************)

\* The buffers a transfer may use, and what is reported of one.
SpsBufNames == SpsBufs \cup {SpsDefault}
SpsItems == [in : SpsBufNames, out : SpsBufNames, n : Nat]

\* The type invariant.
SpsTypes ==
  /\ spsCtx \in [in_buf : SpsBufs, out_buf : SpsBufs, bytes : Nat, default_bytes : Nat,
                 user_data_ready : BOOLEAN, drop : BOOLEAN]
  /\ spsXfer \in [on : BOOLEAN, in : SpsBufNames, out : SpsBufNames]
  /\ spsChan \in Seq({"user", "default"})
  /\ spsQueue \in Seq(SpsItems)
  /\ spsNotified \in BOOLEAN
  /\ spsApp \in {"idle", "callback", "prepare", "prepare_out"}

\* The user buffers are prepared together, but for the moment between the two.
Together == spsApp # "prepare_out" => spsCtx.out_buf = spsCtx.in_buf

\* Where the user buffers are.
UserChan(i) == i \in 1..Len(spsChan) /\ spsChan[i] = "user"
UserQueue(i) == i \in 1..Len(spsQueue) /\ spsQueue[i].in # SpsDefault
OnBus == spsXfer.on /\ spsXfer.in # SpsDefault
NotSignalled == \A i \in 1..Len(spsChan) : ~ UserChan(i)
NotQueued == \A i \in 1..Len(spsQueue) : ~ UserQueue(i)
Preparing == spsApp \in {"prepare", "prepare_out"}

\* They have yet to be used, are used by a transfer, or nobody is told of them any more.
WithBus ==
  /\ spsDone = <<>> /\ NotSignalled /\ NotQueued
  /\ ~ (OnBus /\ spsCtx.user_data_ready)
  /\ Preparing => ~ OnBus /\ ~ spsCtx.user_data_ready
  /\ OnBus => spsXfer.in = spsCtx.in_buf /\ spsXfer.out = spsCtx.out_buf

\* The routine has yet to read the fields.
Signalled ==
  /\ ~ OnBus /\ ~ spsCtx.user_data_ready /\ ~ Preparing /\ NotQueued
  /\ spsDone = <<SpsItem(spsCtx.in_buf, spsCtx.out_buf, spsCtx.bytes)>>
  /\ \E i \in 1..Len(spsChan) : UserChan(i)
  /\ \A i, j \in 1..Len(spsChan) : UserChan(i) /\ UserChan(j) => i = j

\* The application has yet to take the report.
Queued ==
  /\ ~ OnBus /\ ~ spsCtx.user_data_ready /\ ~ Preparing /\ NotSignalled
  /\ spsDone = <<spsDone[1]>> /\ spsDone[1] \in SpsItems /\ spsDone[1].in = spsDone[1].out
  /\ \E i \in 1..Len(spsQueue) : UserQueue(i)
  /\ \A i, j \in 1..Len(spsQueue) : UserQueue(i) /\ UserQueue(j) => i = j
  /\ \A i \in 1..Len(spsQueue) : UserQueue(i) => spsDone[1] = spsQueue[i]

\* With the default transfers dropped a callback finds the report it is about.
DropRight ==
  spsCtx.drop =>
    /\ \A i \in 1..Len(spsChan) : UserChan(i)
    /\ \A i \in 1..Len(spsQueue) : UserQueue(i)
    /\ spsNotified => spsQueue # <<>> /\ spsApp = "idle"
    /\ spsApp = "callback" => spsQueue # <<>>

\* A transfer uses the default buffers in both directions or in neither.
XferRight == spsXfer.on => (spsXfer.in = SpsDefault <=> spsXfer.out = SpsDefault)

\* The inductive invariant.
SpsInv == SpsTypes /\ Together /\ XferRight /\ (WithBus \/ Signalled \/ Queued) /\ DropRight

\* The ends of a queue.
LEMMA SpsEnds ==
  ASSUME NEW S, NEW s \in Seq(S)
  PROVE  /\ Len(s) \in Nat
         /\ \A i \in 1..Len(s) : s[i] \in S
         /\ \A x \in S : /\ Append(s, x) \in Seq(S) /\ Len(Append(s, x)) = Len(s) + 1
                         /\ Append(s, x)[Len(s) + 1] = x
                         /\ \A i \in 1..Len(s) : Append(s, x)[i] = s[i]
         /\ s # <<>> => /\ Tail(s) \in Seq(S) /\ Len(Tail(s)) = Len(s) - 1 /\ Len(s) >= 1
                        /\ Head(s) = s[1] /\ Head(s) \in S
                        /\ \A i \in 1..Len(s) - 1 : Tail(s)[i] = s[i + 1]
  OBVIOUS

\* A transfer starts, with the buffers the context names at that moment.
LEMMA SpsStartedInv == ASSUME SpsInv, slave_transaction_started PROVE SpsInv'
  <1> USE SpsAssumption
  <1>1. /\ ~ spsXfer.on /\ UNCHANGED <<spsChan, spsQueue, spsNotified, spsApp, spsDone>>
        /\ spsCtx' = [spsCtx EXCEPT !.user_data_ready = FALSE]
        /\ \/ /\ spsCtx.user_data_ready
              /\ spsXfer' = [on |-> TRUE, in |-> spsCtx.in_buf, out |-> spsCtx.out_buf]
           \/ /\ ~ spsCtx.user_data_ready
              /\ spsXfer' = [on |-> TRUE, in |-> SpsDefault, out |-> SpsDefault]
      BY DEF slave_transaction_started
  <1>2. SpsTypes /\ Together /\ (WithBus \/ Signalled \/ Queued) /\ DropRight
      BY DEF SpsInv
  <1>3. /\ spsCtx'.in_buf = spsCtx.in_buf /\ spsCtx'.out_buf = spsCtx.out_buf
        /\ spsCtx'.bytes = spsCtx.bytes /\ spsCtx'.drop = spsCtx.drop /\ ~ spsCtx'.user_data_ready
        /\ spsCtx.in_buf \in SpsBufs /\ spsCtx.out_buf \in SpsBufs
      BY <1>1, <1>2 DEF SpsTypes
  <1>4. SpsTypes' /\ Together' /\ XferRight'
    <2>1. spsCtx' \in [in_buf : SpsBufs, out_buf : SpsBufs, bytes : Nat, default_bytes : Nat,
                       user_data_ready : BOOLEAN, drop : BOOLEAN]
        BY <1>1, <1>2 DEF SpsTypes
    <2>2. /\ spsXfer' \in [on : BOOLEAN, in : SpsBufNames, out : SpsBufNames]
          /\ spsXfer'.in = SpsDefault <=> spsXfer'.out = SpsDefault
      <3>1. ASSUME NEW a \in SpsBufNames, NEW b \in SpsBufNames, a = SpsDefault <=> b = SpsDefault,
                   spsXfer' = [on |-> TRUE, in |-> a, out |-> b]
            PROVE  /\ spsXfer' \in [on : BOOLEAN, in : SpsBufNames, out : SpsBufNames]
                   /\ spsXfer'.in = SpsDefault <=> spsXfer'.out = SpsDefault
          BY <3>1
      <3>2. /\ spsCtx.in_buf \in SpsBufNames /\ spsCtx.out_buf \in SpsBufNames
            /\ SpsDefault \in SpsBufNames
            /\ spsCtx.in_buf # SpsDefault /\ spsCtx.out_buf # SpsDefault
          BY <1>3 DEF SpsBufNames
      <3> QED
          BY <1>1, <3>1, <3>2
    <2> QED
        BY <1>1, <1>2, <1>3, <2>1, <2>2 DEF SpsTypes, Together, XferRight
  <1>5. DropRight'
      BY <1>1, <1>2, <1>3 DEF DropRight, UserChan, UserQueue
  <1>6. CASE WithBus
    <2>1. WithBus'
        BY <1>1, <1>3, <1>6
           DEF WithBus, NotSignalled, NotQueued, UserChan, UserQueue, OnBus, Preparing
    <2> QED
        BY <1>4, <1>5, <2>1 DEF SpsInv
  <1>7. CASE Signalled
    <2>1. Signalled'
        BY <1>1, <1>3, <1>7
           DEF Signalled, SpsItem, NotQueued, UserChan, UserQueue, OnBus, Preparing
    <2> QED
        BY <1>4, <1>5, <2>1 DEF SpsInv
  <1>8. CASE Queued
    <2>1. Queued'
        BY <1>1, <1>3, <1>8
           DEF Queued, NotSignalled, UserChan, UserQueue, OnBus, Preparing
    <2> QED
        BY <1>4, <1>5, <2>1 DEF SpsInv
  <1> QED
      BY <1>2, <1>6, <1>7, <1>8

\* A transfer ends: its notification is posted, and the fields stay as they are.
LEMMA SpsEndedInv ==
  ASSUME SpsInv, NEW n \in 0..SpsLen, slave_transaction_ended(n)
  PROVE  SpsInv'
  <1> USE SpsAssumption
  <1>1. /\ spsXfer.on /\ UNCHANGED <<spsQueue, spsNotified, spsApp>>
        /\ spsXfer' = [spsXfer EXCEPT !.on = FALSE]
      BY DEF slave_transaction_ended
  <1>2. SpsTypes /\ Together /\ XferRight /\ (WithBus \/ Signalled \/ Queued) /\ DropRight
      BY DEF SpsInv
  <1>3. /\ ~ spsXfer'.on /\ spsXfer' \in [on : BOOLEAN, in : SpsBufNames, out : SpsBufNames]
        /\ ~ OnBus' /\ XferRight'
      BY <1>1, <1>2 DEF SpsTypes, OnBus, XferRight
  <1>4. CASE n = 0
    <2>1. UNCHANGED <<spsCtx, spsChan, spsDone>>
        BY <1>4 DEF slave_transaction_ended
    <2>2. SpsTypes' /\ Together' /\ DropRight'
        BY <1>1, <1>2, <1>3, <2>1 DEF SpsTypes, Together, DropRight, UserChan, UserQueue
    <2>3. (WithBus \/ Signalled \/ Queued)'
        BY <1>1, <1>2, <1>3, <2>1
           DEF WithBus, Signalled, Queued, NotSignalled, NotQueued, UserChan, UserQueue, Preparing, OnBus
    <2> QED
        BY <1>3, <2>2, <2>3 DEF SpsInv
  <1>5. CASE n > 0 /\ spsXfer.in = SpsDefault
    <2>1. spsXfer.out = SpsDefault
        BY <1>1, <1>2, <1>5 DEF XferRight
    <2>2. /\ spsCtx' = [spsCtx EXCEPT !.default_bytes = n] /\ UNCHANGED spsDone
          /\ spsChan' = IF spsCtx.drop THEN spsChan ELSE Append(spsChan, "default")
        BY <1>5, <2>1 DEF slave_transaction_ended
    <2>3. /\ spsCtx'.in_buf = spsCtx.in_buf /\ spsCtx'.out_buf = spsCtx.out_buf
          /\ spsCtx'.bytes = spsCtx.bytes /\ spsCtx'.drop = spsCtx.drop
          /\ spsCtx'.user_data_ready = spsCtx.user_data_ready
          /\ spsCtx' \in [in_buf : SpsBufs, out_buf : SpsBufs, bytes : Nat, default_bytes : Nat,
                          user_data_ready : BOOLEAN, drop : BOOLEAN]
        BY <1>2, <2>2, n \in Nat DEF SpsTypes
    <2>4. /\ spsChan' \in Seq({"user", "default"}) /\ Len(spsChan) \in Nat
          /\ \A i : UserChan(i)' <=> UserChan(i)
      <3>1. spsChan \in Seq({"user", "default"})
          BY <1>2 DEF SpsTypes
      <3>2. CASE spsCtx.drop
          BY <2>2, <3>1, <3>2 DEF UserChan
      <3>3. CASE ~ spsCtx.drop
        <4>1. spsChan' = Append(spsChan, "default")
            BY <2>2, <3>3
        <4>2. /\ spsChan' \in Seq({"user", "default"}) /\ Len(spsChan') = Len(spsChan) + 1
              /\ spsChan'[Len(spsChan) + 1] = "default" /\ Len(spsChan) \in Nat
              /\ \A i \in 1..Len(spsChan) : spsChan'[i] = spsChan[i]
            BY <3>1, <4>1, SpsEnds
        <4> QED
            BY <4>2 DEF UserChan
      <3> QED
          BY <3>2, <3>3
    <2>5. NotSignalled' <=> NotSignalled
        BY <2>4 DEF NotSignalled, UserChan
    <2>6. SpsTypes' /\ Together'
        BY <1>1, <1>2, <1>3, <2>3, <2>4 DEF SpsTypes, Together
    <2>7. DropRight'
        BY <1>1, <1>2, <2>2, <2>3 DEF DropRight, UserChan, UserQueue
    <2>8. CASE WithBus
      <3>1. WithBus'
          BY <1>1, <1>3, <2>2, <2>3, <2>5, <2>8
             DEF WithBus, NotQueued, UserQueue, Preparing
      <3> QED
          BY <1>3, <2>6, <2>7, <3>1 DEF SpsInv
    <2>9. CASE Signalled
      <3>1. /\ \E i : UserChan(i)
            /\ \A i, j : UserChan(i) /\ UserChan(j) => i = j
          BY <2>9 DEF Signalled, UserChan
      <3>2. /\ \E i \in 1..Len(spsChan') : UserChan(i)'
            /\ \A i, j \in 1..Len(spsChan') : UserChan(i)' /\ UserChan(j)' => i = j
          BY <2>4, <3>1 DEF UserChan
      <3>3. Signalled'
          BY <1>1, <1>3, <2>2, <2>3, <2>9, <3>2
             DEF Signalled, SpsItem, NotQueued, UserQueue, Preparing
      <3> QED
          BY <1>3, <2>6, <2>7, <3>3 DEF SpsInv
    <2>10. CASE Queued
      <3>1. Queued'
          BY <1>1, <1>3, <2>2, <2>3, <2>5, <2>10 DEF Queued, UserQueue, Preparing
      <3> QED
          BY <1>3, <2>6, <2>7, <3>1 DEF SpsInv
    <2> QED
        BY <1>2, <2>8, <2>9, <2>10
  <1>6. CASE n > 0 /\ spsXfer.in # SpsDefault
    <2>1. WithBus /\ OnBus
        BY <1>1, <1>2, <1>6 DEF OnBus, Signalled, Queued
    <2>2. /\ ~ spsCtx.user_data_ready /\ ~ Preparing /\ NotSignalled /\ NotQueued /\ spsDone = <<>>
          /\ spsXfer.in = spsCtx.in_buf /\ spsXfer.out = spsCtx.out_buf
        BY <2>1 DEF WithBus
    <2>3. /\ spsCtx' = [spsCtx EXCEPT !.bytes = n] /\ spsChan' = Append(spsChan, "user")
          /\ spsDone' = Append(spsDone, SpsItem(spsXfer.in, spsXfer.out, n))
        BY <1>6 DEF slave_transaction_ended
    <2>4. /\ spsCtx'.in_buf = spsCtx.in_buf /\ spsCtx'.out_buf = spsCtx.out_buf
          /\ spsCtx'.bytes = n /\ spsCtx'.drop = spsCtx.drop /\ ~ spsCtx'.user_data_ready
          /\ spsCtx' \in [in_buf : SpsBufs, out_buf : SpsBufs, bytes : Nat, default_bytes : Nat,
                          user_data_ready : BOOLEAN, drop : BOOLEAN]
        BY <1>2, <2>2, <2>3, n \in Nat DEF SpsTypes
    <2>5. spsDone' = <<SpsItem(spsCtx'.in_buf, spsCtx'.out_buf, spsCtx'.bytes)>>
      <3> DEFINE x == SpsItem(spsXfer.in, spsXfer.out, n)
      <3>1. Append(<<>>, x) = <<x>>
          OBVIOUS
      <3> QED
          BY <2>2, <2>3, <2>4, <3>1
    <2>6. /\ spsChan' \in Seq({"user", "default"}) /\ Len(spsChan') = Len(spsChan) + 1
          /\ spsChan'[Len(spsChan) + 1] = "user" /\ Len(spsChan) \in Nat
          /\ \A i \in 1..Len(spsChan) : spsChan'[i] = spsChan[i]
        BY <1>2, <2>3, SpsEnds DEF SpsTypes
    <2>7. \A i : UserChan(i)' <=> i = Len(spsChan) + 1
        BY <2>2, <2>6 DEF NotSignalled, UserChan
    <2>8. SpsTypes' /\ Together'
        BY <1>1, <1>2, <1>3, <2>4, <2>6 DEF SpsTypes, Together
    <2>9. Signalled'
        BY <1>1, <1>3, <2>2, <2>4, <2>5, <2>6, <2>7
           DEF Signalled, NotQueued, UserQueue, Preparing
    <2>10. DropRight'
      <3>1. spsCtx.drop => \A i \in 1..Len(spsChan') : UserChan(i)'
          BY <1>2, <2>2, <2>6, <2>7 DEF DropRight, NotSignalled, UserChan
      <3> QED
          BY <1>1, <1>2, <2>4, <3>1 DEF DropRight, UserQueue
    <2> QED
        BY <1>3, <2>8, <2>9, <2>10 DEF SpsInv
  <1> QED
      BY <1>4, <1>5, <1>6, n \in Nat

\* The routine reads the fields and queues the report, or drops it.
LEMMA SpsIsrInv == ASSUME SpsInv, rtos_spi_slave_isr PROVE SpsInv'
  <1> USE SpsAssumption
  <1> DEFINE user == Head(spsChan) = "user"
             item == IF user THEN SpsItem(spsCtx.in_buf, spsCtx.out_buf, spsCtx.bytes)
                             ELSE SpsItem(SpsDefault, SpsDefault, spsCtx.default_bytes)
             room == Len(spsQueue) < SpsQueueSize
  <1>1. /\ spsChan # <<>> /\ spsChan' = Tail(spsChan) /\ UNCHANGED <<spsCtx, spsXfer, spsApp>>
        /\ room => spsQueue' = Append(spsQueue, item) /\ spsNotified' = TRUE /\ UNCHANGED spsDone
        /\ ~ room => /\ spsDone' = IF user THEN Tail(spsDone) ELSE spsDone
                     /\ UNCHANGED <<spsQueue, spsNotified>>
      BY DEF rtos_spi_slave_isr
  <1>2. SpsTypes /\ Together /\ XferRight /\ (WithBus \/ Signalled \/ Queued) /\ DropRight
      BY DEF SpsInv
  <1>3. /\ item \in SpsItems /\ (item.in # SpsDefault <=> user)
        /\ user => item = SpsItem(spsCtx.in_buf, spsCtx.out_buf, spsCtx.bytes)
      BY <1>2 DEF SpsTypes, SpsItem, SpsItems, SpsBufNames
  <1> HIDE DEF item, room
  <1>4. /\ spsChan' \in Seq({"user", "default"}) /\ Len(spsChan) \in Nat
        /\ Len(spsChan') = Len(spsChan) - 1 /\ Len(spsChan) >= 1
        /\ Head(spsChan) = spsChan[1] /\ spsChan[1] \in {"user", "default"}
        /\ \A i \in 1..Len(spsChan) - 1 : spsChan'[i] = spsChan[i + 1]
      BY <1>1, <1>2, SpsEnds DEF SpsTypes
  <1>5. /\ \A i : UserChan(i)' <=> i \in 1..Len(spsChan) - 1 /\ UserChan(i + 1)
        /\ user <=> UserChan(1)
      BY <1>4 DEF UserChan
  <1>6. /\ Len(spsQueue) \in Nat
        /\ room => /\ spsQueue' \in Seq(SpsItems) /\ Len(spsQueue') = Len(spsQueue) + 1
                   /\ spsQueue'[Len(spsQueue) + 1] = item
                   /\ \A i \in 1..Len(spsQueue) : spsQueue'[i] = spsQueue[i]
    <2>1. spsQueue \in Seq(SpsItems)
        BY <1>2 DEF SpsTypes
    <2>2. /\ Append(spsQueue, item) \in Seq(SpsItems)
          /\ Len(Append(spsQueue, item)) = Len(spsQueue) + 1 /\ Len(spsQueue) \in Nat
          /\ Append(spsQueue, item)[Len(spsQueue) + 1] = item
          /\ \A i \in 1..Len(spsQueue) : Append(spsQueue, item)[i] = spsQueue[i]
        BY <1>3, <2>1, SpsEnds
    <2> QED
        BY <1>1, <2>2
  <1>7. room => \A i : UserQueue(i)' <=> UserQueue(i) \/ (i = Len(spsQueue) + 1 /\ user)
      BY <1>3, <1>6 DEF UserQueue
  <1>8. ~ room => \A i : UserQueue(i)' <=> UserQueue(i)
      BY <1>1 DEF UserQueue
  <1>9. SpsTypes' /\ Together' /\ XferRight'
      BY <1>1, <1>2, <1>4, <1>6 DEF SpsTypes, Together, XferRight
  <1> HIDE DEF user
  <1>10. CASE user
    <2>1. Signalled /\ \A i : UserChan(i) => i = 1
      <3>1. UserChan(1) /\ 1 \in 1..Len(spsChan)
          BY <1>4, <1>5, <1>10
      <3>2. Signalled
          BY <1>2, <3>1 DEF WithBus, Queued, NotSignalled
      <3> QED
          BY <3>1, <3>2 DEF Signalled, UserChan
    <2>2. /\ ~ OnBus /\ ~ spsCtx.user_data_ready /\ ~ Preparing /\ NotQueued
          /\ spsDone = <<SpsItem(spsCtx.in_buf, spsCtx.out_buf, spsCtx.bytes)>>
        BY <2>1 DEF Signalled
    <2>3. NotSignalled' /\ \A i \in Nat : ~ UserChan(i)'
        BY <1>4, <1>5, <2>1 DEF NotSignalled
    <2>4. /\ ~ OnBus' /\ ~ spsCtx'.user_data_ready /\ ~ Preparing'
        BY <1>1, <2>2 DEF OnBus, Preparing
    <2>5. spsCtx.drop => Len(spsChan) = 1
        BY <1>2, <1>4, <2>1 DEF DropRight
    <2>6. CASE room
      <3>1. \A i : UserQueue(i)' <=> i = Len(spsQueue) + 1
          BY <1>7, <1>10, <2>2, <2>6 DEF NotQueued, UserQueue
      <3>2. /\ spsDone' = <<spsDone'[1]>> /\ spsDone'[1] = item /\ item \in SpsItems
            /\ item.in = item.out
        <4>1. spsDone' = <<item>>
            BY <1>1, <1>3, <1>10, <2>2, <2>6
        <4>2. item.in = item.out
            BY <1>2, <1>3, <1>10, <2>2 DEF Together, Preparing, SpsItem
        <4> QED
            BY <1>3, <4>1, <4>2
      <3>3. Queued'
          BY <1>6, <2>3, <2>4, <2>6, <3>1, <3>2 DEF Queued
      <3>4. DropRight'
        <4>1. ASSUME spsCtx.drop PROVE /\ \A i \in 1..Len(spsQueue') : UserQueue(i)'
                                       /\ spsQueue' # <<>> /\ spsApp' = "idle"
          <5>1. Len(spsQueue) = 0 /\ spsQueue = <<>>
            <6>1. \A i \in 1..Len(spsQueue) : UserQueue(i) /\ ~ UserQueue(i)
                BY <1>2, <2>2, <4>1 DEF DropRight, NotQueued
            <6> QED
                BY <1>2, <1>6, <6>1 DEF SpsTypes
          <5>2. spsApp = "idle"
              BY <1>2, <2>2, <4>1, <5>1 DEF DropRight, Preparing, SpsTypes
          <5>3. Len(spsQueue') = 1
              BY <1>6, <2>6, <5>1
          <5> QED
              BY <1>1, <3>1, <5>1, <5>2, <5>3
        <4> QED
            BY <1>1, <1>4, <1>9, <2>5, <4>1 DEF DropRight, SpsTypes
      <3> QED
          BY <1>9, <3>3, <3>4 DEF SpsInv
    <2>7. CASE ~ room
      <3>1. spsDone' = <<>>
          BY <1>1, <1>10, <2>2, <2>7
      <3>2. NotQueued'
          BY <1>1, <1>8, <2>2, <2>7 DEF NotQueued
      <3>3. WithBus'
          BY <2>3, <2>4, <3>1, <3>2 DEF WithBus
      <3>4. DropRight'
          BY <1>1, <1>2, <1>4, <1>8, <2>5, <2>7 DEF DropRight
      <3> QED
          BY <1>9, <3>3, <3>4 DEF SpsInv
    <2> QED
        BY <2>6, <2>7
  <1>11. CASE ~ user
    <2>1. /\ ~ spsCtx.drop /\ ~ UserChan(1)
        BY <1>2, <1>4, <1>5, <1>11 DEF DropRight
    <2>2. UNCHANGED spsDone /\ DropRight' /\ (OnBus' <=> OnBus) /\ (Preparing' <=> Preparing)
        BY <1>1, <1>11, <2>1 DEF DropRight, OnBus, Preparing
    <2>3. /\ \A i : UserQueue(i)' <=> UserQueue(i)
          /\ \A i \in 1..Len(spsQueue) : spsQueue'[i] = spsQueue[i]
          /\ Len(spsQueue') \in {Len(spsQueue), Len(spsQueue) + 1}
        BY <1>1, <1>6, <1>7, <1>8, <1>11
    <2>4. NotQueued' <=> NotQueued
        BY <1>6, <2>3 DEF NotQueued, UserQueue
    <2>5. NotSignalled => NotSignalled'
        BY <1>4, <1>5 DEF NotSignalled, UserChan
    <2>6. CASE WithBus
      <3>1. WithBus'
          BY <1>1, <2>2, <2>4, <2>5, <2>6 DEF WithBus
      <3> QED
          BY <1>9, <2>2, <3>1 DEF SpsInv
    <2>7. CASE Signalled
      <3>1. PICK k \in 1..Len(spsChan) : UserChan(k) /\ \A i : UserChan(i) => i = k
          BY <2>7 DEF Signalled, UserChan
      <3>2. k - 1 \in 1..Len(spsChan') /\ UserChan(k - 1)' /\ \A i \in Nat : UserChan(i)' => i = k - 1
          BY <1>4, <1>5, <2>1, <3>1
      <3>3. /\ \E i \in 1..Len(spsChan') : UserChan(i)'
            /\ \A i, j \in 1..Len(spsChan') : UserChan(i)' /\ UserChan(j)' => i = j
          BY <1>4, <3>2
      <3>4. Signalled'
          BY <1>1, <2>2, <2>4, <2>7, <3>3 DEF Signalled, SpsItem
      <3> QED
          BY <1>9, <2>2, <3>4 DEF SpsInv
    <2>8. CASE Queued
      <3>1. PICK k \in 1..Len(spsQueue) :
               UserQueue(k) /\ (\A i : UserQueue(i) => i = k) /\ spsDone[1] = spsQueue[k]
          BY <2>8 DEF Queued, UserQueue
      <3>2. k \in 1..Len(spsQueue') /\ spsQueue'[k] = spsQueue[k]
          BY <1>6, <2>3, <3>1
      <3>3. Queued'
          BY <1>1, <2>2, <2>3, <2>5, <2>8, <3>1, <3>2 DEF Queued
      <3> QED
          BY <1>9, <2>2, <3>3 DEF SpsInv
    <2> QED
        BY <1>2, <2>6, <2>7, <2>8
  <1> QED
      BY <1>10, <1>11

\* The thread of the application takes a notification.
LEMMA SpsThreadInv == ASSUME SpsInv, spi_slave_app_thread PROVE SpsInv'
  <1>1. /\ spsApp = "idle" /\ spsNotified /\ spsNotified' = FALSE /\ spsApp' = "callback"
        /\ UNCHANGED <<spsCtx, spsXfer, spsChan, spsQueue, spsDone>>
      BY DEF spi_slave_app_thread
  <1>2. SpsTypes' /\ Together' /\ XferRight' /\ DropRight'
      BY <1>1 DEF SpsInv, SpsTypes, Together, XferRight, DropRight, UserChan, UserQueue
  <1>3. (WithBus \/ Signalled \/ Queued)'
      BY <1>1 DEF SpsInv, WithBus, Signalled, Queued, NotSignalled, NotQueued, UserChan,
                  UserQueue, Preparing, OnBus, SpsItem
  <1> QED
      BY <1>2, <1>3 DEF SpsInv

\* The application takes the report that is due.
LEMMA SpsCompleteInv == ASSUME SpsInv, spi_slave_xfer_complete PROVE SpsInv'
  <1> USE SpsAssumption
  <1>1. spsApp = "callback" /\ UNCHANGED <<spsCtx, spsXfer, spsChan, spsNotified>>
      BY DEF spi_slave_xfer_complete
  <1>2. SpsTypes /\ Together /\ XferRight /\ (WithBus \/ Signalled \/ Queued) /\ DropRight
      BY DEF SpsInv
  <1>3. /\ \A i : UserChan(i)' <=> UserChan(i)
        /\ (OnBus' <=> OnBus) /\ (NotSignalled' <=> NotSignalled)
      BY <1>1 DEF UserChan, OnBus, NotSignalled
  <1>4. CASE spsQueue = <<>>
    <2>1. spsApp' = "idle" /\ UNCHANGED <<spsQueue, spsDone>>
        BY <1>4 DEF spi_slave_xfer_complete
    <2>2. SpsTypes' /\ Together' /\ XferRight' /\ DropRight'
        BY <1>1, <1>2, <1>4, <2>1
           DEF SpsTypes, Together, XferRight, DropRight, UserChan, UserQueue
    <2>3. (WithBus \/ Signalled \/ Queued)'
        BY <1>1, <1>2, <2>1
           DEF WithBus, Signalled, Queued, NotSignalled, NotQueued, UserChan, 
                                UserQueue, Preparing, OnBus, SpsItem
    <2> QED
        BY <2>2, <2>3 DEF SpsInv
  <1>5. CASE spsQueue # <<>>
    <2>1. /\ spsQueue' = Tail(spsQueue)
          /\ Head(spsQueue).in = SpsDefault =>
               spsApp' = (IF spsCtx.drop THEN "idle" ELSE "callback") /\ UNCHANGED spsDone
          /\ Head(spsQueue).in # SpsDefault => spsApp' = "prepare" /\ spsDone' = Tail(spsDone)
        BY <1>5 DEF spi_slave_xfer_complete
    <2>2. /\ Len(spsQueue) \in Nat /\ spsQueue' \in Seq(SpsItems) /\ Len(spsQueue) >= 1
          /\ Len(spsQueue') = Len(spsQueue) - 1 /\ Head(spsQueue) = spsQueue[1]
          /\ \A i \in 1..Len(spsQueue) - 1 : spsQueue'[i] = spsQueue[i + 1]
        BY <1>2, <1>5, <2>1, SpsEnds DEF SpsTypes
    <2>3. \A i : UserQueue(i)' <=> i \in 1..Len(spsQueue) - 1 /\ UserQueue(i + 1)
        BY <2>2 DEF UserQueue
    <2>4. UserQueue(1) <=> Head(spsQueue).in # SpsDefault
        BY <2>2 DEF UserQueue
    <2>5. XferRight' /\ (spsApp' # "prepare_out")
        BY <1>1, <1>2, <2>1 DEF XferRight
    <2>6. SpsTypes' /\ Together'
        BY <1>1, <1>2, <2>1, <2>2, <2>5 DEF SpsTypes, Together
    <2>7. CASE UserQueue(1)
      <3>1. Queued /\ \A i : UserQueue(i) => i = 1
        <4>1. 1 \in 1..Len(spsQueue)
            BY <2>2
        <4>2. Queued
            BY <1>2, <2>7, <4>1 DEF WithBus, Signalled, NotQueued
        <4> QED
            BY <2>7, <4>2 DEF Queued, UserQueue
      <3>2. spsApp' = "prepare" /\ spsDone' = <<>>
        <4>1. Tail(<<spsDone[1]>>) = <<>>
            OBVIOUS
        <4> QED
            BY <2>1, <2>4, <2>7, <3>1, <4>1 DEF Queued
      <3>3. NotQueued' /\ \A i \in Nat : ~ UserQueue(i)'
          BY <2>2, <2>3, <3>1 DEF NotQueued
      <3>4. WithBus'
          BY <1>1, <1>3, <3>1, <3>2, <3>3 DEF WithBus, Queued
      <3>5. DropRight'
        <4>1. spsCtx.drop => /\ \A i \in 1..Len(spsQueue') : UserQueue(i)'
                             /\ \A i \in 1..Len(spsChan) : UserChan(i)
                             /\ ~ spsNotified
          <5>1. ASSUME spsCtx.drop, NEW i \in 1..Len(spsQueue') PROVE FALSE
              BY <1>2, <2>2, <3>1, <5>1 DEF DropRight
          <5>2. spsCtx.drop => ~ spsNotified
              BY <1>1, <1>2 DEF DropRight
          <5> QED
              BY <1>2, <5>1, <5>2 DEF DropRight
        <4> QED
            BY <1>1, <1>3, <3>2, <4>1 DEF DropRight
      <3> QED
          BY <2>5, <2>6, <3>4, <3>5 DEF SpsInv
    <2>8. CASE ~ UserQueue(1)
      <3>1. ~ spsCtx.drop /\ ~ Preparing' /\ UNCHANGED spsDone /\ ~ Preparing
          BY <1>1, <1>2, <2>1, <2>2, <2>4, <2>8 DEF DropRight, Preparing
      <3>2. DropRight'
          BY <1>1, <3>1 DEF DropRight
      <3>3. CASE WithBus
        <4>1. WithBus'
            BY <1>1, <1>3, <2>2, <2>3, <3>1, <3>3 DEF WithBus, NotQueued
        <4> QED
            BY <2>5, <2>6, <3>2, <4>1 DEF SpsInv
      <3>4. CASE Signalled
        <4>1. Signalled'
            BY <1>1, <1>3, <2>2, <2>3, <3>1, <3>4 DEF Signalled, NotQueued, SpsItem
        <4> QED
            BY <2>5, <2>6, <3>2, <4>1 DEF SpsInv
      <3>5. CASE Queued
        <4>1. PICK k \in 1..Len(spsQueue) :
                 UserQueue(k) /\ (\A i : UserQueue(i) => i = k) /\ spsDone[1] = spsQueue[k]
            BY <3>5 DEF Queued, UserQueue
        <4>2. /\ k - 1 \in 1..Len(spsQueue') /\ UserQueue(k - 1)'
              /\ (\A i \in Nat : UserQueue(i)' => i = k - 1) /\ spsDone[1] = spsQueue'[k - 1]
            BY <2>2, <2>3, <2>8, <4>1
        <4>3. /\ \A i \in 1..Len(spsQueue') : i \in Nat
              /\ spsDone' = <<spsDone'[1]>> /\ spsDone'[1] \in SpsItems
              /\ spsDone'[1].in = spsDone'[1].out
              /\ ~ OnBus' /\ ~ spsCtx'.user_data_ready /\ ~ Preparing' /\ NotSignalled'
            BY <1>1, <1>3, <3>1, <3>5 DEF Queued
        <4>4. /\ \E i \in 1..Len(spsQueue') : UserQueue(i)'
              /\ \A i, j \in 1..Len(spsQueue') : UserQueue(i)' /\ UserQueue(j)' => i = j
              /\ \A i \in 1..Len(spsQueue') : UserQueue(i)' => spsDone'[1] = spsQueue'[i]
            BY <3>1, <4>2, <4>3
        <4>5. Queued'
            BY <4>3, <4>4 DEF Queued
        <4> QED
            BY <2>5, <2>6, <3>2, <4>5 DEF SpsInv
      <3> QED
          BY <1>2, <3>3, <3>4, <3>5
    <2> QED
        BY <2>7, <2>8
  <1> QED
      BY <1>4, <1>5

\* The application prepares its buffers in two steps.
LEMMA SpsPrepareInv == ASSUME SpsInv, spi_slave_xfer_prepare PROVE SpsInv'
  <1> USE SpsAssumption
  <1>1. Preparing /\ UNCHANGED <<spsXfer, spsChan, spsQueue, spsNotified, spsDone>>
      BY DEF spi_slave_xfer_prepare, Preparing
  <1>2. SpsTypes /\ Together /\ XferRight /\ WithBus /\ DropRight
      BY <1>1 DEF SpsInv, Signalled, Queued
  <1>3. /\ XferRight' /\ (OnBus' <=> OnBus) /\ (NotSignalled' <=> NotSignalled)
        /\ NotQueued' <=> NotQueued
      BY <1>1, <1>2 DEF XferRight, OnBus, NotSignalled, NotQueued, UserChan, UserQueue
  <1>4. ~ OnBus /\ ~ spsCtx.user_data_ready /\ spsDone = <<>> /\ NotSignalled /\ NotQueued
      BY <1>1, <1>2 DEF WithBus
  <1>5. spsCtx'.drop = spsCtx.drop /\ Together' /\ SpsTypes' /\ WithBus'
    <2>1. CASE spsApp = "prepare"
      <3>1. PICK b \in SpsBufs : spsCtx' = [spsCtx EXCEPT !.in_buf = b]
          BY <2>1 DEF spi_slave_xfer_prepare
      <3>2. spsApp' = "prepare_out"
          BY <2>1 DEF spi_slave_xfer_prepare
      <3>3. /\ spsCtx' \in [in_buf : SpsBufs, out_buf : SpsBufs, bytes : Nat, default_bytes : Nat,
                            user_data_ready : BOOLEAN, drop : BOOLEAN]
            /\ spsCtx'.drop = spsCtx.drop /\ ~ spsCtx'.user_data_ready
          BY <1>2, <1>4, <3>1 DEF SpsTypes
      <3> QED
          BY <1>1, <1>2, <1>3, <1>4, <3>2, <3>3 DEF SpsTypes, Together, WithBus
    <2>2. CASE spsApp = "prepare_out"
      <3>1. /\ spsCtx' = [spsCtx EXCEPT !.out_buf = spsCtx.in_buf, !.user_data_ready = TRUE]
            /\ spsApp' = IF spsCtx.drop THEN "idle" ELSE "callback"
          BY <2>2 DEF spi_slave_xfer_prepare
      <3>2. /\ spsCtx' \in [in_buf : SpsBufs, out_buf : SpsBufs, bytes : Nat, default_bytes : Nat,
                            user_data_ready : BOOLEAN, drop : BOOLEAN]
            /\ spsCtx'.drop = spsCtx.drop /\ spsCtx'.out_buf = spsCtx'.in_buf
          BY <1>2, <3>1 DEF SpsTypes
      <3>3. ~ Preparing' /\ spsApp' \in {"idle", "callback"}
          BY <3>1 DEF Preparing
      <3> QED
          BY <1>1, <1>2, <1>3, <1>4, <3>2, <3>3 DEF SpsTypes, Together, WithBus
    <2> QED
        BY <1>1, <2>1, <2>2 DEF Preparing
  <1>6. DropRight'
    <2>1. spsCtx.drop => spsApp' # "callback" /\ ~ spsNotified
        BY <1>1, <1>2 DEF DropRight, Preparing, spi_slave_xfer_prepare
    <2> QED
        BY <1>1, <1>2, <1>5, <2>1 DEF DropRight, UserChan, UserQueue
  <1> QED
      BY <1>3, <1>5, <1>6 DEF SpsInv

\* What the invariant says of the reports.
LEMMA SpsReports == ASSUME SpsInv PROVE SpiSlaveTruth
  <1> DEFINE queued == {i \in DOMAIN spsQueue : spsQueue[i].in # SpsDefault}
             signalled == {i \in DOMAIN spsChan : spsChan[i] = "user"}
  <1>1. SpsTypes /\ Together /\ (WithBus \/ Signalled \/ Queued) /\ DropRight
      BY DEF SpsInv
  <1>2. /\ DOMAIN spsQueue = 1..Len(spsQueue) /\ DOMAIN spsChan = 1..Len(spsChan)
      BY <1>1 DEF SpsTypes
  <1>3. /\ \A i : i \in queued <=> UserQueue(i)
        /\ \A i : i \in signalled <=> UserChan(i)
      BY <1>2 DEF UserQueue, UserChan
  <1>4. spsCtx.drop /\ spsApp = "callback" => spsQueue # <<>>
      BY <1>1 DEF DropRight
  <1>5. SpiSlaveTruth <=>
          /\ Cardinality(queued) + Cardinality(signalled) = Len(spsDone)
          /\ \A i \in queued : spsQueue[i] = spsDone[Cardinality({j \in queued : j <= i})]
          /\ \A i \in 1..Len(spsDone) : spsDone[i].in = spsDone[i].out
          /\ spsCtx.user_data_ready => spsDone = <<>>
      BY <1>4 DEF SpiSlaveTruth
  <1> HIDE DEF queued, signalled
  <1>6. CASE WithBus
    <2>1. queued = {} /\ signalled = {}
        BY <1>3, <1>6 DEF WithBus, NotQueued, NotSignalled, UserQueue, UserChan
    <2>2. Cardinality(queued) = 0 /\ Cardinality(signalled) = 0
        BY <2>1, FS_EmptySet
    <2>3. spsDone = <<>> /\ Len(spsDone) = 0
        BY <1>6 DEF WithBus
    <2> QED
        BY <1>5, <2>1, <2>2, <2>3
  <1>7. CASE Signalled
    <2>1. PICK k : \A i : UserChan(i) <=> i = k
        BY <1>7 DEF Signalled, UserChan
    <2>2. queued = {} /\ signalled = {k}
        BY <1>3, <1>7, <2>1 DEF Signalled, NotQueued, UserQueue
    <2>3. Cardinality(queued) = 0 /\ Cardinality(signalled) = 1
        BY <2>2, FS_EmptySet, FS_Singleton
    <2>4. Len(spsDone) = 1 /\ spsDone[1].in = spsDone[1].out
        BY <1>1, <1>7 DEF Signalled, Together, Preparing, SpsItem
    <2>5. ~ spsCtx.user_data_ready
        BY <1>7 DEF Signalled
    <2> QED
        BY <1>5, <2>2, <2>3, <2>4, <2>5
  <1>8. CASE Queued
    <2>1. PICK k : (\A i : UserQueue(i) <=> i = k) /\ spsDone[1] = spsQueue[k] /\ k \in Nat
        BY <1>8 DEF Queued, UserQueue
    <2>2. queued = {k} /\ signalled = {}
        BY <1>3, <1>8, <2>1 DEF Queued, NotSignalled, UserChan
    <2>3. {j \in queued : j <= k} = {k}
        BY <2>1, <2>2
    <2>4. Cardinality(queued) = 1 /\ Cardinality(signalled) = 0 /\ Cardinality({k}) = 1
        BY <2>2, FS_EmptySet, FS_Singleton
    <2>5. Len(spsDone) = 1 /\ spsDone[1].in = spsDone[1].out /\ ~ spsCtx.user_data_ready
        BY <1>8 DEF Queued
    <2>6. \A i \in queued : spsQueue[i] = spsDone[Cardinality({j \in queued : j <= i})]
        BY <2>1, <2>2, <2>3, <2>4
    <2> QED
        BY <1>5, <2>4, <2>5, <2>6
  <1> QED
      BY <1>1, <1>6, <1>7, <1>8

\* The reports of the SPI slave's transfers are the transfers' own, for any buffers,
\* lengths and size of the queue, and a callback that does not look finds its report.
THEOREM SpiSlaveIsTrue == SpsSpec => []SpiSlaveTruth
  <1>1. ASSUME SpsInit PROVE SpsInv
    <2> USE SpsAssumption
    <2>1. PICK drop \in BOOLEAN :
            spsCtx = [in_buf |-> CHOOSE b \in SpsBufs : TRUE,
                      out_buf |-> CHOOSE b \in SpsBufs : TRUE,
                      bytes |-> 0, default_bytes |-> 0,
                      user_data_ready |-> TRUE, drop |-> drop]
        BY <1>1 DEF SpsInit
    <2>2. (CHOOSE b \in SpsBufs : TRUE) \in SpsBufs
        OBVIOUS
    <2>3. /\ spsXfer = [on |-> FALSE, in |-> SpsDefault, out |-> SpsDefault]
          /\ spsChan = <<>> /\ spsQueue = <<>> /\ spsNotified = FALSE
          /\ spsApp = "idle" /\ spsDone = <<>>
        BY <1>1 DEF SpsInit
    <2>4. SpsTypes /\ Together /\ XferRight
      <3>1. PICK b \in SpsBufs : b = CHOOSE c \in SpsBufs : TRUE
          BY <2>2
      <3>2. spsCtx = [in_buf |-> b, out_buf |-> b, bytes |-> 0, default_bytes |-> 0,
                      user_data_ready |-> TRUE, drop |-> drop]
          BY <2>1, <3>1
      <3>3. /\ spsCtx \in [in_buf : SpsBufs, out_buf : SpsBufs, bytes : Nat, default_bytes : Nat,
                            user_data_ready : BOOLEAN, drop : BOOLEAN]
            /\ spsCtx.in_buf = spsCtx.out_buf
          BY <3>2
      <3>4. spsXfer \in [on : BOOLEAN, in : SpsBufNames, out : SpsBufNames]
          BY <2>3 DEF SpsBufNames
      <3>5. <<>> \in Seq({"user", "default"}) /\ <<>> \in Seq(SpsItems)
          OBVIOUS
      <3>6. Together /\ XferRight
          BY <2>3, <3>3 DEF Together, XferRight
      <3>7. SpsTypes
          BY <2>3, <3>3, <3>4, <3>5 DEF SpsTypes
      <3> QED
          BY <3>6, <3>7
    <2>5. WithBus /\ DropRight
        BY <2>3
           DEF WithBus, DropRight, NotSignalled, NotQueued, UserChan, UserQueue, OnBus, 
                    Preparing
    <2> QED
        BY <2>4, <2>5 DEF SpsInv
  <1>2. ASSUME SpsInv, [SpsNext]_spsVars PROVE SpsInv'
    <2>1. CASE SpsNext
        BY <1>2, <2>1, SpsStartedInv, SpsEndedInv, SpsIsrInv, SpsThreadInv,
           SpsCompleteInv, 
           SpsPrepareInv DEF SpsNext, SpsBus, SpsAppStep
    <2>2. CASE UNCHANGED spsVars
        BY <1>2, <2>2
           DEF spsVars, SpsInv, SpsTypes, Together, XferRight, DropRight, WithBus, 
           Signalled, Queued, NotSignalled, NotQueued, UserChan, UserQueue, Preparing, OnBus,
           SpsItem
    <2> QED
        BY <1>2, <2>1, <2>2
  <1>3. SpsSpec => []SpsInv
      BY <1>1, <1>2, PTL DEF SpsSpec
  <1> QED
      BY <1>3, SpsReports, PTL

(***************************************************************************)
(* I2S and microphone array buffers.                                       *)
(***************************************************************************)

\* The places of a buffer, the values of the counters, and a buffer.
Indices == 0..RingSize - 1
Counters == 0..SampleMod - 1
Rings == [buf : [Indices -> Counters], write_index : Indices, read_index : Indices,
          total_written : Counters, total_read : Counters, required : Nat,
          blocked : BOOLEAN, sem : {0, 1}, intact : BOOLEAN]

\* Sums and differences that go round, as operators of their own.
IndexPlus(a, b) == (a + b) % RingSize
IndexMinus(a, b) == (a - b) % RingSize
CountMinus(a, b) == (a - b) % SampleMod

\* The frames from index s on are those that have not been counted as read, then a
\* frames that have not been counted as written; b of them have been taken.
FramesFrom(r, s, a, b) ==
  /\ r.read_index = IndexPlus(s, b)
  /\ r.write_index = IndexPlus(s, Available(r) + a)
  /\ \A k \in Indices : k < Available(r) + a =>
        r.buf[IndexPlus(s, k)] = CountPlus(r.total_read, k)

RingRight(r, a, b) ==
  /\ r.intact /\ Available(r) + a <= RingSize /\ b <= Available(r)
  /\ \E s \in Indices : FramesFrom(r, s, a, b)

\* No sum of indices or counters reaches twice the modulus.
LEMMA ModOnce ==
  ASSUME NEW m \in Nat \ {0}, NEW x \in Int
  PROVE  /\ x % m \in 0..m - 1
         /\ x \in 0..m - 1 => x % m = x
         /\ x \in m..m + m - 1 => x % m = x - m
         /\ x \in -m..-1 => x % m = x + m
  OBVIOUS

\* What a sum and a difference come to.
LEMMA SumsGoRound ==
  ASSUME NEW m \in Nat \ {0}, NEW a \in Nat, NEW b \in Nat, a < m, b <= m
  PROVE  /\ (a + b) % m = IF a + b < m THEN a + b ELSE a + b - m
         /\ (a - b) % m = IF a >= b THEN a - b ELSE a - b + m
  <1>1. CASE a + b < m
      BY <1>1
  <1>2. (a + b) % m = IF a + b < m THEN a + b ELSE a + b - m
    <2>1. CASE a + b < m
        BY <2>1
    <2>2. CASE a + b >= m
        BY <2>2
    <2> QED
        BY <2>1, <2>2
  <1>3. (a - b) % m = IF a >= b THEN a - b ELSE a - b + m
    <2>1. CASE a >= b
        BY <2>1
    <2>2. CASE a < b
        BY <2>2
    <2> QED
        BY <2>1, <2>2
  <1> QED
      BY <1>2, <1>3

\* The sums with R and M for the sizes.
SumsRight(R, M) ==
     /\ R = RingSize /\ M = SampleMod /\ R < M
     /\ Indices = 0..R - 1 /\ Counters = 0..M - 1
     /\ \A a, b \in Nat : a < R /\ b <= R =>
           /\ IndexPlus(a, b) = IF a + b < R THEN a + b ELSE a + b - R
           /\ IndexMinus(a, b) = IF a >= b THEN a - b ELSE a - b + R
     /\ \A a, b \in Nat : a < M /\ b <= M =>
           /\ CountPlus(a, b) = IF a + b < M THEN a + b ELSE a + b - M
           /\ CountMinus(a, b) = IF a >= b THEN a - b ELSE a - b + M

\* So it is for the indices and for the counters.
LEMMA Sums == \E R, M \in Nat \ {0} : SumsRight(R, M)
  <1>1. PICK R \in Nat \ {0}, M \in Nat \ {0} : R = RingSize /\ M = SampleMod /\ R < M
      BY SampleAssumption
  <1>2. \A a, b \in Nat : a < R /\ b <= R =>
           /\ IndexPlus(a, b) = IF a + b < R THEN a + b ELSE a + b - R
           /\ IndexMinus(a, b) = IF a >= b THEN a - b ELSE a - b + R
      BY <1>1, SumsGoRound DEF IndexPlus, IndexMinus
  <1>3. \A a, b \in Nat : a < M /\ b <= M =>
           /\ CountPlus(a, b) = IF a + b < M THEN a + b ELSE a + b - M
           /\ CountMinus(a, b) = IF a >= b THEN a - b ELSE a - b + M
    <2>1. ASSUME NEW a \in Nat, NEW b \in Nat, a < M, b <= M
          PROVE  /\ CountPlus(a, b) = IF a + b < M THEN a + b ELSE a + b - M
                 /\ CountMinus(a, b) = IF a >= b THEN a - b ELSE a - b + M
      <3>1. /\ (a + b) % M = IF a + b < M THEN a + b ELSE a + b - M
            /\ (a - b) % M = IF a >= b THEN a - b ELSE a - b + M
          BY <2>1, SumsGoRound
      <3> QED
          BY <1>1, <3>1 DEF CountPlus, CountMinus
    <2> QED
        BY <2>1
  <1> QED
      BY <1>1, <1>2, <1>3 DEF SumsRight, Indices, Counters

\* What is available, and how it moves with the counters.
LEMMA CountsMove ==
  ASSUME NEW w \in Counters, NEW t \in Counters, NEW n \in Nat, NEW avail,
         avail = CountMinus(w, t)
  PROVE  /\ avail \in Nat /\ avail \in Counters
         /\ avail + n <= RingSize =>
              /\ CountPlus(w, n) \in Counters
              /\ CountMinus(CountPlus(w, n), t) = avail + n
              /\ \A k \in Nat : k < n => CountPlus(w, k) = CountPlus(t, avail + k)
         /\ n <= avail /\ avail <= RingSize =>
              /\ CountPlus(t, n) \in Counters
              /\ CountMinus(w, CountPlus(t, n)) = avail - n
              /\ \A k \in Nat : n + k <= RingSize =>
                    CountPlus(CountPlus(t, n), k) = CountPlus(t, n + k)
  <1>1. PICK R \in Nat \ {0}, M \in Nat \ {0} : SumsRight(R, M)
      BY Sums
  <1>2. w \in Nat /\ w < M /\ t \in Nat /\ t < M /\ R < M /\ R = RingSize
      BY <1>1 DEF SumsRight
  <1> DEFINE Sum(a, b) == IF a + b < M THEN a + b ELSE a + b - M
  <1>a. \A a, b \in Nat : a < M /\ b <= M => CountPlus(a, b) = Sum(a, b)
      BY <1>1 DEF SumsRight
  <1> HIDE DEF Sum
  <1>3. avail = IF w >= t THEN w - t ELSE w - t + M
      BY <1>1, <1>2 DEF SumsRight
  <1>4. avail \in Nat /\ avail < M
      BY ONLY <1>1, <1>2, <1>3
  <1>5. ASSUME avail + n <= R
        PROVE  /\ CountPlus(w, n) \in Nat /\ CountPlus(w, n) < M
               /\ CountMinus(CountPlus(w, n), t) = avail + n
               /\ \A k \in Nat : k < n => CountPlus(w, k) = CountPlus(t, avail + k)
    <2>1. CountPlus(w, n) = IF w + n < M THEN w + n ELSE w + n - M
        BY <1>1, <1>2, <1>4, <1>5 DEF SumsRight
    <2>2. /\ CountPlus(w, n) \in Nat /\ CountPlus(w, n) < M
          /\ CountMinus(CountPlus(w, n), t) = avail + n
        BY <1>1, <1>2, <1>3, <1>4, <1>5, <2>1 DEF SumsRight
    <2>3. ASSUME NEW k \in Nat, k < n PROVE CountPlus(w, k) = CountPlus(t, avail + k)
      <3>1. k <= M /\ avail + k \in Nat /\ avail + k <= M
          BY ONLY <1>2, <1>4, <1>5, <2>3, n \in Nat, M \in Nat \ {0}, R \in Nat \ {0}
      <3>2. CountPlus(w, k) = Sum(w, k) /\ CountPlus(t, avail + k) = Sum(t, avail + k)
          BY ONLY <1>2, <1>a, <2>3, <3>1
      <3> QED
          BY ONLY <1>2, <1>3, <1>4, <1>5, <2>3, <3>1, <3>2, n \in Nat, M \in Nat \ {0}
                  DEF Sum
    <2> QED
        BY <2>2, <2>3
  <1>6. ASSUME n <= avail, avail <= R
        PROVE  /\ CountPlus(t, n) \in Nat /\ CountPlus(t, n) < M
               /\ CountMinus(w, CountPlus(t, n)) = avail - n
               /\ \A k \in Nat : n + k <= RingSize =>
                    CountPlus(CountPlus(t, n), k) = CountPlus(t, n + k)
    <2>1. CountPlus(t, n) = IF t + n < M THEN t + n ELSE t + n - M
        BY <1>1, <1>2, <1>4, <1>6 DEF SumsRight
    <2>2. /\ CountPlus(t, n) \in Nat /\ CountPlus(t, n) < M
        BY <1>1, <1>2, <1>3, <1>4, <1>6, <2>1 DEF SumsRight
    <2>3. CountMinus(w, CountPlus(t, n)) = avail - n
      <3>1. CountMinus(w, CountPlus(t, n)) = IF w >= CountPlus(t, n) THEN w - CountPlus(t, n)
                                             ELSE w - CountPlus(t, n) + M
          BY <1>1, <1>2, <2>2 DEF SumsRight
      <3> QED
          BY ONLY <1>1, <1>2, <1>3, <1>4, <1>6, <2>1, <3>1, n \in Nat
    <2>4. ASSUME NEW k \in Nat, n + k <= RingSize
          PROVE  CountPlus(CountPlus(t, n), k) = CountPlus(t, n + k)
      <3>1. n + k \in Nat /\ n + k <= M /\ k <= M
          BY ONLY <1>2, <2>4, n \in Nat, M \in Nat \ {0}, R \in Nat \ {0}
      <3>2. /\ CountPlus(CountPlus(t, n), k) = Sum(CountPlus(t, n), k)
            /\ CountPlus(t, n + k) = Sum(t, n + k)
          BY ONLY <1>2, <1>a, <2>2, <2>4, <3>1
      <3> QED
          BY ONLY <1>2, <1>4, <1>6, <2>1, <2>4, <3>1, <3>2, n \in Nat, M \in Nat \ {0}
                  DEF Sum
    <2> QED
        BY <2>2, <2>3, <2>4
  <1>7. Counters = 0..M - 1
      BY <1>1 DEF SumsRight
  <1>8. \A x \in Nat : x < M => x \in Counters
      BY <1>7
  <1> QED
      BY ONLY <1>2, <1>4, <1>5, <1>6, <1>8

\* Indices go round the buffer.
LEMMA IndicesMove ==
  ASSUME NEW s \in Indices, NEW k \in Nat, NEW n \in Nat, k <= RingSize, n <= RingSize
  PROVE  /\ IndexPlus(s, k) \in Indices /\ IndexPlus(s, 0) = s
         /\ k + n <= RingSize => IndexPlus(IndexPlus(s, k), n) = IndexPlus(s, k + n)
         /\ k < RingSize => IndexMinus(IndexPlus(s, k), IndexPlus(s, n))
                               = IF k >= n THEN k - n
                                 ELSE IF n - k < RingSize THEN RingSize + k - n ELSE 0
  <1>1. PICK R \in Nat \ {0}, M \in Nat \ {0} : SumsRight(R, M)
      BY Sums
  <1> DEFINE Sum(a, b) == IF a + b < R THEN a + b ELSE a + b - R
             Less(a, b) == IF a >= b THEN a - b ELSE a - b + R
  <1>2. R = RingSize /\ Indices = 0..R - 1
      BY <1>1 DEF SumsRight
  <1>3. /\ \A a, b \in Nat : a < R /\ b <= R => IndexPlus(a, b) = Sum(a, b)
        /\ \A a, b \in Nat : a < R /\ b <= R => IndexMinus(a, b) = Less(a, b)
      BY <1>1 DEF SumsRight
  <1> HIDE DEF Sum, Less
  <1>4. s \in Nat /\ s < R /\ k <= R /\ n <= R /\ 0 \in Nat /\ 0 <= R
      BY <1>2
  <1>5. IndexPlus(s, k) = Sum(s, k) /\ IndexPlus(s, 0) = Sum(s, 0) /\ IndexPlus(s, n) = Sum(s, n)
      BY ONLY <1>3, <1>4, k \in Nat, n \in Nat
  <1>6. /\ IndexPlus(s, k) \in Nat /\ IndexPlus(s, k) < R /\ IndexPlus(s, 0) = s
        /\ IndexPlus(s, n) \in Nat /\ IndexPlus(s, n) < R
      BY ONLY <1>4, <1>5, k \in Nat, n \in Nat, R \in Nat \ {0} DEF Sum
  <1>7. ASSUME k + n <= R PROVE IndexPlus(IndexPlus(s, k), n) = IndexPlus(s, k + n)
    <2>1. /\ IndexPlus(IndexPlus(s, k), n) = Sum(IndexPlus(s, k), n)
          /\ IndexPlus(s, k + n) = Sum(s, k + n)
        BY ONLY <1>3, <1>4, <1>6, <1>7, k \in Nat, n \in Nat, k + n \in Nat
    <2> QED
        BY ONLY <1>4, <1>5, <1>7, <2>1, k \in Nat, n \in Nat, R \in Nat \ {0} DEF Sum
  <1>8. ASSUME k < R
        PROVE  IndexMinus(IndexPlus(s, k), IndexPlus(s, n))
                 = IF k >= n THEN k - n ELSE IF n - k < R THEN R + k - n ELSE 0
    <2>1. IndexMinus(IndexPlus(s, k), IndexPlus(s, n)) = Less(IndexPlus(s, k), IndexPlus(s, n))
        BY ONLY <1>3, <1>4, <1>6
    <2> QED
        BY ONLY <1>4, <1>5, <1>8, <2>1, k \in Nat, n \in Nat, R \in Nat \ {0}
                DEF Sum, Less
  <1>9. IndexPlus(s, k) \in Indices
      BY <1>2, <1>6
  <1> QED
      BY <1>2, <1>6, <1>7, <1>8, <1>9

\* What is available is a number of frames.
LEMMA AvailableIs ==
  ASSUME NEW r \in Rings
  PROVE  /\ Available(r) = CountMinus(r.total_written, r.total_read) /\ Available(r) \in Nat
         /\ Available(r) <= RingSize => Free(r) = RingSize - Available(r)
         /\ Free(r) \in Nat
  <1>1. r.total_written \in Counters /\ r.total_read \in Counters
      BY DEF Rings
  <1>2. Available(r) = CountMinus(r.total_written, r.total_read)
      BY DEF Available, CountMinus
  <1>3. Available(r) \in Nat
      BY <1>1, <1>2, 0 \in Nat, CountsMove
  <1>4. ASSUME NEW a \in Nat
        PROVE  /\ (RingSize - a) % SampleMod \in Nat
               /\ a <= RingSize => (RingSize - a) % SampleMod = RingSize - a
      BY SampleAssumption
  <1> QED
      BY <1>2, <1>3, <1>4 DEF Free

\* Sums of any size stay in range.
LEMMA SumsInRange ==
  ASSUME NEW a \in Nat, NEW b \in Nat
  PROVE  IndexPlus(a, b) \in Indices /\ CountPlus(a, b) \in Counters
  <1>1. ASSUME NEW m \in Nat \ {0} PROVE (a + b) % m \in 0..m - 1
      BY <1>1, ModOnce, a + b \in Int
  <1>2. RingSize \in Nat \ {0} /\ SampleMod \in Nat \ {0}
      BY SampleAssumption
  <1> QED
      BY <1>1, <1>2 DEF IndexPlus, CountPlus, Indices, Counters

\* Both are numbers.
LEMMA AreNumbers == Indices \subseteq Nat /\ Counters \subseteq Nat
  BY SampleAssumption DEF Indices, Counters

\* Frames are stored.
LEMMA RingStored ==
  ASSUME NEW r \in Rings, NEW n \in Nat
  PROVE  LET q == Stored(r, n) IN
         /\ q \in Rings /\ Available(q) = Available(r)
         /\ q.required = r.required /\ q.blocked = r.blocked /\ q.sem = r.sem
         /\ \A b \in Nat : RingRight(r, 0, b) /\ Available(r) + n <= RingSize => RingRight(q, n, b)
  <1> DEFINE q == Stored(r, n)
             w == r.write_index
             t == r.total_read
             A == Available(r)
             buf == [i \in Indices |-> IF IndexMinus(i, w) < n
                                       THEN CountPlus(r.total_written, IndexMinus(i, w))
                                       ELSE r.buf[i]]
  <1>1. q = [r EXCEPT !.buf = buf, !.write_index = IndexPlus(w, n)]
      BY DEF Stored, Indices, IndexMinus, IndexPlus
  <1>2. /\ r.buf \in [Indices -> Counters] /\ w \in Indices /\ r.read_index \in Indices
        /\ r.total_written \in Counters /\ t \in Counters
      BY DEF Rings
  <1>3. PICK R \in Nat \ {0}, M \in Nat \ {0} : SumsRight(R, M)
      BY Sums
  <1>4. R = RingSize /\ Indices = 0..R - 1 /\ Counters = 0..M - 1
      BY <1>3 DEF SumsRight
  <1>5. IndexPlus(w, n) \in Indices
      BY <1>2, SumsInRange, AreNumbers
  <1>6. buf \in [Indices -> Counters]
    <2>1. ASSUME NEW i \in Indices, IndexMinus(i, w) < n
          PROVE  CountPlus(r.total_written, IndexMinus(i, w)) \in Counters
      <3>1. i \in Nat /\ w \in Nat /\ i < R /\ w <= R
          BY <1>2, <1>4
      <3>2. IndexMinus(i, w) = IF i >= w THEN i - w ELSE i - w + R
          BY <1>3, <3>1 DEF SumsRight
      <3>3. IndexMinus(i, w) \in Nat
          BY ONLY <3>1, <3>2, R \in Nat \ {0}
      <3> QED
          BY <1>2, <3>3, SumsInRange, AreNumbers
    <2> QED
        BY <1>2, <2>1
  <1> HIDE DEF buf
  <1>7. q \in Rings
      BY <1>1, <1>5, <1>6 DEF Rings
  <1>8. /\ q.buf = buf /\ q.write_index = IndexPlus(w, n) /\ q.read_index = r.read_index
        /\ q.total_written = r.total_written /\ q.total_read = t /\ q.intact = r.intact
        /\ q.required = r.required /\ q.blocked = r.blocked /\ q.sem = r.sem
      BY <1>1 DEF Rings
  <1>9. Available(q) = A
      BY <1>8 DEF Available
  <1>10. ASSUME NEW b \in Nat, RingRight(r, 0, b), A + n <= RingSize PROVE RingRight(q, n, b)
    <2>1. A \in Nat /\ A = CountMinus(r.total_written, t) /\ A + 0 = A
        BY AvailableIs
    <2>2. PICK s \in Indices : FramesFrom(r, s, 0, b)
        BY <1>10 DEF RingRight
    <2>3. /\ r.read_index = IndexPlus(s, b) /\ w = IndexPlus(s, A)
          /\ \A k \in Indices : k < A => r.buf[IndexPlus(s, k)] = CountPlus(t, k)
        BY <2>1, <2>2 DEF FramesFrom
    <2>4. q.write_index = IndexPlus(s, A + n)
      <3>1. A <= RingSize /\ n <= RingSize
          BY ONLY <1>4, <1>10, <2>1, n \in Nat, R \in Nat \ {0}
      <3> QED
          BY <1>8, <1>10, <2>1, <2>3, <3>1, IndicesMove
    <2>5. ASSUME NEW k \in Indices, k < A + n PROVE buf[IndexPlus(s, k)] = CountPlus(t, k)
      <3>1. k \in Nat /\ k < R /\ A <= R /\ k <= RingSize /\ A <= RingSize /\ k < RingSize
          BY ONLY <1>4, <1>10, <2>1, n \in Nat, R \in Nat \ {0}, k \in Indices
      <3>2. IndexPlus(s, k) \in Indices
          BY <2>1, <3>1, IndicesMove
      <3>3. IndexMinus(IndexPlus(s, k), w)
              = IF k >= A THEN k - A ELSE IF A - k < R THEN R + k - A ELSE 0
        <4>1. IndexMinus(IndexPlus(s, k), IndexPlus(s, A))
                = IF k >= A THEN k - A ELSE IF A - k < RingSize THEN RingSize + k - A ELSE 0
            BY ONLY <2>1, <3>1, s \in Indices, IndicesMove
        <4> QED
            BY ONLY <1>4, <2>3, <4>1
      <3>4. CASE k >= A
        <4>1. k - A \in Nat /\ k - A < n /\ A + (k - A) = k
            BY ONLY <2>1, <2>5, <3>1, <3>4, n \in Nat
        <4>2. CountPlus(r.total_written, k - A) = CountPlus(t, k)
            BY <1>2, <1>10, <2>1, <4>1, CountsMove
        <4> QED
            BY <3>2, <3>3, <3>4, <4>1, <4>2 DEF buf
      <3>5. CASE k < A
        <4>1. ~ (IndexMinus(IndexPlus(s, k), w) < n)
            BY ONLY <1>4, <1>10, <2>1, <3>1, <3>3, <3>5, n \in Nat, R \in Nat \ {0}
        <4> QED
            BY <2>3, <3>2, <3>5, <4>1 DEF buf
      <3> QED
          BY ONLY <2>1, <3>1, <3>4, <3>5
    <2>6. FramesFrom(q, s, n, b)
        BY <1>8, <1>9, <2>3, <2>4, <2>5 DEF FramesFrom
    <2> QED
        BY <1>8, <1>9, <1>10, <2>6 DEF RingRight
  <1> QED
      BY <1>7, <1>8, <1>9, <1>10

\* Frames are counted as written.
LEMMA RingWritten ==
  ASSUME NEW r \in Rings, NEW n \in Nat
  PROVE  LET q == Written(r, n) IN
         /\ q \in Rings
         /\ q.required = r.required /\ q.blocked = r.blocked /\ q.sem = r.sem
         /\ \A b \in Nat : RingRight(r, n, b) =>
              Available(q) = Available(r) + n /\ RingRight(q, 0, b)
  <1> DEFINE q == Written(r, n)
             t == r.total_read
             A == Available(r)
  <1>1. q = [r EXCEPT !.total_written = CountPlus(r.total_written, n)]
      BY DEF Written
  <1>2. r.total_written \in Counters /\ t \in Counters
      BY DEF Rings
  <1>3. CountPlus(r.total_written, n) \in Counters
      BY <1>2, SumsInRange, AreNumbers
  <1>4. q \in Rings
      BY <1>1, <1>3 DEF Rings
  <1>5. /\ q.buf = r.buf /\ q.write_index = r.write_index /\ q.read_index = r.read_index
        /\ q.total_written = CountPlus(r.total_written, n) /\ q.total_read = t
        /\ q.intact = r.intact
        /\ q.required = r.required /\ q.blocked = r.blocked /\ q.sem = r.sem
      BY <1>1 DEF Rings
  <1>6. ASSUME NEW b \in Nat, RingRight(r, n, b)
        PROVE  Available(q) = A + n /\ RingRight(q, 0, b)
    <2>1. A \in Nat /\ A = CountMinus(r.total_written, t) /\ A + n + 0 = A + n /\ A + n \in Nat
        BY AvailableIs
    <2>2. A + n <= RingSize /\ b <= A
        BY <1>6 DEF RingRight
    <2>3. Available(q) = A + n
      <3>1. CountMinus(CountPlus(r.total_written, n), t) = A + n
          BY <1>2, <2>1, <2>2, CountsMove
      <3> QED
          BY <1>5, <3>1 DEF Available, CountMinus
    <2>4. PICK s \in Indices : FramesFrom(r, s, n, b)
        BY <1>6 DEF RingRight
    <2>5. FramesFrom(q, s, 0, b)
        BY <1>5, <2>1, <2>3, <2>4 DEF FramesFrom
    <2>6. b <= A + n
        BY ONLY <2>1, <2>2, n \in Nat, b \in Nat
    <2> QED
        BY <1>5, <1>6, <2>1, <2>2, <2>3, <2>5, <2>6 DEF RingRight
  <1> QED
      BY <1>4, <1>5, <1>6

\* Frames are taken.
LEMMA RingTaken ==
  ASSUME NEW r \in Rings, NEW n \in Nat
  PROVE  LET q == Taken(r, n) IN
         /\ q \in Rings /\ Available(q) = Available(r)
         /\ q.required = r.required /\ q.blocked = r.blocked /\ q.sem = r.sem
         /\ \A a \in Nat : RingRight(r, a, 0) /\ n <= Available(r) => RingRight(q, a, n)
  <1> DEFINE q == Taken(r, n)
             t == r.total_read
             A == Available(r)
             taken == /\ r.intact /\ n <= A
                      /\ \A k \in 0..n - 1 :
                            r.buf[IndexPlus(r.read_index, k)] = CountPlus(t, k)
  <1>1. q = [r EXCEPT !.intact = taken, !.read_index = IndexPlus(r.read_index, n)]
      BY DEF Taken, IndexPlus
  <1>2. taken \in BOOLEAN
      BY DEF Rings
  <1> HIDE DEF taken
  <1>3. r.read_index \in Indices /\ r.total_written \in Counters /\ t \in Counters
      BY DEF Rings
  <1>4. r.read_index \in Nat
      BY <1>3, SampleAssumption DEF Indices
  <1>5. IndexPlus(r.read_index, n) \in Indices
      BY <1>4, SumsInRange
  <1>6. q \in Rings
      BY <1>1, <1>2, <1>5 DEF Rings
  <1>7. /\ q.buf = r.buf /\ q.write_index = r.write_index
        /\ q.read_index = IndexPlus(r.read_index, n)
        /\ q.total_written = r.total_written /\ q.total_read = t /\ q.intact = taken
        /\ q.required = r.required /\ q.blocked = r.blocked /\ q.sem = r.sem
      BY <1>1 DEF Rings
  <1>8. Available(q) = A
      BY <1>7 DEF Available
  <1>9. ASSUME NEW a \in Nat, RingRight(r, a, 0), n <= A PROVE RingRight(q, a, n)
    <2>1. A \in Nat
        BY AvailableIs
    <2>2. PICK s \in Indices : FramesFrom(r, s, a, 0)
        BY <1>9 DEF RingRight
    <2>3. PICK R \in Nat \ {0} : R = RingSize /\ Indices = 0..R - 1
        BY Sums DEF SumsRight
    <2>4. /\ r.read_index = IndexPlus(s, 0) /\ IndexPlus(s, 0) = s
          /\ \A k \in Indices : k < A + a => r.buf[IndexPlus(s, k)] = CountPlus(t, k)
      <3>1. IndexPlus(s, 0) = s
          BY <2>3, 0 \in Nat, 0 <= R, IndicesMove
      <3> QED
          BY <2>2, <3>1 DEF FramesFrom
    <2>5. A + a <= R
        BY <1>9, <2>3 DEF RingRight
    <2>6. ASSUME NEW k \in 0..n - 1 PROVE k \in Indices /\ k < A + a
        BY ONLY <1>9, <2>1, <2>3, <2>5, <2>6, a \in Nat, n \in Nat
    <2>7. taken
      <3>1. r.intact
          BY <1>9 DEF RingRight
      <3> QED
          BY <1>9, <2>4, <2>6, <3>1 DEF taken
    <2>8. FramesFrom(q, s, a, n)
        BY <1>7, <1>8, <2>2, <2>4 DEF FramesFrom
    <2> QED
        BY <1>7, <1>8, <1>9, <2>7, <2>8 DEF RingRight
  <1> QED
      BY <1>6, <1>7, <1>8, <1>9

\* Frames are counted as read.
LEMMA RingRead ==
  ASSUME NEW r \in Rings, NEW n \in Nat
  PROVE  LET q == Read(r, n) IN
         /\ q \in Rings
         /\ q.required = r.required /\ q.blocked = r.blocked /\ q.sem = r.sem
         /\ \A a \in Nat : RingRight(r, a, n) =>
              Available(q) = Available(r) - n /\ RingRight(q, a, 0)
  <1> DEFINE q == Read(r, n)
             t == r.total_read
             A == Available(r)
  <1>1. q = [r EXCEPT !.total_read = CountPlus(t, n)]
      BY DEF Read
  <1>2. r.total_written \in Counters /\ t \in Counters
      BY DEF Rings
  <1>3. CountPlus(t, n) \in Counters
      BY <1>2, SumsInRange, AreNumbers
  <1>4. q \in Rings
      BY <1>1, <1>3 DEF Rings
  <1>5. /\ q.buf = r.buf /\ q.write_index = r.write_index /\ q.read_index = r.read_index
        /\ q.total_written = r.total_written /\ q.total_read = CountPlus(t, n)
        /\ q.intact = r.intact
        /\ q.required = r.required /\ q.blocked = r.blocked /\ q.sem = r.sem
      BY <1>1 DEF Rings
  <1>6. ASSUME NEW a \in Nat, RingRight(r, a, n)
        PROVE  Available(q) = A - n /\ RingRight(q, a, 0)
    <2>1. A \in Nat /\ A = CountMinus(r.total_written, t)
        BY AvailableIs
    <2>2. PICK R \in Nat \ {0} : R = RingSize /\ Indices = 0..R - 1
        BY Sums DEF SumsRight
    <2>3. A + a <= R /\ n <= A /\ r.intact
        BY <1>6, <2>2 DEF RingRight
    <2>4. /\ A <= R /\ n <= R /\ A - n \in Nat /\ A - n + a \in Nat /\ n + (A - n + a) = A + a
          /\ A - n + a <= R
        BY ONLY <2>1, <2>3, n \in Nat, a \in Nat, R \in Nat \ {0}
    <2>5. Available(q) = A - n
      <3>1. CountMinus(r.total_written, CountPlus(t, n)) = A - n
          BY <1>2, <2>1, <2>2, <2>3, <2>4, CountsMove
      <3> QED
          BY <1>5, <3>1 DEF Available, CountMinus
    <2>6. PICK s \in Indices : FramesFrom(r, s, a, n)
        BY <1>6 DEF RingRight
    <2>7. PICK u \in Indices : u = IndexPlus(s, n)
        BY <2>2, <2>4, IndicesMove
    <2>8. q.read_index = IndexPlus(u, 0)
      <3>1. IndexPlus(u, 0) = u
          BY <2>2, 0 \in Nat, 0 <= R, IndicesMove
      <3> QED
          BY <1>5, <2>6, <2>7, <3>1 DEF FramesFrom
    <2>9. q.write_index = IndexPlus(u, A - n + a)
        BY <1>5, <2>2, <2>3, <2>4, <2>6, <2>7, IndicesMove DEF FramesFrom
    <2>10. ASSUME NEW k \in Indices, k < A - n + a
           PROVE  q.buf[IndexPlus(u, k)] = CountPlus(CountPlus(t, n), k)
      <3>1. k \in Nat /\ n + k \in Indices /\ n + k < A + a /\ n + k <= R /\ k <= R
          BY ONLY <2>1, <2>2, <2>3, <2>10, n \in Nat, a \in Nat, R \in Nat \ {0}
      <3>2. IndexPlus(u, k) = IndexPlus(s, n + k)
          BY <2>2, <2>4, <2>7, <3>1, IndicesMove
      <3>3. CountPlus(CountPlus(t, n), k) = CountPlus(t, n + k)
          BY <1>2, <2>1, <2>2, <2>3, <2>4, <3>1, CountsMove
      <3> QED
          BY <1>5, <2>6, <3>1, <3>2, <3>3 DEF FramesFrom
    <2>11. FramesFrom(q, u, a, 0)
        BY <1>5, <2>5, <2>8, <2>9, <2>10 DEF FramesFrom
    <2> QED
        BY <1>5, <2>2, <2>3, <2>4, <2>5, <2>11 DEF RingRight
  <1> QED
      BY <1>4, <1>5, <1>6

\* Commands in a channel that are about a direction.
At(q, d) == {i \in DOMAIN q : d \in q[i]}
Commands(q, d) == Cardinality(At(q, d))

LEMMA CommandsMove ==
  ASSUME NEW S, NEW q \in Seq(SUBSET S), NEW d
  PROVE  /\ Commands(q, d) \in Nat /\ Commands(<<>>, d) = 0
         /\ \A c \in SUBSET S :
              Commands(Append(q, c), d) = Commands(q, d) + (IF d \in c THEN 1 ELSE 0)
         /\ q # <<>> =>
              /\ Tail(q) \in Seq(SUBSET S) /\ Head(q) \in SUBSET S
              /\ Commands(Tail(q), d) = Commands(q, d) - (IF d \in Head(q) THEN 1 ELSE 0)
  <1>1. ASSUME NEW p \in Seq(SUBSET S)
        PROVE  IsFiniteSet(At(p, d)) /\ Commands(p, d) \in Nat
    <2>1. DOMAIN p = 1..Len(p) /\ Len(p) \in Nat
        OBVIOUS
    <2>2. IsFiniteSet(1..Len(p))
        BY <2>1, FS_Interval
    <2>3. At(p, d) \subseteq 1..Len(p)
        BY <2>1 DEF At
    <2> QED
        BY <2>2, <2>3, FS_Subset, FS_CardinalityType DEF Commands
  <1>2. Commands(<<>>, d) = 0
    <2>1. At(<<>>, d) = {}
        BY DEF At
    <2> QED
        BY <2>1, FS_EmptySet DEF Commands
  <1>3. IsFiniteSet(At(q, d)) /\ Commands(q, d) \in Nat
      BY <1>1
  <1>4. ASSUME NEW c \in SUBSET S
        PROVE  Commands(Append(q, c), d) = Commands(q, d) + (IF d \in c THEN 1 ELSE 0)
    <2>1. /\ DOMAIN Append(q, c) = 1..Len(q) + 1 /\ DOMAIN q = 1..Len(q) /\ Len(q) \in Nat
          /\ \A i \in 1..Len(q) : Append(q, c)[i] = q[i]
          /\ Append(q, c)[Len(q) + 1] = c
        OBVIOUS
    <2>2. CASE d \in c
      <3>1. At(Append(q, c), d) = At(q, d) \cup {Len(q) + 1} /\ Len(q) + 1 \notin At(q, d)
          BY <2>1, <2>2 DEF At
      <3>2. Cardinality(At(Append(q, c), d)) = Cardinality(At(q, d)) + 1
          BY <1>3, <3>1, FS_AddElement
      <3> QED
          BY <2>2, <3>2 DEF Commands
    <2>3. CASE d \notin c
      <3>1. At(Append(q, c), d) = At(q, d)
          BY <2>1, <2>3 DEF At
      <3> QED
          BY <1>3, <2>3, <3>1 DEF Commands
    <2> QED
        BY <2>2, <2>3
  <1>5. ASSUME q # <<>>
        PROVE  /\ Tail(q) \in Seq(SUBSET S) /\ Head(q) \in SUBSET S
               /\ Commands(Tail(q), d) = Commands(q, d) - (IF d \in Head(q) THEN 1 ELSE 0)
    <2>1. /\ Tail(q) \in Seq(SUBSET S) /\ Head(q) \in SUBSET S /\ Head(q) = q[1]
          /\ Len(q) \in Nat \ {0} /\ DOMAIN q = 1..Len(q) /\ DOMAIN Tail(q) = 1..Len(q) - 1
          /\ \A i \in 1..Len(q) - 1 : Tail(q)[i] = q[i + 1]
        BY <1>5
    <2> DEFINE next == At(Tail(q), d)
               rest == At(q, d) \ {1}
               f == [i \in next |-> i + 1]
    <2>2. Cardinality(next) = Cardinality(rest)
      <3>1. \A i \in next : i \in Nat /\ i + 1 \in rest
          BY <2>1 DEF At
      <3>2. \A j \in rest : j \in Nat /\ j - 1 \in next /\ (j - 1) + 1 = j
          BY <2>1 DEF At
      <3>3. IsFiniteSet(next)
          BY <1>1, <2>1
      <3> HIDE DEF next, rest
      <3>4. f \in [next -> rest]
          BY <3>1
      <3>5. \A i, j \in next : f[i] = f[j] => i = j
          BY <3>1
      <3>6. \A j \in rest : \E i \in next : f[i] = j
        <4>1. ASSUME NEW j \in rest PROVE j - 1 \in next /\ f[j - 1] = j
            BY <3>2
        <4> QED
            BY <4>1
      <3> HIDE DEF f
      <3>7. f \in Bijection(next, rest)
          BY <3>4, <3>5, <3>6 DEF Bijection, Injection, Surjection, IsInjective
      <3> QED
          BY <3>3, <3>7, FS_Bijection DEF ExistsBijection
    <2>3. CASE d \in Head(q)
      <3>1. 1 \in At(q, d)
          BY <2>1, <2>3 DEF At
      <3>2. Cardinality(rest) = Cardinality(At(q, d)) - 1
          BY <1>3, <3>1, FS_RemoveElement
      <3> QED
          BY <2>1, <2>2, <2>3, <3>2 DEF Commands
    <2>4. CASE d \notin Head(q)
      <3>1. rest = At(q, d)
          BY <2>1, <2>4 DEF At
      <3>2. Commands(Tail(q), d) = Commands(q, d)
          BY <2>2, <3>1 DEF Commands
      <3> QED
          BY <1>3, <2>1, <2>4, <3>2
    <2> QED
        BY <2>1, <2>3, <2>4
  <1> QED
      BY <1>2, <1>3, <1>4, <1>5

\* The two buffers.
Directions == {"rx", "tx"}

\* The type invariant.
SmpTypes ==
  /\ ring \in [Directions -> Rings]
  /\ bus \in [pc : {"receive", "received", "rx_check", "send", "sent", "tx_check"}, n : Nat]
  /\ caller \in [Directions -> [pc : {"idle", "look", "require", "wait", "copy", "count"},
                                count : Nat]]
  /\ isrCmd \in SUBSET Directions
  /\ isrChan \in Seq(SUBSET Directions)

\* 1 for what is so, and 0 for what is not.
Count(b) == IF b THEN 1 ELSE 0

\* The wakeups that a direction has coming.
Ways(d) == Count(ring[d].required > 0) + Count(d \in isrCmd) + Commands(isrChan, d) + ring[d].sem

\* A blocked direction has one of them, another has none.
WakesRight == \A d \in Dirs : Ways(d) = Count(ring[d].blocked)

\* A call waits when its direction is blocked, and is only blocked for frames.
CallsRight ==
  \A d \in Dirs :
     /\ caller[d].pc \in {"look", "require", "copy", "count"} => ~ ring[d].blocked
     /\ caller[d].pc = "wait" => ring[d].blocked
     /\ caller[d].pc = "require" => caller[d].count > 0

\* Frames, or room, that the task of a direction may count on.
Room(d) == IF d = "rx" THEN Available(ring[d]) ELSE Free(ring[d])

\* A call copies what is there, and a task that has been woken finds what it required.
RoomRight(d) ==
  /\ caller[d].pc = "copy" => caller[d].count <= Room(d)
  /\ ring[d].blocked => IF ring[d].required = 0 THEN caller[d].count <= Room(d)
                                                ELSE ring[d].required = caller[d].count

\* Frames stored but not counted as written, and taken but not counted as read.
Uncounted(at, n) == IF at THEN n ELSE 0
StoredBy(d) == IF d = "rx" THEN Uncounted(bus.pc = "received", bus.n)
                           ELSE Uncounted(caller[d].pc = "count", caller[d].count)
TakenBy(d) == IF d = "rx" THEN Uncounted(caller[d].pc = "count", caller[d].count)
                          ELSE Uncounted(bus.pc = "sent", bus.n)

FrameRight(d) == RingRight(ring[d], StoredBy(d), TakenBy(d)) /\ RoomRight(d)
\* So it is of both directions.
FramesRight == \A d \in Directions : FrameRight(d)

\* The inductive invariant; the frames need calls that retry with the same count.
SmpInv == SmpTypes /\ WakesRight /\ CallsRight /\ (SameRetry => FramesRight)

\* A step that leaves the flags of the rings, the commands and the calls alone.
LEMMA WakesKept ==
  ASSUME SmpInv, UNCHANGED <<smpKind, isrCmd, isrChan>>,
         \A d \in Directions : /\ ring'[d].required = ring[d].required
                               /\ ring'[d].blocked = ring[d].blocked
                               /\ ring'[d].sem = ring[d].sem
  PROVE  WakesRight' /\ (UNCHANGED caller => CallsRight')
  <1>1. Dirs' = Dirs /\ Dirs \subseteq Directions
      BY DEF Dirs, Directions
  <1>2. \A d \in Dirs : ring'[d].blocked = ring[d].blocked
      BY <1>1
  <1>3. \A d \in Dirs : Ways(d)' = Ways(d)
      BY <1>1 DEF Ways
  <1> QED
      BY <1>1, <1>2, <1>3 DEF SmpInv, WakesRight, CallsRight

\* What the parts say of each direction.
LEMMA Parts ==
  ASSUME SmpInv, NEW d \in Directions
  PROVE  /\ ring[d] \in Rings /\ caller[d].count \in Nat /\ bus.n \in Nat
         /\ StoredBy(d) \in Nat /\ TakenBy(d) \in Nat
  <1>1. ring[d] \in Rings /\ caller[d].count \in Nat /\ bus.n \in Nat
      BY DEF SmpInv, SmpTypes
  <1> QED
      BY <1>1 DEF StoredBy, TakenBy, Uncounted

\* A direction that a step does not touch.
LEMMA Untouched ==
  ASSUME NEW d \in Directions, FrameRight(d), ring'[d] = ring[d], caller'[d] = caller[d],
         StoredBy(d)' = StoredBy(d), TakenBy(d)' = TakenBy(d)
  PROVE  FrameRight(d)'
  BY DEF FrameRight, RoomRight, Room

\* The bus has stored a block, or dropped it.
LEMMA ReceiveInv == ASSUME SmpInv, BusReceive PROVE SmpInv'
  <1>1. Block \in Nat
      BY SampleAssumption DEF Block
  <1>a. PICK R \in Rings, n \in Nat : R = ring["rx"] /\ n = Block
      BY <1>1, Parts DEF Directions
  <1>2. PICK Q : R = ring["rx"] /\ n = Block /\ Q = Stored(R, n)
      BY <1>a
  <1>3. /\ bus.pc = "receive" /\ UNCHANGED <<smpKind, caller, isrCmd, isrChan>>
        /\ \/ /\ n <= Free(R) /\ ring' = [ring EXCEPT !["rx"] = Q]
              /\ bus' = [pc |-> "received", n |-> n]
           \/ ring' = ring /\ bus' = [pc |-> "rx_check", n |-> 0]
      BY <1>2 DEF BusReceive, BusGoto
  <1>4. /\ Q \in Rings /\ Available(Q) = Available(R)
        /\ Q.required = R.required /\ Q.blocked = R.blocked /\ Q.sem = R.sem
        /\ \A b \in Nat : RingRight(R, 0, b) /\ Available(R) + n <= RingSize
                             => RingRight(Q, n, b)
      BY <1>2, RingStored
  <1>5. SmpTypes'
    <2>1. ring' \in [Directions -> Rings]
        BY <1>3, <1>4 DEF SmpInv, SmpTypes
    <2>2. bus' \in [pc : {"receive", "received", "rx_check", "send", "sent", "tx_check"}, n : Nat]
        BY <1>3
    <2> QED
        BY <1>3, <2>1, <2>2 DEF SmpInv, SmpTypes
  <1>6. /\ ring'["tx"] = ring["tx"]
        /\ \/ ring'["rx"] = R /\ bus' = [pc |-> "rx_check", n |-> 0]
           \/ ring'["rx"] = Q /\ bus' = [pc |-> "received", n |-> n] /\ n <= Free(R)
      BY <1>2, <1>3 DEF SmpInv, SmpTypes, Directions
  <1>7. WakesRight' /\ CallsRight'
      BY <1>2, <1>3, <1>4, <1>6, WakesKept DEF Directions
  <1>8. ASSUME FramesRight PROVE FramesRight'
    <2>1. FrameRight("tx")'
      <3>1. FrameRight("tx") /\ StoredBy("tx")' = StoredBy("tx") /\ TakenBy("tx")' = TakenBy("tx")
          BY <1>3, <1>6, <1>8 DEF FramesRight, Directions, StoredBy, TakenBy, Uncounted
      <3> QED
          BY <1>3, <1>6, <3>1, Untouched DEF Directions
    <2>2. FrameRight("rx")'
      <3>1. /\ StoredBy("rx") = 0 /\ TakenBy("rx")' = TakenBy("rx") /\ TakenBy("rx") \in Nat
            /\ FrameRight("rx")
          BY <1>3, <1>8, Parts DEF FramesRight, Directions, StoredBy, TakenBy, Uncounted
      <3>2. CASE ring'["rx"] = R /\ bus' = [pc |-> "rx_check", n |-> 0]
        <4>1. StoredBy("rx")' = 0
            BY <3>2 DEF StoredBy, Uncounted
        <4> QED
            BY <1>2, <1>3, <3>1, <3>2, <4>1, Untouched DEF Directions
      <3>3. CASE ring'["rx"] = Q /\ bus' = [pc |-> "received", n |-> n] /\ n <= Free(R)
        <4>1. StoredBy("rx")' = n
            BY <3>3 DEF StoredBy, Uncounted
        <4>2. RingRight(R, 0, TakenBy("rx")) /\ RoomRight("rx")
            BY <1>2, <3>1 DEF FrameRight
        <4>3. Available(R) + n <= RingSize
          <5>1. Available(R) + 0 <= RingSize /\ Available(R) \in Nat /\ RingSize \in Nat
              BY <4>2, AvailableIs, SampleAssumption DEF RingRight
          <5>2. Free(R) = RingSize - Available(R)
              BY <5>1, AvailableIs
          <5> QED
              BY ONLY <3>3, <5>1, <5>2, n \in Nat
        <4>4. RingRight(Q, n, TakenBy("rx"))
            BY <1>4, <3>1, <4>2, <4>3
        <4>5. RoomRight("rx")'
            BY <1>2, <1>3, <1>4, <3>3, <4>2 DEF RoomRight, Room
        <4> QED
            BY <3>1, <3>3, <4>1, <4>4, <4>5 DEF FrameRight
      <3> QED
          BY <1>6, <3>2, <3>3
    <2> QED
        BY <2>1, <2>2 DEF FramesRight, Directions
  <1> QED
      BY <1>5, <1>7, <1>8 DEF SmpInv

\* The frames are counted.
LEMMA ReceivedInv == ASSUME SmpInv, BusReceived PROVE SmpInv'
  <1>a. PICK R \in Rings, n \in Nat : R = ring["rx"] /\ n = bus.n
      BY Parts DEF Directions
  <1>1. PICK Q : R = ring["rx"] /\ n = bus.n /\ Q = Written(R, n)
      BY <1>a
  <1>2. /\ bus.pc = "received" /\ UNCHANGED <<smpKind, caller, isrCmd, isrChan>>
        /\ ring' = [ring EXCEPT !["rx"] = Q] /\ bus' = [pc |-> "rx_check", n |-> 0]
      BY <1>1 DEF BusReceived, BusGoto
  <1>3. /\ Q \in Rings /\ Q.required = R.required /\ Q.blocked = R.blocked /\ Q.sem = R.sem
        /\ \A b \in Nat : RingRight(R, n, b) =>
              Available(Q) = Available(R) + n /\ RingRight(Q, 0, b)
      BY <1>1, RingWritten
  <1>4. SmpTypes'
    <2>1. ring' \in [Directions -> Rings]
        BY <1>2, <1>3 DEF SmpInv, SmpTypes
    <2>2. bus' \in [pc : {"receive", "received", "rx_check", "send", "sent", "tx_check"}, n : Nat]
        BY <1>2
    <2> QED
        BY <1>2, <2>1, <2>2 DEF SmpInv, SmpTypes
  <1>5. ring'["tx"] = ring["tx"] /\ ring'["rx"] = Q
      BY <1>2 DEF SmpInv, SmpTypes, Directions
  <1>6. WakesRight' /\ CallsRight'
      BY <1>1, <1>2, <1>3, <1>5, WakesKept DEF Directions
  <1>7. ASSUME FramesRight PROVE FramesRight'
    <2>1. FrameRight("tx")'
      <3>1. FrameRight("tx") /\ StoredBy("tx")' = StoredBy("tx") /\ TakenBy("tx")' = TakenBy("tx")
          BY <1>2, <1>7 DEF FramesRight, Directions, StoredBy, TakenBy, Uncounted
      <3> QED
          BY <1>2, <1>5, <3>1, Untouched DEF Directions
    <2>2. FrameRight("rx")'
      <3>1. /\ StoredBy("rx") = n /\ StoredBy("rx")' = 0
            /\ TakenBy("rx")' = TakenBy("rx") /\ TakenBy("rx") \in Nat
            /\ FrameRight("rx")
          BY <1>1, <1>2, <1>7, Parts
             DEF FramesRight, Directions, StoredBy, TakenBy, Uncounted
      <3>2. RingRight(R, n, TakenBy("rx")) /\ RoomRight("rx")
          BY <1>1, <3>1 DEF FrameRight
      <3>3. Available(Q) = Available(R) + n /\ RingRight(Q, 0, TakenBy("rx"))
          BY <1>3, <3>1, <3>2
      <3>4. Available(R) \in Nat /\ caller["rx"].count \in Nat
          BY AvailableIs, Parts DEF Directions
      <3>5. caller["rx"].count <= Available(R) => caller["rx"].count <= Available(Q)
          BY ONLY <3>3, <3>4, n \in Nat
      <3>6. RoomRight("rx")'
          BY <1>1, <1>2, <1>3, <1>5, <3>2, <3>5 DEF RoomRight, Room
      <3> QED
          BY <1>5, <3>1, <3>3, <3>6 DEF FrameRight
    <2> QED
        BY <2>1, <2>2 DEF FramesRight, Directions
  <1> QED
      BY <1>4, <1>6, <1>7 DEF SmpInv

\* Flags do not matter to the frames.
LEMMA FlagsOnly ==
  ASSUME NEW r \in Rings, NEW q \in Rings,
         q.buf = r.buf, q.write_index = r.write_index, q.read_index = r.read_index,
         q.total_written = r.total_written, q.total_read = r.total_read, q.intact = r.intact
  PROVE  /\ Available(q) = Available(r) /\ Free(q) = Free(r)
         /\ \A a, b \in Nat : RingRight(r, a, b) => RingRight(q, a, b)
  <1>1. Available(q) = Available(r) /\ Free(q) = Free(r)
      BY DEF Available, Free
  <1> QED
      BY <1>1 DEF RingRight, FramesFrom

\* A task is woken when it finds the frames that it required.
LEMMA ReceiveCheckInv == ASSUME SmpInv, BusReceiveCheck PROVE SmpInv'
  <1>1. PICK R \in Rings, resume \in BOOLEAN : R = ring["rx"] /\ resume = RequiredReceived(R)
      BY Parts DEF Directions, RequiredReceived
  <1> DEFINE sem == IF smpKind = "mic" THEN 1 ELSE R.sem
  <1>2. PICK Q \in Rings : Q = IF resume THEN [R EXCEPT !.required = 0, !.sem = sem] ELSE R
      BY DEF Rings
  <1>3. /\ Q.buf = R.buf /\ Q.write_index = R.write_index /\ Q.read_index = R.read_index
        /\ Q.total_written = R.total_written /\ Q.total_read = R.total_read
        /\ Q.intact = R.intact /\ Q.blocked = R.blocked
        /\ resume => Q.required = 0 /\ Q.sem = sem
        /\ ~ resume => Q.required = R.required /\ Q.sem = R.sem
      BY <1>2 DEF Rings
  <1>4. /\ bus.pc = "rx_check" /\ UNCHANGED <<smpKind, caller>>
        /\ ring' = [ring EXCEPT !["rx"] = Q]
        /\ isrCmd' = IF resume /\ "tx" \in Dirs THEN isrCmd \cup {"rx"} ELSE isrCmd
        /\ isrChan' = IF resume /\ smpKind = "input" THEN Append(isrChan, {"rx"}) ELSE isrChan
        /\ bus'.pc \in {"send", "receive"} /\ bus' = [pc |-> bus'.pc, n |-> 0]
    <2>1. ring' = IF resume THEN [ring EXCEPT !["rx"].required = 0, !["rx"].sem = sem] ELSE ring
        BY <1>1 DEF BusReceiveCheck
    <2>2. ring' = [ring EXCEPT !["rx"] = Q]
        BY <1>1, <1>2, <2>1 DEF SmpInv, SmpTypes, Directions
    <2> QED
        BY <1>1, <2>2 DEF BusReceiveCheck, BusGoto
  <1>5. ring'["tx"] = ring["tx"] /\ ring'["rx"] = Q
      BY <1>4 DEF SmpInv, SmpTypes, Directions
  <1>6. SmpTypes'
    <2>1. ring' \in [Directions -> Rings]
        BY <1>4 DEF SmpInv, SmpTypes
    <2>2. bus' \in [pc : {"receive", "received", "rx_check", "send", "sent", "tx_check"}, n : Nat]
        BY <1>4
    <2>3. isrCmd' \in SUBSET Directions
        BY <1>4 DEF SmpInv, SmpTypes, Directions
    <2>4. isrChan' \in Seq(SUBSET Directions)
      <3>1. isrChan \in Seq(SUBSET Directions) /\ {"rx"} \in SUBSET Directions
          BY DEF SmpInv, SmpTypes, Directions
      <3> QED
          BY <1>4, <3>1
    <2> QED
        BY <1>4, <2>1, <2>2, <2>3, <2>4 DEF SmpInv, SmpTypes
  <1>7. Dirs' = Dirs /\ Dirs \subseteq Directions /\ "rx" \in Dirs
      BY <1>4 DEF Dirs, Directions
  <1>8. CallsRight'
    <2>1. \A d \in Dirs : ring'[d].blocked = ring[d].blocked
        BY <1>1, <1>3, <1>5, <1>7 DEF Directions
    <2> QED
        BY <1>4, <1>7, <2>1 DEF SmpInv, CallsRight
  <1>9. WakesRight'
    <2>1. ASSUME NEW d \in Dirs PROVE Ways(d)' = Ways(d)
      <3>1. /\ isrChan \in Seq(SUBSET Directions) /\ {"rx"} \in SUBSET Directions
            /\ Commands(isrChan, d) \in Nat
            /\ Commands(Append(isrChan, {"rx"}), d)
                 = Commands(isrChan, d) + (IF d \in {"rx"} THEN 1 ELSE 0)
        <4>1. isrChan \in Seq(SUBSET Directions) /\ {"rx"} \in SUBSET Directions
            BY DEF SmpInv, SmpTypes, Directions
        <4> QED
            BY <4>1, CommandsMove
      <3>2. CASE ~ resume \/ d # "rx"
        <4>1. ring'[d].required = ring[d].required /\ ring'[d].sem = ring[d].sem
            BY <1>1, <1>3, <1>5, <1>7, <3>2 DEF Directions
        <4>2. (d \in isrCmd') = (d \in isrCmd) /\ Commands(isrChan', d) = Commands(isrChan, d)
            BY <1>4, <3>1, <3>2
        <4> QED
            BY <4>1, <4>2 DEF Ways
      <3>3. CASE resume /\ d = "rx"
        <4>1. R.required > 0 /\ R.required \in Nat /\ R.sem \in {0, 1}
            BY <1>1, <3>3 DEF RequiredReceived, Rings
        <4>2. Ways("rx") \in {0, 1}
            BY <1>7 DEF SmpInv, WakesRight, Count
        <4>3. R.sem = 0 /\ "rx" \notin isrCmd /\ Commands(isrChan, "rx") = 0 /\ Ways("rx") = 1
            BY <1>1, <3>1, <3>3, <4>1, <4>2 DEF Ways, Count
        <4>4. Q.required = 0 /\ Q.sem = IF smpKind = "mic" THEN 1 ELSE 0
            BY <1>3, <3>3, <4>3
        <4>5. ("tx" \in Dirs) = (smpKind \notin {"mic", "input"})
            BY DEF Dirs
        <4>6. CASE smpKind = "mic"
          <5>1. isrCmd' = isrCmd /\ isrChan' = isrChan
              BY <1>4, <4>5, <4>6
          <5> QED
              BY <1>5, <3>3, <4>3, <4>4, <4>6, <5>1 DEF Ways, Count
        <4>7. CASE smpKind = "input"
          <5>1. isrCmd' = isrCmd /\ Commands(isrChan', "rx") = 1
              BY <1>4, <3>1, <3>3, <4>3, <4>5, <4>7
          <5> QED
              BY <1>5, <3>3, <4>3, <4>4, <4>7, <5>1 DEF Ways, Count
        <4>8. CASE smpKind \notin {"mic", "input"}
          <5>1. "rx" \in isrCmd' /\ isrChan' = isrChan
              BY <1>4, <3>3, <4>5, <4>8
          <5> QED
              BY <1>5, <3>3, <4>3, <4>4, <4>8, <5>1 DEF Ways, Count
        <4> QED
            BY <4>6, <4>7, <4>8
      <3> QED
          BY <3>2, <3>3
    <2>2. \A d \in Dirs : ring'[d].blocked = ring[d].blocked
        BY <1>1, <1>3, <1>5, <1>7 DEF Directions
    <2> QED
        BY <1>7, <2>1, <2>2 DEF SmpInv, WakesRight
  <1>10. ASSUME FramesRight PROVE FramesRight'
    <2>1. FrameRight("tx")'
      <3>1. FrameRight("tx") /\ StoredBy("tx")' = StoredBy("tx") /\ TakenBy("tx")' = TakenBy("tx")
          BY <1>4, <1>10 DEF FramesRight, Directions, StoredBy, TakenBy, Uncounted
      <3> QED
          BY <1>4, <1>5, <3>1, Untouched DEF Directions
    <2>2. FrameRight("rx")'
      <3>1. /\ StoredBy("rx") = 0 /\ StoredBy("rx")' = 0
            /\ TakenBy("rx")' = TakenBy("rx") /\ TakenBy("rx") \in Nat
            /\ FrameRight("rx")
          BY <1>4, <1>10, Parts
             DEF FramesRight, Directions, StoredBy, TakenBy, Uncounted
      <3>2. RingRight(R, 0, TakenBy("rx")) /\ RoomRight("rx")
          BY <1>1, <3>1 DEF FrameRight
      <3>3. RingRight(Q, 0, TakenBy("rx")) /\ Available(Q) = Available(R)
          BY <1>3, <3>1, <3>2, FlagsOnly
      <3>4. RoomRight("rx")'
        <4>1. R.required \in Nat /\ Available(R) \in Nat /\ caller["rx"].count \in Nat
            BY AvailableIs, Parts DEF Rings, Directions
        <4>2. ASSUME resume PROVE R.required > 0 /\ Available(R) >= R.required
            BY <1>1, <4>2 DEF RequiredReceived
        <4>3. ASSUME R.blocked, resume PROVE caller["rx"].count <= Available(Q)
            BY <1>1, <3>2, <3>3, <4>1, <4>2, <4>3 DEF RoomRight
        <4> QED
            BY <1>1, <1>3, <1>4, <1>5, <3>2, <3>3, <4>3 DEF RoomRight, Room
      <3> QED
          BY <1>5, <3>1, <3>3, <3>4 DEF FrameRight
    <2> QED
        BY <2>1, <2>2 DEF FramesRight, Directions
  <1> QED
      BY <1>6, <1>8, <1>9, <1>10 DEF SmpInv

\* Frames leave for the bus, or a filter takes none.
LEMMA SendInv == ASSUME SmpInv, BusSend PROVE SmpInv'
  <1>1. PICK T \in Rings : T = ring["tx"]
      BY Parts DEF Directions
  <1>2. PICK n \in 0..RingSize - T.read_index :
           /\ n <= Available(T)
           /\ ring' = [ring EXCEPT !["tx"] = IF n > 0 THEN Taken(T, n) ELSE T]
           /\ bus' = [pc |-> "sent", n |-> n]
      BY <1>1 DEF BusSend, BusGoto
  <1>3. n \in Nat
      BY SampleAssumption, AreNumbers DEF Rings
  <1>4. PICK Q : Q = IF n > 0 THEN Taken(T, n) ELSE T
      OBVIOUS
  <1>5. /\ bus.pc = "send" /\ UNCHANGED <<smpKind, caller, isrCmd, isrChan>>
        /\ ring' = [ring EXCEPT !["tx"] = Q] /\ bus' = [pc |-> "sent", n |-> n]
      BY <1>2, <1>4 DEF BusSend
  <1>6. /\ Q \in Rings /\ Available(Q) = Available(T)
        /\ Q.required = T.required /\ Q.blocked = T.blocked /\ Q.sem = T.sem
        /\ \A a \in Nat : RingRight(T, a, 0) => RingRight(Q, a, n)
    <2>1. CASE n > 0
        BY <1>2, <1>3, <1>4, <2>1, RingTaken
    <2>2. CASE n = 0
        BY <1>4, <2>2
    <2> QED
        BY <1>3, <2>1, <2>2
  <1>7. SmpTypes'
    <2>1. ring' \in [Directions -> Rings]
        BY <1>5, <1>6 DEF SmpInv, SmpTypes
    <2>2. bus' \in [pc : {"receive", "received", "rx_check", "send", "sent", "tx_check"}, n : Nat]
        BY <1>3, <1>5
    <2> QED
        BY <1>5, <2>1, <2>2 DEF SmpInv, SmpTypes
  <1>8. ring'["rx"] = ring["rx"] /\ ring'["tx"] = Q
      BY <1>5 DEF SmpInv, SmpTypes, Directions
  <1>9. WakesRight' /\ CallsRight'
      BY <1>1, <1>5, <1>6, <1>8, WakesKept DEF Directions
  <1>10. ASSUME FramesRight PROVE FramesRight'
    <2>1. FrameRight("rx")'
      <3>1. FrameRight("rx") /\ StoredBy("rx")' = StoredBy("rx") /\ TakenBy("rx")' = TakenBy("rx")
          BY <1>5, <1>10 DEF FramesRight, Directions, StoredBy, TakenBy, Uncounted
      <3> QED
          BY <1>5, <1>8, <3>1, Untouched DEF Directions
    <2>2. FrameRight("tx")'
      <3>1. /\ TakenBy("tx") = 0 /\ TakenBy("tx")' = n
            /\ StoredBy("tx")' = StoredBy("tx") /\ StoredBy("tx") \in Nat
            /\ FrameRight("tx")
          BY <1>5, <1>10, Parts
             DEF FramesRight, Directions, StoredBy, TakenBy, Uncounted
      <3>2. RingRight(T, StoredBy("tx"), 0) /\ RoomRight("tx")
          BY <1>1, <3>1 DEF FrameRight
      <3>3. RingRight(Q, StoredBy("tx"), n) /\ Free(Q) = Free(T)
          BY <1>6, <3>1, <3>2 DEF Free
      <3>4. RoomRight("tx")'
          BY <1>1, <1>5, <1>6, <1>8, <3>2, <3>3 DEF RoomRight, Room
      <3> QED
          BY <1>8, <3>1, <3>3, <3>4 DEF FrameRight
    <2> QED
        BY <2>1, <2>2 DEF FramesRight, Directions
  <1> QED
      BY <1>7, <1>9, <1>10 DEF SmpInv

\* They are counted as read.
LEMMA SentInv == ASSUME SmpInv, BusSent PROVE SmpInv'
  <1>a. PICK T \in Rings, n \in Nat : T = ring["tx"] /\ n = bus.n
      BY Parts DEF Directions
  <1>1. PICK Q : T = ring["tx"] /\ n = bus.n /\ Q = Read(T, n)
      BY <1>a
  <1>2. /\ bus.pc = "sent" /\ UNCHANGED <<smpKind, caller, isrCmd, isrChan>>
        /\ ring' = [ring EXCEPT !["tx"] = Q] /\ bus' = [pc |-> "tx_check", n |-> 0]
      BY <1>1 DEF BusSent, BusGoto
  <1>3. /\ Q \in Rings /\ Q.required = T.required /\ Q.blocked = T.blocked /\ Q.sem = T.sem
        /\ \A a \in Nat : RingRight(T, a, n) =>
              Available(Q) = Available(T) - n /\ RingRight(Q, a, 0)
      BY <1>1, RingRead
  <1>4. SmpTypes'
    <2>1. ring' \in [Directions -> Rings]
        BY <1>2, <1>3 DEF SmpInv, SmpTypes
    <2>2. bus' \in [pc : {"receive", "received", "rx_check", "send", "sent", "tx_check"}, n : Nat]
        BY <1>2
    <2> QED
        BY <1>2, <2>1, <2>2 DEF SmpInv, SmpTypes
  <1>5. ring'["rx"] = ring["rx"] /\ ring'["tx"] = Q
      BY <1>2 DEF SmpInv, SmpTypes, Directions
  <1>6. WakesRight' /\ CallsRight'
      BY <1>1, <1>2, <1>3, <1>5, WakesKept DEF Directions
  <1>7. ASSUME FramesRight PROVE FramesRight'
    <2>1. FrameRight("rx")'
      <3>1. FrameRight("rx") /\ StoredBy("rx")' = StoredBy("rx") /\ TakenBy("rx")' = TakenBy("rx")
          BY <1>2, <1>7 DEF FramesRight, Directions, StoredBy, TakenBy, Uncounted
      <3> QED
          BY <1>2, <1>5, <3>1, Untouched DEF Directions
    <2>2. FrameRight("tx")'
      <3>1. /\ TakenBy("tx") = n /\ TakenBy("tx")' = 0
            /\ StoredBy("tx")' = StoredBy("tx") /\ StoredBy("tx") \in Nat
            /\ FrameRight("tx")
          BY <1>1, <1>2, <1>7, Parts
             DEF FramesRight, Directions, StoredBy, TakenBy, Uncounted
      <3>2. RingRight(T, StoredBy("tx"), n) /\ RoomRight("tx")
          BY <1>1, <3>1 DEF FrameRight
      <3>3. Available(Q) = Available(T) - n /\ RingRight(Q, StoredBy("tx"), 0)
          BY <1>3, <3>1, <3>2
      <3>4. caller["tx"].count <= Free(T) => caller["tx"].count <= Free(Q)
        <4>1. /\ Available(T) \in Nat /\ Available(Q) \in Nat /\ caller["tx"].count \in Nat
              /\ RingSize \in Nat /\ StoredBy("tx") \in Nat
            BY <1>3, <3>1, AvailableIs, Parts, SampleAssumption DEF Directions
        <4>2. Available(T) + StoredBy("tx") <= RingSize
            BY <3>2 DEF RingRight
        <4>3. Available(T) <= RingSize /\ Available(Q) <= RingSize
            BY ONLY <3>3, <4>1, <4>2, n \in Nat
        <4>4. Free(T) = RingSize - Available(T) /\ Free(Q) = RingSize - Available(Q)
            BY <1>3, <4>3, AvailableIs
        <4> QED
            BY ONLY <3>3, <4>1, <4>4, n \in Nat
      <3>5. RoomRight("tx")'
          BY <1>1, <1>2, <1>3, <1>5, <3>2, <3>4 DEF RoomRight, Room
      <3> QED
          BY <1>5, <3>1, <3>3, <3>5 DEF FrameRight
    <2> QED
        BY <2>1, <2>2 DEF FramesRight, Directions
  <1> QED
      BY <1>4, <1>6, <1>7 DEF SmpInv

\* The commands of both callbacks go to the routine.
LEMMA SendCheckInv == ASSUME SmpInv, BusSendCheck PROVE SmpInv'
  <1>a. PICK T \in Rings, resume \in BOOLEAN :
           T = ring["tx"] /\ resume = (T.required > 0 /\ Free(T) >= T.required)
      BY Parts DEF Directions
  <1>1. PICK command :
           /\ T = ring["tx"] /\ resume = (T.required > 0 /\ Free(T) >= T.required)
           /\ command = isrCmd \cup (IF resume THEN {"tx"} ELSE {})
      BY <1>a
  <1>2. PICK Q \in Rings : Q = IF resume THEN [T EXCEPT !.required = 0] ELSE T
      BY DEF Rings
  <1>3. /\ Q.buf = T.buf /\ Q.write_index = T.write_index /\ Q.read_index = T.read_index
        /\ Q.total_written = T.total_written /\ Q.total_read = T.total_read
        /\ Q.intact = T.intact /\ Q.blocked = T.blocked /\ Q.sem = T.sem
        /\ Q.required = IF resume THEN 0 ELSE T.required
      BY <1>2 DEF Rings
  <1>4. /\ bus.pc = "tx_check" /\ UNCHANGED <<smpKind, caller>>
        /\ ring' = [ring EXCEPT !["tx"] = Q]
        /\ isrChan' = IF command # {} THEN Append(isrChan, command) ELSE isrChan
        /\ isrCmd' = {} /\ bus' = [pc |-> "receive", n |-> 0]
    <2>1. /\ ring' = IF resume THEN [ring EXCEPT !["tx"].required = 0] ELSE ring
          /\ Command(resume) = command
        BY <1>1 DEF BusSendCheck, Command
    <2>2. ring' = [ring EXCEPT !["tx"] = Q]
        BY <1>1, <1>2, <2>1 DEF SmpInv, SmpTypes, Directions
    <2> QED
        BY <1>1, <2>1, <2>2 DEF BusSendCheck, BusGoto
  <1>5. ring'["rx"] = ring["rx"] /\ ring'["tx"] = Q
      BY <1>4 DEF SmpInv, SmpTypes, Directions
  <1>6. isrChan \in Seq(SUBSET Directions) /\ command \in SUBSET Directions
      BY <1>1 DEF SmpInv, SmpTypes, Directions
  <1>7. SmpTypes'
    <2>1. ring' \in [Directions -> Rings]
        BY <1>4 DEF SmpInv, SmpTypes
    <2>2. bus' \in [pc : {"receive", "received", "rx_check", "send", "sent", "tx_check"}, n : Nat]
        BY <1>4
    <2>3. isrCmd' \in SUBSET Directions /\ isrChan' \in Seq(SUBSET Directions)
        BY <1>4, <1>6
    <2> QED
        BY <1>4, <2>1, <2>2, <2>3 DEF SmpInv, SmpTypes
  <1>8. /\ Dirs' = Dirs /\ Dirs \subseteq Directions
        /\ \A d \in Dirs : ring'[d].blocked = ring[d].blocked /\ ring'[d].sem = ring[d].sem
      BY <1>1, <1>3, <1>4, <1>5 DEF Dirs, Directions
  <1>9. CallsRight'
      BY <1>4, <1>8 DEF SmpInv, CallsRight
  <1>10. WakesRight'
    <2>1. ASSUME NEW d \in Dirs PROVE Ways(d)' = Ways(d)
      <3>1. /\ Commands(isrChan, d) \in Nat
            /\ Commands(isrChan', d) = Commands(isrChan, d) + Count(d \in command)
        <4>1. /\ Commands(isrChan, d) \in Nat
              /\ Commands(Append(isrChan, command), d)
                   = Commands(isrChan, d) + (IF d \in command THEN 1 ELSE 0)
          <5>1. \A c \in SUBSET Directions :
                   Commands(Append(isrChan, c), d) = Commands(isrChan, d) + (IF d \in c THEN 1 ELSE 0)
              BY <1>6, CommandsMove
          <5>2. Commands(isrChan, d) \in Nat
              BY <1>6, CommandsMove
          <5> QED
              BY <1>6, <5>1, <5>2
        <4>2. CASE command = {}
            BY <1>4, <4>1, <4>2 DEF Count
        <4>3. CASE command # {}
            BY <1>4, <4>1, <4>3 DEF Count
        <4> QED
            BY <4>2, <4>3
      <3>2. CASE d = "tx" /\ resume
        <4>1. T.required > 0 /\ T.required \in Nat /\ T.sem \in {0, 1}
            BY <1>1, <3>2 DEF Rings
        <4>2. Ways("tx") \in {0, 1}
            BY <3>2 DEF SmpInv, WakesRight, Count
        <4>3. T.sem = 0 /\ "tx" \notin isrCmd /\ Commands(isrChan, "tx") = 0 /\ Ways("tx") = 1
            BY <1>1, <3>1, <3>2, <4>1, <4>2 DEF Ways, Count
        <4>4. Commands(isrChan', "tx") = 1 /\ "tx" \notin isrCmd'
            BY <1>1, <1>4, <3>1, <3>2, <4>3 DEF Count
        <4> QED
            BY <1>3, <1>5, <3>2, <4>3, <4>4 DEF Ways, Count
      <3>3. CASE ~ (d = "tx" /\ resume)
        <4>1. (d \in command) = (d \in isrCmd)
            BY <1>1, <3>3
        <4>2. ring'[d].required = ring[d].required
            BY <1>1, <1>3, <1>5, <1>8, <3>3 DEF Directions
        <4>3. ring[d].sem \in {0, 1}
            BY <1>8, Parts DEF Rings
        <4> QED
            BY <1>4, <1>8, <3>1, <4>1, <4>2, <4>3 DEF Ways, Count
      <3> QED
          BY <3>2, <3>3
    <2> QED
        BY <1>8, <2>1 DEF SmpInv, WakesRight
  <1>11. ASSUME FramesRight PROVE FramesRight'
    <2>1. FrameRight("rx")'
      <3>1. FrameRight("rx") /\ StoredBy("rx")' = StoredBy("rx") /\ TakenBy("rx")' = TakenBy("rx")
          BY <1>4, <1>11 DEF FramesRight, Directions, StoredBy, TakenBy, Uncounted
      <3> QED
          BY <1>4, <1>5, <3>1, Untouched DEF Directions
    <2>2. FrameRight("tx")'
      <3>1. /\ TakenBy("tx") = 0 /\ TakenBy("tx")' = 0
            /\ StoredBy("tx")' = StoredBy("tx") /\ StoredBy("tx") \in Nat
            /\ FrameRight("tx")
          BY <1>4, <1>11, Parts
             DEF FramesRight, Directions, StoredBy, TakenBy, Uncounted
      <3>2. RingRight(T, StoredBy("tx"), 0) /\ RoomRight("tx")
          BY <1>1, <3>1 DEF FrameRight
      <3>3. RingRight(Q, StoredBy("tx"), 0) /\ Free(Q) = Free(T)
          BY <1>3, <3>1, <3>2, FlagsOnly
      <3>4. RoomRight("tx")'
        <4>1. T.required \in Nat /\ Free(T) \in Nat /\ caller["tx"].count \in Nat
            BY AvailableIs, Parts DEF Rings, Directions
        <4>2. ASSUME resume PROVE T.required > 0 /\ Free(T) >= T.required
            BY <1>1, <4>2
        <4>3. ASSUME T.blocked, resume PROVE caller["tx"].count <= Free(Q)
            BY <1>1, <3>2, <3>3, <4>1, <4>2, <4>3 DEF RoomRight
        <4> QED
            BY <1>1, <1>3, <1>4, <1>5, <3>2, <3>3, <4>3 DEF RoomRight, Room
      <3> QED
          BY <1>5, <3>1, <3>3, <3>4 DEF FrameRight
    <2> QED
        BY <2>1, <2>2 DEF FramesRight, Directions
  <1> QED
      BY <1>7, <1>9, <1>10, <1>11 DEF SmpInv

\* A command resumes its directions.
LEMMA IsrInv == ASSUME SmpInv, I2sIsr PROVE SmpInv'
  <1>1. PICK command \in SUBSET Directions : command = Head(isrChan)
    <2>1. isrChan \in Seq(SUBSET Directions) /\ isrChan # <<>>
        BY DEF SmpInv, SmpTypes, I2sIsr
    <2> QED
        BY <2>1, CommandsMove
  <1> DEFINE Q(d) == IF d \in command THEN [ring[d] EXCEPT !.sem = 1] ELSE ring[d]
  <1>2. /\ isrChan # <<>> /\ isrChan' = Tail(isrChan)
        /\ ring' = [d \in Directions |-> Q(d)] /\ UNCHANGED <<smpKind, bus, caller, isrCmd>>
      BY <1>1 DEF I2sIsr, Directions
  <1>3. ASSUME NEW d \in Directions
        PROVE  /\ ring'[d] \in Rings
               /\ ring'[d].buf = ring[d].buf /\ ring'[d].write_index = ring[d].write_index
               /\ ring'[d].read_index = ring[d].read_index
               /\ ring'[d].total_written = ring[d].total_written
               /\ ring'[d].total_read = ring[d].total_read
               /\ ring'[d].intact = ring[d].intact /\ ring'[d].blocked = ring[d].blocked
               /\ ring'[d].required = ring[d].required
               /\ ring'[d].sem = IF d \in command THEN 1 ELSE ring[d].sem
    <2>1. ring[d] \in Rings /\ ring'[d] = Q(d)
        BY <1>2, Parts
    <2> QED
        BY <2>1 DEF Rings
  <1>4. /\ isrChan \in Seq(SUBSET Directions) /\ isrChan' \in Seq(SUBSET Directions)
        /\ \A d \in Directions :
              /\ Commands(isrChan, d) \in Nat /\ Commands(isrChan', d) \in Nat
              /\ Commands(isrChan', d) = Commands(isrChan, d) - Count(d \in command)
    <2>1. isrChan \in Seq(SUBSET Directions) /\ isrChan # <<>>
        BY <1>2 DEF SmpInv, SmpTypes
    <2>2. isrChan' \in Seq(SUBSET Directions)
        BY <1>2, <2>1, CommandsMove
    <2> QED
        BY ZenonT(60), <1>1, <1>2, <2>1, <2>2, CommandsMove DEF Count
  <1>5. SmpTypes'
    <2>1. ring' \in [Directions -> Rings]
        BY <1>2, <1>3
    <2> QED
        BY <1>2, <1>4, <2>1 DEF SmpInv, SmpTypes
  <1>6. Dirs' = Dirs /\ Dirs \subseteq Directions
      BY <1>2 DEF Dirs, Directions
  <1>7. CallsRight'
      BY <1>2, <1>3, <1>6 DEF SmpInv, CallsRight
  <1>8. WakesRight'
    <2>1. ASSUME NEW d \in Dirs PROVE Ways(d)' = Ways(d)
      <3>1. d \in Directions /\ ring[d].required \in Nat /\ ring[d].sem \in {0, 1}
          BY <1>6, Parts DEF Rings
      <3>2. CASE d \in command
        <4>1. Ways(d) \in {0, 1}
            BY DEF SmpInv, WakesRight, Count
        <4>2. Commands(isrChan, d) = 1 /\ Commands(isrChan', d) = 0
              /\ ring[d].sem = 0 /\ ring'[d].sem = 1
            BY <1>3, <1>4, <3>1, <3>2, <4>1 DEF Ways, Count
        <4> QED
            BY <1>2, <1>3, <3>1, <4>2 DEF Ways, Count
      <3>3. CASE d \notin command
        <4>1. Commands(isrChan', d) = Commands(isrChan, d)
            BY <1>4, <3>1, <3>3 DEF Count
        <4> QED
            BY <1>2, <1>3, <3>1, <3>3, <4>1 DEF Ways
      <3> QED
          BY <3>2, <3>3
    <2> QED
        BY <1>3, <1>6, <2>1 DEF SmpInv, WakesRight
  <1>9. ASSUME FramesRight PROVE FramesRight'
    <2>1. ASSUME NEW d \in Directions PROVE FrameRight(d)'
      <3>1. /\ StoredBy(d)' = StoredBy(d) /\ TakenBy(d)' = TakenBy(d) /\ FrameRight(d)
            /\ StoredBy(d) \in Nat /\ TakenBy(d) \in Nat /\ ring[d] \in Rings
          BY <1>2, <1>9, Parts DEF FramesRight, StoredBy, TakenBy
      <3>2. RingRight(ring[d], StoredBy(d), TakenBy(d)) /\ RoomRight(d)
          BY <3>1 DEF FrameRight
      <3>3. PICK r \in Rings, q \in Rings : r = ring[d] /\ q = ring'[d]
          BY <1>3, <3>1
      <3>4. /\ RingRight(q, StoredBy(d), TakenBy(d))
            /\ Available(q) = Available(r) /\ Free(q) = Free(r)
          BY <1>3, <3>1, <3>2, <3>3, FlagsOnly
      <3>5. RoomRight(d)'
          BY <1>2, <1>3, <3>2, <3>3, <3>4 DEF RoomRight, Room
      <3> QED
          BY <3>1, <3>3, <3>4, <3>5 DEF FrameRight
    <2> QED
        BY <2>1 DEF FramesRight
  <1> QED
      BY <1>5, <1>7, <1>8, <1>9 DEF SmpInv

\* A step of a call: what has to be said of its own direction.
LEMMA CallerStep ==
  ASSUME SmpInv, NEW d \in Dirs, NEW q \in Rings,
         NEW c \in [pc : {"idle", "look", "require", "wait", "copy", "count"}, count : Nat],
         UNCHANGED <<smpKind, bus, isrCmd, isrChan>>,
         ring' = [ring EXCEPT ![d] = q], caller' = [caller EXCEPT ![d] = c],
         Count(q.required > 0) + q.sem - Count(q.blocked)
            = Count(ring[d].required > 0) + ring[d].sem - Count(ring[d].blocked),
         c.pc \in {"look", "require", "copy", "count"} => ~ q.blocked,
         c.pc = "wait" => q.blocked,
         c.pc = "require" => c.count > 0,
         SameRetry /\ FrameRight(d) => FrameRight(d)'
  PROVE  SmpInv'
  <1>1. Dirs' = Dirs /\ Dirs \subseteq Directions /\ d \in Directions
      BY DEF Dirs, Directions
  <1>2. /\ ring'[d] = q /\ caller'[d] = c
        /\ \A e \in Directions \ {d} : ring'[e] = ring[e] /\ caller'[e] = caller[e]
      BY <1>1 DEF SmpInv, SmpTypes
  <1>3. SmpTypes'
      BY <1>1 DEF SmpInv, SmpTypes
  <1>4. CallsRight'
      BY <1>1, <1>2 DEF SmpInv, CallsRight
  <1>5. WakesRight'
    <2>1. ASSUME NEW e \in Dirs PROVE (Ways(e) = Count(ring[e].blocked))'
      <3>1. /\ Ways(e) = Count(ring[e].blocked) /\ isrChan \in Seq(SUBSET Directions)
            /\ Commands(isrChan, e) \in Nat
          BY CommandsMove DEF SmpInv, SmpTypes, WakesRight
      <3>2. CASE e = d
        <4>1. q.sem \in {0, 1} /\ ring[d].sem \in {0, 1}
            BY <1>1, Parts DEF Rings
        <4>2. \A b : Count(b) \in {0, 1}
            BY DEF Count
        <4>3. /\ Ways(e)' = Count(q.required > 0) + Count(e \in isrCmd) + Commands(isrChan, e) + q.sem
              /\ ring'[e].blocked = q.blocked
            BY <1>2, <3>2 DEF Ways
        <4>4. Ways(e) = Count(ring[d].required > 0) + Count(e \in isrCmd)
                          + Commands(isrChan, e) + ring[d].sem
            BY <3>2 DEF Ways
        <4>5. PICK a \in {0, 1}, b \in {0, 1}, m \in {0, 1}, n \in {0, 1}, i \in {0, 1}, k \in Nat :
                 /\ a = Count(q.required > 0) /\ b = Count(q.blocked)
                 /\ m = Count(ring[d].required > 0) /\ n = Count(ring[d].blocked)
                 /\ i = Count(e \in isrCmd) /\ k = Commands(isrChan, e)
            BY <3>1, <4>2
        <4>6. a + q.sem - b = m + ring[d].sem - n /\ Ways(e)' = a + i + k + q.sem
            BY <4>3, <4>5
        <4>7. m + i + k + ring[d].sem = n
            BY <3>1, <3>2, <4>4, <4>5
        <4>8. a + i + k + q.sem = b
          <5>1. PICK x \in {0, 1}, y \in {0, 1} : x = q.sem /\ y = ring[d].sem
              BY <4>1
          <5>2. a + x - b = m + y - n /\ m + i + k + y = n
              BY <4>6, <4>7, <5>1
          <5>3. a + i + k + x = b
              BY ONLY <5>2, x \in {0, 1}, y \in {0, 1}, a \in {0, 1}, b \in {0, 1},
                      m \in {0, 1}, n \in {0, 1}, 
                      i \in {0, 1}, k \in Nat
          <5> QED
              BY <5>1, <5>3
        <4> QED
            BY <4>3, <4>5, <4>6, <4>8
      <3>3. CASE e # d
        <4>1. ring'[e] = ring[e]
            BY <1>1, <1>2, <3>3
        <4>2. Ways(e)' = Ways(e)
            BY <4>1 DEF Ways
        <4> QED
            BY <3>1, <4>1, <4>2
      <3> QED
          BY <3>2, <3>3
    <2> QED
        BY <1>1, <2>1 DEF WakesRight
  <1>6. ASSUME SameRetry PROVE FramesRight'
    <2>1. ASSUME NEW e \in Directions PROVE FrameRight(e)'
      <3>1. FrameRight(e) /\ FrameRight(d)
          BY <1>1, <1>6 DEF SmpInv, FramesRight
      <3>2. CASE e # d
        <4>1. ring'[e] = ring[e] /\ caller'[e] = caller[e] /\ UNCHANGED bus
            BY <1>2, <3>2
        <4>2. StoredBy(e)' = StoredBy(e) /\ TakenBy(e)' = TakenBy(e)
            BY <4>1 DEF StoredBy, TakenBy
        <4> QED
            BY <3>1, <4>1, <4>2, Untouched
      <3> QED
          BY <1>6, <3>1, <3>2
    <2> QED
        BY <2>1 DEF FramesRight
  <1> QED
      BY <1>3, <1>4, <1>5, <1>6 DEF SmpInv

\* A call begins, or begins again after a timeout.
LEMMA SampleCallInv == ASSUME SmpInv, NEW d \in Dirs, SampleCall(d) PROVE SmpInv'
  <1>1. /\ d \in Directions /\ ring[d] \in Rings
        /\ ring \in [Directions -> Rings]
      BY Parts DEF Dirs, Directions, SmpInv, SmpTypes
  <1>2. PICK n \in FrameCounts :
           /\ n <= RingSize /\ (ring[d].blocked /\ SameRetry => n = caller[d].count)
           /\ caller' = [caller EXCEPT ![d] =
                 [pc |-> IF ring[d].blocked THEN "wait" ELSE "look", count |-> n]]
      BY DEF SampleCall
  <1>3. n \in Nat
      BY SampleAssumption
  <1>4. PICK c \in [pc : {"wait", "look"}, count : Nat] :
           c = [pc |-> IF ring[d].blocked THEN "wait" ELSE "look", count |-> n]
    <2>1. PICK p \in {"wait", "look"} : p = IF ring[d].blocked THEN "wait" ELSE "look"
        OBVIOUS
    <2> QED
        BY <1>3, <2>1
  <1>5. PICK q \in Rings : q = ring[d]
      BY <1>1
  <1>6. /\ caller[d].pc = "idle" /\ caller' = [caller EXCEPT ![d] = c] /\ ring' = ring
        /\ ring' = [ring EXCEPT ![d] = q] /\ UNCHANGED <<smpKind, bus, isrCmd, isrChan>>
        /\ caller'[d] = c
      BY <1>1, <1>2, <1>4, <1>5 DEF SampleCall, SmpInv, SmpTypes
  <1>7. ASSUME SameRetry, FrameRight(d) PROVE FrameRight(d)'
    <2>1. StoredBy(d)' = StoredBy(d) /\ TakenBy(d)' = TakenBy(d)
        BY <1>4, <1>6 DEF StoredBy, TakenBy, Uncounted
    <2>2. RoomRight(d)'
        BY <1>2, <1>4, <1>6, <1>7 DEF FrameRight, RoomRight, Room
    <2> QED
        BY <1>6, <1>7, <2>1, <2>2 DEF FrameRight
  <1>8. /\ Count(q.required > 0) + q.sem - Count(q.blocked)
             = Count(ring[d].required > 0) + ring[d].sem - Count(ring[d].blocked)
        /\ c.pc \in {"look", "require", "copy", "count"} => ~ q.blocked
        /\ c.pc = "wait" => q.blocked
        /\ c.pc # "require"
        /\ c \in [pc : {"idle", "look", "require", "wait", "copy", "count"}, count : Nat]
      BY <1>4, <1>5
  <1> QED
      BY <1>6, <1>7, <1>8, CallerStep

\* A call that goes on keeps its count.
LEMMA CallerMoves ==
  ASSUME SmpTypes, NEW d \in Directions, NEW there, NEW c, NEW q, CallerGoto(d, there),
         c = [pc |-> there, count |-> caller[d].count]
  PROVE  /\ caller' = [caller EXCEPT ![d] = c] /\ caller'[d] = c
         /\ [ring EXCEPT ![d] = q][d] = q
  <1>1. /\ caller \in [Directions -> [pc : {"idle", "look", "require", "wait", "copy", "count"},
                                      count : Nat]]
        /\ DOMAIN ring = Directions
      BY DEF SmpTypes
  <1>2. caller' = [caller EXCEPT ![d].pc = there]
      BY DEF CallerGoto
  <1>3. [caller[d] EXCEPT !.pc = there] = c
      BY <1>1
  <1> QED
      BY <1>1, <1>2, <1>3

\* A call that leaves its ring alone and goes on to a place.
LEMMA CallerGoes ==
  ASSUME SmpInv, NEW d \in Dirs, NEW there \in {"idle", "require", "copy"},
         CallerGoto(d, there), UNCHANGED <<smpKind, ring, bus, isrCmd, isrChan>>,
         caller[d].pc \in {"look", "wait"},
         there \in {"require", "copy"} => ~ ring[d].blocked,
         there = "require" => caller[d].count > 0,
         there = "copy" => caller[d].count <= Room(d)
  PROVE  SmpInv'
  <1>1. /\ d \in Directions /\ ring[d] \in Rings /\ caller[d].count \in Nat
        /\ ring \in [Directions -> Rings]
      BY Parts DEF Dirs, Directions, SmpInv, SmpTypes
  <1>2. PICK c \in [pc : {"idle", "require", "copy"}, count : Nat] :
           c = [pc |-> there, count |-> caller[d].count]
      BY <1>1
  <1>3. PICK q \in Rings : q = ring[d]
      BY <1>1
  <1>4. /\ caller' = [caller EXCEPT ![d] = c] /\ ring' = [ring EXCEPT ![d] = q]
        /\ caller'[d] = c
      BY <1>1, <1>2, <1>3, CallerMoves DEF SmpInv
  <1>5. ASSUME FrameRight(d) PROVE FrameRight(d)'
    <2>1. StoredBy(d)' = StoredBy(d) /\ TakenBy(d)' = TakenBy(d)
        BY <1>2, <1>4 DEF StoredBy, TakenBy, Uncounted
    <2>2. RoomRight(d)'
        BY <1>2, <1>4, <1>5 DEF FrameRight, RoomRight, Room
    <2> QED
        BY <1>5, <2>1, <2>2 DEF FrameRight
  <1>6. /\ Count(q.required > 0) + q.sem - Count(q.blocked)
             = Count(ring[d].required > 0) + ring[d].sem - Count(ring[d].blocked)
        /\ c.pc \in {"look", "require", "copy", "count"} => ~ q.blocked
        /\ c.pc # "wait"
        /\ c.pc = "require" => c.count > 0
        /\ c \in [pc : {"idle", "look", "require", "wait", "copy", "count"}, count : Nat]
      BY <1>2, <1>3
  <1> QED
      BY <1>4, <1>5, <1>6, CallerStep

\* A call looks at what is there.
LEMMA SampleLookInv == ASSUME SmpInv, NEW d \in Dirs, SampleLook(d) PROVE SmpInv'
  <1>1. /\ d \in Directions /\ ring[d] \in Rings /\ caller[d].count \in Nat
        /\ Available(ring[d]) \in Nat /\ Free(ring[d]) \in Nat
      BY Parts, AvailableIs DEF Dirs, Directions
  <1>2. /\ caller[d].pc = "look" /\ UNCHANGED <<smpKind, ring, bus, isrCmd, isrChan>>
        /\ CallerGoto(d, IF caller[d].count > Room(d) THEN "require" ELSE "copy")
        /\ ~ ring[d].blocked /\ Room(d) \in Nat
      BY <1>1 DEF SampleLook, Room, SmpInv, CallsRight
  <1>3. CASE caller[d].count > Room(d)
    <2>1. CallerGoto(d, "require") /\ caller[d].count > 0
        BY <1>1, <1>2, <1>3
    <2> QED
        BY <1>2, <2>1, CallerGoes
  <1>4. CASE ~ (caller[d].count > Room(d))
    <2>1. CallerGoto(d, "copy") /\ caller[d].count <= Room(d)
        BY <1>1, <1>2, <1>4
    <2> QED
        BY <1>2, <2>1, CallerGoes
  <1> QED
      BY <1>3, <1>4

\* A call times out; its direction stays blocked.
LEMMA SampleTimeoutInv == ASSUME SmpInv, NEW d \in Dirs, SampleTimeout(d) PROVE SmpInv'
  <1>1. /\ caller[d].pc = "wait" /\ CallerGoto(d, "idle")
        /\ UNCHANGED <<smpKind, ring, bus, isrCmd, isrChan>>
      BY DEF SampleTimeout
  <1> QED
      BY <1>1, CallerGoes

\* A call says what it requires.
LEMMA SampleRequireInv == ASSUME SmpInv, NEW d \in Dirs, SampleRequire(d) PROVE SmpInv'
  <1>1. /\ d \in Directions /\ caller[d].count \in Nat /\ ring \in [Directions -> Rings]
        /\ caller \in [Directions -> [pc : {"idle", "look", "require", "wait", "copy", "count"},
                                      count : Nat]]
      BY Parts DEF Dirs, Directions, SmpInv, SmpTypes
  <1>2. PICK r \in Rings, n \in Nat : r = ring[d] /\ n = caller[d].count
      BY <1>1
  <1>3. /\ caller[d].pc = "require" /\ UNCHANGED <<smpKind, bus, isrCmd, isrChan>>
        /\ ~ r.blocked /\ n > 0
        /\ ring' = [ring EXCEPT ![d].required = n, ![d].blocked = TRUE]
        /\ CallerGoto(d, "wait")
      BY <1>2 DEF SampleRequire, SmpInv, CallsRight
  <1>4. PICK q \in Rings, c \in [pc : {"wait"}, count : Nat] :
           /\ q = [r EXCEPT !.required = n, !.blocked = TRUE]
           /\ c = [pc |-> "wait", count |-> n]
      BY DEF Rings
  <1>5. /\ q.buf = r.buf /\ q.write_index = r.write_index /\ q.read_index = r.read_index
        /\ q.total_written = r.total_written /\ q.total_read = r.total_read
        /\ q.intact = r.intact /\ q.blocked = TRUE /\ q.sem = r.sem /\ q.required = n
      BY <1>4 DEF Rings
  <1>6. /\ ring' = [ring EXCEPT ![d] = q] /\ caller' = [caller EXCEPT ![d] = c]
        /\ ring'[d] = q /\ caller'[d] = c
    <2>1. caller' = [caller EXCEPT ![d] = c] /\ caller'[d] = c
        BY <1>1, <1>2, <1>3, <1>4, CallerMoves DEF SmpInv
    <2>2. ring' = [ring EXCEPT ![d] = q]
        BY <1>1, <1>2, <1>3, <1>4
    <2> QED
        BY <1>1, <2>1, <2>2
  <1>7. /\ Ways(d) = 0 /\ Commands(isrChan, d) \in Nat
        /\ r.required \in Nat /\ r.sem \in {0, 1}
    <2>1. isrChan \in Seq(SUBSET Directions)
        BY DEF SmpInv, SmpTypes
    <2> QED
        BY <1>2, <1>3, <2>1, CommandsMove DEF SmpInv, WakesRight, Count, Rings
  <1>8. r.required = 0 /\ r.sem = 0
    <2>1. Count(r.required > 0) + Count(d \in isrCmd) + Commands(isrChan, d) + r.sem = 0
        BY <1>2, <1>7 DEF Ways
    <2>2. PICK a \in {0, 1}, b \in {0, 1} : a = Count(r.required > 0) /\ b = Count(d \in isrCmd)
        BY DEF Count
    <2>3. a = 0 /\ r.sem = 0
        BY <1>7, <2>1, <2>2
    <2> QED
        BY <1>7, <2>2, <2>3 DEF Count
  <1>9. ASSUME FrameRight(d) PROVE FrameRight(d)'
    <2>1. /\ StoredBy(d)' = StoredBy(d) /\ TakenBy(d)' = TakenBy(d)
          /\ StoredBy(d) \in Nat /\ TakenBy(d) \in Nat
        BY <1>1, <1>3, <1>4, <1>6, Parts DEF StoredBy, TakenBy, Uncounted
    <2>2. RingRight(r, StoredBy(d), TakenBy(d))
        BY <1>2, <1>9 DEF FrameRight
    <2>3. RingRight(q, StoredBy(d), TakenBy(d))
        BY <1>5, <2>1, <2>2, FlagsOnly
    <2>4. RoomRight(d)'
      <3>1. caller'[d].pc = "wait" /\ caller'[d].count = n /\ ring'[d].required = n /\ n # 0
        <4>1. c.pc = "wait" /\ c.count = n
            BY <1>4
        <4> QED
            BY <1>3, <1>5, <1>6, <4>1
      <3> QED
          BY <3>1 DEF RoomRight
    <2> QED
        BY <1>6, <2>1, <2>3, <2>4 DEF FrameRight
  <1>10. /\ Count(q.required > 0) + q.sem - Count(q.blocked)
              = Count(ring[d].required > 0) + ring[d].sem - Count(ring[d].blocked)
         /\ c.pc = "wait" /\ q.blocked
         /\ c \in [pc : {"idle", "look", "require", "wait", "copy", "count"}, count : Nat]
      BY <1>2, <1>3, <1>4, <1>5, <1>8 DEF Count
  <1> QED
      BY <1>3, <1>6, <1>9, <1>10, CallerStep

\* A call is woken.
LEMMA SampleResumeInv == ASSUME SmpInv, NEW d \in Dirs, SampleResume(d) PROVE SmpInv'
  <1>1. /\ d \in Directions /\ caller[d].count \in Nat /\ ring \in [Directions -> Rings]
        /\ caller \in [Directions -> [pc : {"idle", "look", "require", "wait", "copy", "count"},
                                      count : Nat]]
      BY Parts DEF Dirs, Directions, SmpInv, SmpTypes
  <1>2. PICK r \in Rings, n \in Nat : r = ring[d] /\ n = caller[d].count
      BY <1>1
  <1>3. /\ caller[d].pc = "wait" /\ UNCHANGED <<smpKind, bus, isrCmd, isrChan>>
        /\ r.blocked /\ r.sem = 1
        /\ ring' = [ring EXCEPT ![d].sem = 0, ![d].blocked = FALSE]
        /\ CallerGoto(d, "copy")
      BY <1>2 DEF SampleResume, SmpInv, CallsRight
  <1>4. PICK q \in Rings, c \in [pc : {"copy"}, count : Nat] :
           /\ q = [r EXCEPT !.sem = 0, !.blocked = FALSE]
           /\ c = [pc |-> "copy", count |-> n]
      BY DEF Rings
  <1>5. /\ q.buf = r.buf /\ q.write_index = r.write_index /\ q.read_index = r.read_index
        /\ q.total_written = r.total_written /\ q.total_read = r.total_read
        /\ q.intact = r.intact /\ q.blocked = FALSE /\ q.sem = 0 /\ q.required = r.required
      BY <1>4 DEF Rings
  <1>6. /\ ring' = [ring EXCEPT ![d] = q] /\ caller' = [caller EXCEPT ![d] = c]
        /\ ring'[d] = q /\ caller'[d] = c
    <2>1. caller' = [caller EXCEPT ![d] = c] /\ caller'[d] = c
        BY <1>1, <1>2, <1>3, <1>4, CallerMoves DEF SmpInv
    <2>2. ring' = [ring EXCEPT ![d] = q]
        BY <1>1, <1>2, <1>3, <1>4
    <2> QED
        BY <1>1, <2>1, <2>2
  <1>7. Ways(d) = 1 /\ Commands(isrChan, d) \in Nat /\ r.required \in Nat
    <2>1. isrChan \in Seq(SUBSET Directions)
        BY DEF SmpInv, SmpTypes
    <2> QED
        BY <1>2, <1>3, <2>1, CommandsMove DEF SmpInv, WakesRight, Count, Rings
  <1>8. r.required = 0
    <2>1. Count(r.required > 0) + Count(d \in isrCmd) + Commands(isrChan, d) + r.sem = 1
        BY <1>2, <1>7 DEF Ways
    <2> QED
        BY <1>3, <1>7, <2>1 DEF Count
  <1>9. ASSUME FrameRight(d) PROVE FrameRight(d)'
    <2>1. /\ StoredBy(d)' = StoredBy(d) /\ TakenBy(d)' = TakenBy(d)
          /\ StoredBy(d) \in Nat /\ TakenBy(d) \in Nat
        BY <1>1, <1>3, <1>4, <1>6, Parts DEF StoredBy, TakenBy, Uncounted
    <2>2. RingRight(r, StoredBy(d), TakenBy(d)) /\ RoomRight(d)
        BY <1>2, <1>9 DEF FrameRight
    <2>3. RingRight(q, StoredBy(d), TakenBy(d)) /\ Available(q) = Available(r) /\ Free(q) = Free(r)
        BY <1>5, <2>1, <2>2, FlagsOnly
    <2>4. RoomRight(d)'
      <3>1. n <= Room(d)
          BY <1>2, <1>3, <1>8, <2>2 DEF RoomRight
      <3>2. Room(d)' = Room(d)
          BY <1>2, <1>6, <2>3 DEF Room
      <3>3. caller'[d].count = n /\ ~ ring'[d].blocked
        <4>1. c.count = n
            BY <1>4
        <4> QED
            BY <1>5, <1>6, <4>1
      <3> QED
          BY <3>1, <3>2, <3>3 DEF RoomRight
    <2> QED
        BY <1>6, <2>1, <2>3, <2>4 DEF FrameRight
  <1>10. /\ Count(q.required > 0) + q.sem - Count(q.blocked)
              = Count(ring[d].required > 0) + ring[d].sem - Count(ring[d].blocked)
         /\ c.pc = "copy" /\ ~ q.blocked
         /\ c \in [pc : {"idle", "look", "require", "wait", "copy", "count"}, count : Nat]
      BY <1>2, <1>3, <1>4, <1>5, <1>8 DEF Count
  <1> QED
      BY <1>3, <1>6, <1>9, <1>10, CallerStep

\* A call copies its frames.
LEMMA SampleCopyInv == ASSUME SmpInv, NEW d \in Dirs, SampleCopy(d) PROVE SmpInv'
  <1>1. /\ d \in Directions /\ caller[d].count \in Nat /\ ring \in [Directions -> Rings]
      BY Parts DEF Dirs, Directions, SmpInv, SmpTypes
  <1>2. PICK r \in Rings, n \in Nat : r = ring[d] /\ n = caller[d].count
      BY <1>1
  <1>3. PICK q : q = IF d = "rx" THEN Taken(r, n) ELSE Stored(r, n)
      OBVIOUS
  <1>4. PICK c \in [pc : {"count"}, count : Nat] : c = [pc |-> "count", count |-> n]
      OBVIOUS
  <1>5. /\ caller[d].pc = "copy" /\ UNCHANGED <<smpKind, bus, isrCmd, isrChan>>
        /\ ring' = [ring EXCEPT ![d] = q] /\ CallerGoto(d, "count") /\ ~ r.blocked
      BY <1>1, <1>2, <1>3 DEF SampleCopy, SmpInv, CallsRight
  <1>6. /\ q \in Rings /\ Available(q) = Available(r)
        /\ q.required = r.required /\ q.blocked = r.blocked /\ q.sem = r.sem
      BY <1>3, RingTaken, RingStored
  <1>7. caller' = [caller EXCEPT ![d] = c] /\ caller'[d] = c /\ ring'[d] = q
      BY <1>1, <1>2, <1>4, <1>5, CallerMoves DEF SmpInv
  <1>8. ASSUME FrameRight(d) PROVE FrameRight(d)'
    <2>1. RingRight(r, StoredBy(d), TakenBy(d)) /\ n <= Room(d)
        BY <1>2, <1>5, <1>8 DEF FrameRight, RoomRight
    <2>2. RoomRight(d)'
        BY <1>4, <1>5, <1>6, <1>7 DEF RoomRight
    <2>3. CASE d = "rx"
      <3>1. /\ TakenBy(d) = 0 /\ TakenBy(d)' = n
            /\ StoredBy(d)' = StoredBy(d) /\ StoredBy(d) \in Nat
          BY <1>1, <1>4, <1>5, <1>7, <2>3, Parts DEF StoredBy, TakenBy, Uncounted
      <3>2. n <= Available(r)
          BY <1>2, <2>1, <2>3 DEF Room
      <3>3. RingRight(q, StoredBy(d), n)
          BY <1>3, <2>1, <2>3, <3>1, <3>2, RingTaken
      <3> QED
          BY <1>7, <2>2, <3>1, <3>3 DEF FrameRight
    <2>4. CASE d = "tx"
      <3>1. /\ StoredBy(d) = 0 /\ StoredBy(d)' = n
            /\ TakenBy(d)' = TakenBy(d) /\ TakenBy(d) \in Nat
          BY <1>1, <1>4, <1>5, <1>7, <2>4, Parts DEF StoredBy, TakenBy, Uncounted
      <3>2. Available(r) + n <= RingSize
        <4>1. Available(r) + 0 <= RingSize /\ Available(r) \in Nat /\ RingSize \in Nat
            BY <2>1, <3>1, AvailableIs, SampleAssumption DEF RingRight
        <4>2. n <= Free(r) /\ Free(r) = RingSize - Available(r)
            BY <1>2, <2>1, <2>4, <4>1, AvailableIs DEF Room
        <4> QED
            BY ONLY <4>1, <4>2, n \in Nat
      <3>3. RingRight(q, n, TakenBy(d))
          BY <1>3, <2>1, <2>4, <3>1, <3>2, RingStored
      <3> QED
          BY <1>7, <2>2, <3>1, <3>3 DEF FrameRight
    <2> QED
        BY <1>1, <2>3, <2>4 DEF Directions
  <1>9. /\ Count(q.required > 0) + q.sem - Count(q.blocked)
             = Count(ring[d].required > 0) + ring[d].sem - Count(ring[d].blocked)
        /\ c.pc = "count" /\ ~ q.blocked
        /\ c \in [pc : {"idle", "look", "require", "wait", "copy", "count"}, count : Nat]
      BY <1>2, <1>4, <1>5, <1>6
  <1> QED
      BY <1>5, <1>6, <1>7, <1>8, <1>9, CallerStep

\* A call counts its frames and returns.
LEMMA SampleReturnInv == ASSUME SmpInv, NEW d \in Dirs, SampleReturn(d) PROVE SmpInv'
  <1>1. /\ d \in Directions /\ caller[d].count \in Nat /\ ring \in [Directions -> Rings]
        /\ DOMAIN caller = Directions
      BY Parts DEF Dirs, Directions, SmpInv, SmpTypes
  <1>2. PICK r \in Rings, n \in Nat : r = ring[d] /\ n = caller[d].count
      BY <1>1
  <1>3. PICK q : q = IF d = "rx" THEN Read(r, n) ELSE Written(r, n)
      OBVIOUS
  <1>4. PICK c \in [pc : {"idle"}, count : Nat] : c = [pc |-> "idle", count |-> 0]
      OBVIOUS
  <1>5. /\ caller[d].pc = "count" /\ UNCHANGED <<smpKind, bus, isrCmd, isrChan>>
        /\ ring' = [ring EXCEPT ![d] = q] /\ caller' = [caller EXCEPT ![d] = c] /\ ~ r.blocked
      BY <1>1, <1>2, <1>3, <1>4 DEF SampleReturn, SmpInv, CallsRight
  <1>6. /\ q \in Rings
        /\ q.required = r.required /\ q.blocked = r.blocked /\ q.sem = r.sem
      BY <1>3, RingRead, RingWritten
  <1>7. caller'[d] = c /\ ring'[d] = q
      BY <1>1, <1>5
  <1>8. ASSUME FrameRight(d) PROVE FrameRight(d)'
    <2>1. RingRight(r, StoredBy(d), TakenBy(d))
        BY <1>2, <1>8 DEF FrameRight
    <2>2. RoomRight(d)'
        BY <1>4, <1>5, <1>6, <1>7 DEF RoomRight
    <2>3. CASE d = "rx"
      <3>1. /\ TakenBy(d) = n /\ TakenBy(d)' = 0
            /\ StoredBy(d)' = StoredBy(d) /\ StoredBy(d) \in Nat
          BY <1>1, <1>2, <1>4, <1>5, <1>7, <2>3, Parts DEF StoredBy, TakenBy, Uncounted
      <3>2. RingRight(q, StoredBy(d), 0)
          BY <1>3, <2>1, <2>3, <3>1, RingRead
      <3> QED
          BY <1>7, <2>2, <3>1, <3>2 DEF FrameRight
    <2>4. CASE d = "tx"
      <3>1. /\ StoredBy(d) = n /\ StoredBy(d)' = 0
            /\ TakenBy(d)' = TakenBy(d) /\ TakenBy(d) \in Nat
          BY <1>1, <1>2, <1>4, <1>5, <1>7, <2>4, Parts DEF StoredBy, TakenBy, Uncounted
      <3>2. RingRight(q, 0, TakenBy(d))
          BY <1>3, <2>1, <2>4, <3>1, RingWritten
      <3> QED
          BY <1>7, <2>2, <3>1, <3>2 DEF FrameRight
    <2> QED
        BY <1>1, <2>3, <2>4 DEF Directions
  <1>9. /\ Count(q.required > 0) + q.sem - Count(q.blocked)
             = Count(ring[d].required > 0) + ring[d].sem - Count(ring[d].blocked)
        /\ c.pc = "idle"
        /\ c \in [pc : {"idle", "look", "require", "wait", "copy", "count"}, count : Nat]
      BY <1>2, <1>4, <1>6
  <1> QED
      BY <1>5, <1>6, <1>8, <1>9, CallerStep

\* At first the buffers are empty.
LEMMA SmpInitInv == ASSUME SampleInit PROVE SmpInv
  <1>1. PICK r : r = [buf |-> [i \in Indices |-> 0], write_index |-> 0, read_index |-> 0,
                      total_written |-> 0, total_read |-> 0,
                      required |-> 0, blocked |-> FALSE, sem |-> 0, intact |-> TRUE]
      OBVIOUS
  <1>2. /\ \A d \in Directions : ring[d] = r /\ caller[d] = [pc |-> "idle", count |-> 0]
        /\ ring = [d \in Directions |-> r]
        /\ caller = [d \in Directions |-> [pc |-> "idle", count |-> 0]]
        /\ bus = [pc |-> "receive", n |-> 0] /\ isrCmd = {} /\ isrChan = <<>>
      BY <1>1 DEF SampleInit, Directions, Indices
  <1>3. PICK R \in Nat \ {0}, M \in Nat \ {0} : SumsRight(R, M)
      BY Sums
  <1>4. /\ R = RingSize /\ Indices = 0..R - 1 /\ 0 \in Counters /\ 0 \in Indices
      BY <1>3 DEF SumsRight
  <1>5. r \in Rings
      BY <1>1, <1>4 DEF Rings
  <1>6. SmpTypes
      BY <1>2, <1>5 DEF SmpTypes
  <1>7. WakesRight /\ CallsRight
    <2>1. Commands(<<>>, "rx") = 0 /\ Commands(<<>>, "tx") = 0
        BY <1>2, <1>6, CommandsMove DEF SmpTypes
    <2>2. Dirs \subseteq Directions
        BY DEF Dirs, Directions
    <2> QED
        BY <1>1, <1>2, <2>1, <2>2 DEF WakesRight, CallsRight, Ways, Count, Directions
  <1>8. FramesRight
    <2>1. Available(r) = 0
      <3>1. Available(r) = CountMinus(0, 0) /\ CountMinus(0, 0) = 0
          BY <1>1, <1>3, <1>5, 0 \in Nat, 0 < M, 0 <= M, AvailableIs DEF SumsRight
      <3> QED
          BY <3>1
    <2>2. RingRight(r, 0, 0)
      <3>1. IndexPlus(0, 0) = 0
          BY <1>4, 0 \in Nat, 0 <= RingSize, IndicesMove
      <3>2. Available(r) + 0 = 0 /\ r.read_index = 0 /\ r.write_index = 0 /\ r.intact
          BY <1>1, <2>1
      <3>3. \A k \in Indices : ~ (k < 0)
          BY ONLY <1>4, R \in Nat \ {0}
      <3>4. FramesFrom(r, 0, 0, 0)
          BY <3>1, <3>2, <3>3 DEF FramesFrom
      <3>5. 0 <= RingSize /\ 0 <= Available(r)
          BY <1>4, <2>1
      <3> QED
          BY <1>4, <3>2, <3>4, <3>5 DEF RingRight
    <2>3. ASSUME NEW d \in Directions PROVE FrameRight(d)
      <3>1. StoredBy(d) = 0 /\ TakenBy(d) = 0
          BY <1>2, <2>3 DEF StoredBy, TakenBy, Uncounted
      <3>2. RoomRight(d)
          BY <1>1, <1>2 DEF RoomRight
      <3> QED
          BY <1>2, <2>2, <3>1, <3>2 DEF FrameRight
    <2> QED
        BY <2>3 DEF FramesRight
  <1> QED
      BY <1>6, <1>7, <1>8 DEF SmpInv

\* Every step keeps the invariant.
LEMMA SmpNextInv == ASSUME SmpInv, [SampleNext]_smpVars PROVE SmpInv'
  <1>1. CASE BusCode
      BY <1>1, ReceiveInv, ReceivedInv, ReceiveCheckInv, SendInv, SentInv, SendCheckInv
         DEF BusCode
  <1>2. CASE I2sIsr
      BY <1>2, IsrInv
  <1>3. ASSUME NEW d \in Dirs, SampleCall(d) \/ SampleTimeout(d) \/ SampleCode(d) PROVE SmpInv'
      BY <1>3, SampleCallInv, SampleTimeoutInv, SampleLookInv, SampleRequireInv,
         SampleResumeInv, SampleCopyInv, SampleReturnInv DEF SampleCode
  <1>4. CASE UNCHANGED smpVars
    <2>1. UNCHANGED <<smpKind, ring, bus, caller, isrCmd, isrChan>>
        BY <1>4 DEF smpVars
    <2>2. SmpTypes' /\ CallsRight'
        BY <2>1 DEF SmpInv, SmpTypes, CallsRight, Dirs
    <2>3. WakesRight'
        BY <2>1, WakesKept
    <2>4. \A d \in Directions : FrameRight(d) => FrameRight(d)'
        BY <2>1, Untouched DEF StoredBy, TakenBy
    <2> QED
        BY <2>2, <2>3, <2>4 DEF SmpInv, FramesRight
  <1> QED
      BY <1>1, <1>2, <1>3, <1>4 DEF SampleNext

\* The invariant holds in every state.
LEMMA SmpAlways == SampleSpec => []SmpInv
  <1> QED
      BY SmpInitInv, SmpNextInv, PTL DEF SampleSpec

\* Whatever the sizes of the buffers, the blocks and the calls, a blocked direction has
\* one wakeup coming: the bus, the routine or the semaphore, and never two of them.
THEOREM WakeupIsPending == SampleSpec => []WakeupPending
  <1>1. ASSUME SmpInv PROVE WakeupPending
      BY <1>1 DEF SmpInv, WakesRight, WakeupPending, Ways, Count, Commands, At
  <1> QED
      BY <1>1, SmpAlways, PTL

\* Whatever the sizes, and although the counters wrap, the frames leave a buffer as they
\* entered it, if a call that follows a timeout asks for as many frames as before.
THEOREM FramesInOrder == ASSUME SameRetry PROVE SampleSpec => []SamplesInOrder
  <1>1. ASSUME SmpInv PROVE SamplesInOrder
      BY <1>1 DEF SmpInv, FramesRight, FrameRight, RingRight, SamplesInOrder, Directions
  <1> QED
      BY <1>1, SmpAlways, PTL
=============================================================================
