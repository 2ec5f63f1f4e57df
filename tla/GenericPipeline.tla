-------------------------- MODULE GenericPipeline --------------------------
(***************************************************************************)
(* The generic pipeline (sw_services/generic_pipeline): a thread for each  *)
(* stage, joined by queues of two pointers to frames.  The first thread    *)
(* asks the application for frames, the last hands them to the             *)
(* application, which keeps a frame or has the pipeline free it.           *)
(*                                                                         *)
(* A frame is the address of its buffer, so a buffer that is freed may be  *)
(* the next frame.  Its contents are the number under which the            *)
(* application gave it and the stages that have worked on it.  An input    *)
(* callback that returns NULL changes nothing and is left out.             *)
(***************************************************************************)
EXTENDS Integers, Sequences, FiniteSets, SequencesExt

CONSTANTS
    GpStages,   \* bound on stage_count
    GpBufs,     \* addresses of buffers
    GpFrames    \* bound on the frames given

ASSUME GpAssumption == GpStages \in Nat

VARIABLES
    gpCount,    \* stage_count
    gpThread,   \* the thread of each stage: where it is and generic_frame_buffer
    gpQueue,    \* queues[i], from stage i to stage i + 1
    gpHeap,     \* contents of the buffers that are allocated, by address
    gpIn,       \* frames the application has given
    gpOut       \* frames it has been handed back

gpVars == <<gpCount, gpThread, gpQueue, gpHeap, gpIn, gpOut>>

NoFrame == [no |-> 0, by |-> <<>>]
GpIdle == [pc |-> "take", frame |-> 0]
GpLast == gpCount - 1
GpQueueSize == 2
GpThreads == 0..GpLast

\* generic_pipeline_init, when all threads have been created.
GpInit ==
    /\ gpCount \in 1..GpStages
    /\ gpThread = [s \in GpThreads |-> GpIdle]
    /\ gpQueue = [s \in 0..gpCount - 2 |-> <<>>]
    /\ gpHeap = [b \in GpBufs |-> NoFrame]
    /\ gpIn = 0 /\ gpOut = 0

-----------------------------------------------------------------------------
(***************************************************************************)
(* generic_pipeline_stage.                                                 *)
(***************************************************************************)

GpInput ==
    /\ gpThread[0].pc = "take" /\ gpIn < GpFrames
    /\ \E b \in GpBufs :
          /\ gpHeap[b] = NoFrame
          /\ gpHeap' = [gpHeap EXCEPT ![b] = [no |-> gpIn + 1, by |-> <<>>]]
          /\ gpThread' = [gpThread EXCEPT ![0] = [pc |-> "work", frame |-> b]]
    /\ gpIn' = gpIn + 1
    /\ UNCHANGED <<gpCount, gpQueue, gpOut>>

GpReceive(s) ==
    /\ s > 0 /\ gpThread[s].pc = "take" /\ gpQueue[s - 1] # <<>>
    /\ gpThread' = [gpThread EXCEPT ![s] = [pc |-> "work", frame |-> Head(gpQueue[s - 1])]]
    /\ gpQueue' = [gpQueue EXCEPT ![s - 1] = Tail(@)]
    /\ UNCHANGED <<gpCount, gpHeap, gpIn, gpOut>>

GpWork(s) ==
    /\ gpThread[s].pc = "work"
    /\ gpHeap' = [gpHeap EXCEPT ![gpThread[s].frame].by = Append(@, s)]
    /\ gpThread' = [gpThread EXCEPT ![s].pc = "pass"]
    /\ UNCHANGED <<gpCount, gpQueue, gpIn, gpOut>>

\* Mutant: a full queue is not waited for.
GpSendNoWait(s) ==
    /\ s < GpLast /\ gpThread[s].pc = "pass"
    /\ gpQueue' = [gpQueue EXCEPT ![s] = IF Len(@) < GpQueueSize THEN Append(@, gpThread[s].frame) ELSE @]
    /\ gpThread' = [gpThread EXCEPT ![s] = GpIdle]
    /\ UNCHANGED <<gpCount, gpHeap, gpIn, gpOut>>

\* rtos_osal_queue_send waits for room for ever.
GpSend(s) ==
    /\ s < GpLast /\ gpThread[s].pc = "pass" /\ Len(gpQueue[s]) < GpQueueSize
    /\ gpQueue' = [gpQueue EXCEPT ![s] = Append(@, gpThread[s].frame)]
    /\ gpThread' = [gpThread EXCEPT ![s] = GpIdle]
    /\ UNCHANGED <<gpCount, gpHeap, gpIn, gpOut>>

\* The output callback returns 0 and the application has the buffer, or it does
\* not and rtos_osal_free is called.
GpOutput ==
    LET b == gpThread[GpLast].frame IN
    /\ gpThread[GpLast].pc = "pass"
    /\ \/ gpHeap' = [gpHeap EXCEPT ![b] = NoFrame]
       \/ UNCHANGED gpHeap
    /\ gpThread' = [gpThread EXCEPT ![GpLast] = GpIdle]
    /\ gpOut' = gpHeap[b].no
    /\ UNCHANGED <<gpCount, gpQueue, gpIn>>

-----------------------------------------------------------------------------
\* The application frees a frame that it has kept.
GpAppFree ==
    /\ \E b \in GpBufs :
          /\ gpHeap[b] # NoFrame /\ gpHeap[b].no <= gpOut
          /\ gpHeap' = [gpHeap EXCEPT ![b] = NoFrame]
    /\ UNCHANGED <<gpCount, gpThread, gpQueue, gpIn, gpOut>>

\* The thread of a stage once it has a frame or one waits for it.
GpStageCode(s) == GpReceive(s) \/ GpWork(s) \/ GpSend(s) \/ (s = GpLast /\ GpOutput)

GpNext == GpInput \/ GpAppFree \/ \E s \in GpThreads : GpStageCode(s)

\* The threads run; the application need not give frames.
GpFairness == \A s \in 0..GpStages - 1 : WF_gpVars(s \in GpThreads /\ GpStageCode(s))

GpSpec == GpInit /\ [][GpNext]_gpVars /\ GpFairness

GpTypeOK ==
    /\ gpCount \in 1..GpStages /\ gpIn \in 0..GpFrames /\ gpOut \in 0..GpFrames
    /\ gpThread \in [GpThreads -> [pc : {"take", "work", "pass"}, frame : GpBufs \cup {0}]]
    /\ \A s \in DOMAIN gpQueue : Len(gpQueue[s]) <= GpQueueSize /\ ToSet(gpQueue[s]) \subseteq GpBufs

\* Where a frame may be: with the thread of its stage, slot 0, or in a slot of the
\* queue before it; and which places are nearer to the end than others.
GpPlaces ==
    {p \in [stage : GpThreads, slot : 0..GpQueueSize] :
        IF p.slot = 0 THEN gpThread[p.stage].pc # "take"
        ELSE p.stage > 0 /\ p.slot <= Len(gpQueue[p.stage - 1])}
GpAhead(p, q) == p.stage > q.stage \/ (p.stage = q.stage /\ p.slot < q.slot)

GpFrameAt(p) == IF p.slot = 0 THEN gpThread[p.stage].frame ELSE gpQueue[p.stage - 1][p.slot]
GpStagesBehind(p) == IF p.slot = 0 /\ gpThread[p.stage].pc = "pass" THEN p.stage + 1 ELSE p.stage

\* Behind the frame that the application was handed last come all those it has
\* given since, in their order, each in a buffer of its own that nobody has freed
\* and with the work of exactly the stages that it has passed, in their order.
PipelineExact ==
    LET no(p) == gpHeap[GpFrameAt(p)].no IN
    /\ gpOut <= gpIn
    /\ \A n \in gpOut + 1..gpIn : \E p \in GpPlaces : no(p) = n
    /\ \A p \in GpPlaces :
          /\ no(p) \in gpOut + 1..gpIn
          /\ gpHeap[GpFrameAt(p)].by = [k \in 1..GpStagesBehind(p) |-> k - 1]
    /\ \A p, q \in GpPlaces : GpAhead(p, q) => no(p) < no(q)

\* Buffer b is in the pipeline.
GpInPipeline(b) ==
    \/ \E s \in GpThreads : gpThread[s].frame = b
    \/ \E s \in DOMAIN gpQueue : b \in ToSet(gpQueue[s])
=============================================================================
