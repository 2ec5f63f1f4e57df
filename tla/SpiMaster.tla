------------------------------ MODULE SpiMaster -----------------------------
(***************************************************************************)
(* The SPI master driver (drivers/spi/src/rtos_spi_master.c).  Tasks share *)
(* a bus with several devices: a task holds the bus lock from the start to *)
(* the end of a transaction and puts its operations in a queue of two,     *)
(* which the driver's thread carries out.  Only a transfer that reads      *)
(* waits for the thread; all others return when they are queued, the end   *)
(* of the transaction and the release of the lock included.                *)
(*                                                                         *)
(* A task is its priority, a number above that of the driver's thread,     *)
(* which is 0: the thread takes on the priority of the task it works for.  *)
(***************************************************************************)
EXTENDS Integers, Sequences, FiniteSets

CONSTANTS
    SpmTasks,     \* tasks, numbers above 0
    SpmDevices,   \* devices on the bus
    SpmOps        \* bound on the operations of a transaction

VARIABLES
    spmTask,      \* spmTask[t]: where the task is, its device, operations left,
                  \* and whether the buffer it last read into has been filled
    spmLock,      \* the holder of the bus lock, 0 if none
    spmQueue,     \* xfer_req_queue
    spmReady,     \* data_ready, a binary semaphore
    spmThread     \* the driver's thread: its request, its priority, and the
                  \* device whose transaction keeps it on one core

spmVars == <<spmTask, spmLock, spmQueue, spmReady, spmThread>>

NoDevice == "none"

ASSUME SpmAssumption ==
    SpmTasks \subseteq Nat \ {0} /\ NoDevice \notin SpmDevices /\ SpmOps \in Nat

NoReq == [op |-> "none", task |-> 0, dev |-> NoDevice, read |-> FALSE]
SpmQueueSize == 2

SpmInit ==
    /\ spmTask = [t \in SpmTasks |-> [pc |-> "idle", dev |-> NoDevice, left |-> 0, filled |-> TRUE]]
    /\ spmLock = 0 /\ spmQueue = <<>> /\ spmReady = 0
    /\ spmThread = [req |-> NoReq, priority |-> 0, open |-> NoDevice]

SpmSend(t, op, read) ==
    /\ Len(spmQueue) < SpmQueueSize
    /\ spmQueue' = Append(spmQueue, [op |-> op, task |-> t, dev |-> spmTask[t].dev, read |-> read])

SpmGoto(t, there) == spmTask' = [spmTask EXCEPT ![t].pc = there]

-----------------------------------------------------------------------------
\* spi_master_local_transaction_start: the lock, then the request.
SpmLockGet(t) ==
    /\ spmTask[t].pc = "idle" /\ spmLock = 0
    /\ spmLock' = t
    /\ \E dev \in SpmDevices :
          spmTask' = [spmTask EXCEPT ![t] =
                        [pc |-> "start", dev |-> dev, left |-> SpmOps, filled |-> TRUE]]
    /\ UNCHANGED <<spmQueue, spmReady, spmThread>>

spi_master_local_transaction_start(t) ==
    /\ spmTask[t].pc = "start"
    /\ SpmSend(t, "START", FALSE)
    /\ SpmGoto(t, "open")
    /\ UNCHANGED <<spmLock, spmReady, spmThread>>

\* spi_master_local_transfer: what is only written is copied, and the call
\* returns; a call that reads waits.
spi_master_local_transfer(t) ==
    /\ spmTask[t].pc = "open" /\ spmTask[t].left > 0
    /\ \E read \in BOOLEAN :
          /\ SpmSend(t, "XFER", read)
          /\ spmTask' = [spmTask EXCEPT ![t] =
                           [pc |-> IF read THEN "wait" ELSE "open", dev |-> @.dev,
                            left |-> @.left - 1, filled |-> ~read]]
    /\ UNCHANGED <<spmLock, spmReady, spmThread>>

SpmDataReady(t) ==
    /\ spmTask[t].pc = "wait" /\ spmReady = 1
    /\ spmReady' = 0
    /\ SpmGoto(t, "open")
    /\ UNCHANGED <<spmLock, spmQueue, spmThread>>

spi_master_local_delay_before_next_transfer(t) ==
    /\ spmTask[t].pc = "open" /\ spmTask[t].left > 0
    /\ SpmSend(t, "DELAY", FALSE)
    /\ spmTask' = [spmTask EXCEPT ![t].left = @ - 1]
    /\ UNCHANGED <<spmLock, spmReady, spmThread>>

\* Mutant: the lock is given back before the end is queued.
SpmEndUnlocked(t) ==
    /\ spmTask[t].pc = "open"
    /\ spmLock' = 0
    /\ SpmGoto(t, "end")
    /\ UNCHANGED <<spmQueue, spmReady, spmThread>>

\* spi_master_local_transaction_end
SpmEnd(t) ==
    /\ spmTask[t].pc = "open"
    /\ SpmSend(t, "END", FALSE)
    /\ SpmGoto(t, "unlock")
    /\ UNCHANGED <<spmLock, spmReady, spmThread>>

SpmLockPut(t) ==
    /\ spmTask[t].pc = "unlock"
    /\ spmLock' = 0
    /\ SpmGoto(t, "idle")
    /\ UNCHANGED <<spmQueue, spmReady, spmThread>>

-----------------------------------------------------------------------------
(***************************************************************************)
(* spi_xfer_thread.                                                        *)
(***************************************************************************)

SpmReceive ==
    /\ spmThread.req = NoReq /\ spmQueue # <<>>
    /\ spmThread' = [spmThread EXCEPT !.req = Head(spmQueue)]
    /\ spmQueue' = Tail(spmQueue)
    /\ UNCHANGED <<spmTask, spmLock, spmReady>>

\* The thread takes on the caller's priority and stays on its core.
SpmServeStart ==
    /\ spmThread.req.op = "START"
    /\ spmThread' = [req |-> NoReq, priority |-> spmThread.req.task, open |-> spmThread.req.dev]
    /\ UNCHANGED <<spmTask, spmLock, spmQueue, spmReady>>

SpmServeXfer ==
    /\ spmThread.req.op = "XFER"
    /\ IF spmThread.req.read
       THEN /\ spmTask' = [spmTask EXCEPT ![spmThread.req.task].filled = TRUE]
            /\ spmReady' = 1
       ELSE UNCHANGED <<spmTask, spmReady>>
    /\ spmThread' = [spmThread EXCEPT !.req = NoReq]
    /\ UNCHANGED <<spmLock, spmQueue>>

SpmServeDelay ==
    /\ spmThread.req.op = "DELAY"
    /\ spmThread' = [spmThread EXCEPT !.req = NoReq]
    /\ UNCHANGED <<spmTask, spmLock, spmQueue, spmReady>>

\* The core map and the thread's own priority are restored.
SpmServeEnd ==
    /\ spmThread.req.op = "END"
    /\ spmThread' = [req |-> NoReq, priority |-> 0, open |-> NoDevice]
    /\ UNCHANGED <<spmTask, spmLock, spmQueue, spmReady>>

-----------------------------------------------------------------------------
SpmTaskStep(t) ==
    \/ spi_master_local_transaction_start(t) \/ spi_master_local_transfer(t)
    \/ SpmDataReady(t) \/ spi_master_local_delay_before_next_transfer(t)
    \/ SpmEnd(t) \/ SpmLockPut(t)

SpmThreadStep == \/ SpmReceive \/ SpmServeStart \/ SpmServeXfer
                 \/ SpmServeDelay \/ SpmServeEnd

SpmNext == SpmThreadStep \/ \E t \in SpmTasks : SpmLockGet(t) \/ SpmTaskStep(t)

\* The driver's thread and the tasks run; a task ends its transactions.
SpmFairness == WF_spmVars(SpmThreadStep) /\ \A t \in SpmTasks : WF_spmVars(SpmTaskStep(t))

SpmSpec == SpmInit /\ [][SpmNext]_spmVars /\ SpmFairness

SpmTypeOK ==
    LET devs == SpmDevices \cup {NoDevice}
        reqs == [op : {"none", "START", "XFER", "DELAY", "END"}, task : SpmTasks \cup {0},
                 dev : devs, read : BOOLEAN]
    IN  /\ spmTask \in [SpmTasks -> [pc : {"idle", "start", "open", "wait", "end", "unlock"},
                                     dev : devs, left : 0..SpmOps, filled : BOOLEAN]]
        /\ spmLock \in SpmTasks \cup {0} /\ spmReady \in {0, 1}
        /\ Len(spmQueue) <= SpmQueueSize
        /\ \A i \in 1..Len(spmQueue) : spmQueue[i] \in reqs
        /\ spmThread \in [req : reqs, priority : SpmTasks \cup {0}, open : devs]

\* What is queued of a task that has given the lock back is still carried out
\* before what the next holder queues: the thread starts a transaction only when
\* none is open, and does everything else on the device, at the priority and on
\* the core of the transaction that is.  And a transfer that reads returns when its
\* own buffer has been filled, though all tasks and transfers share one semaphore.
SpiBusSerial ==
    /\ spmThread.req # NoReq =>
          IF spmThread.req.op = "START" THEN spmThread.open = NoDevice
          ELSE /\ spmThread.open = spmThread.req.dev
               /\ spmThread.priority = spmThread.req.task
    /\ \A t \in SpmTasks : spmTask[t].pc # "wait" => spmTask[t].filled

=============================================================================
