------------------------------ MODULE QspiFlash -----------------------------
(***************************************************************************)
(* The QSPI flash driver (drivers/qspi_flash/src/rtos_qspi_flash.c).       *)
(* Tasks queue their operations for the driver's thread, which carries     *)
(* them out chunk by chunk, page by page, sector by sector; a read waits   *)
(* on a semaphore all tasks share until the thread is done.  A recursive   *)
(* mutex lets a task keep the others out for several operations; a         *)
(* spinlock behind it keeps out the low level reads (read_ll) that         *)
(* interrupt routines do themselves.                                       *)
(*                                                                         *)
(* Flash bytes are erased ("FF") or programmed ("D").  The library         *)
(* (fl_int_read, fl_int_write, ...) is external: programming goes on at    *)
(* the start of a page when it reaches its end.                            *)
(***************************************************************************)
EXTENDS Integers, Sequences

CONSTANTS
    QfTasks,     \* tasks, numbers above 0
    QfSize,      \* bytes of flash
    QfPage, QfSector, QfChunk,   \* fl_getPageSize, 4096, READ_CHUNK_SIZE
    QfRanges,    \* ranges <<address, len>> that tasks ask for
    QfLockAlways,\* tasks take the lock for every operation
    QfDepth,     \* bound on the nesting of the lock
    QfOps        \* bound on the operations asked for

ASSUME QfAssumption ==
    /\ 0 \notin QfTasks /\ QfSize \in Nat
    /\ {QfPage, QfSector, QfChunk} \subseteq Nat \ {0}
    /\ QfRanges \subseteq Nat \X Nat

VARIABLES
    qfFlash,     \* the contents
    qfTask,      \* qfTask[t]: where the task is, its lock depth, its request and
                 \* the bytes it has read
    qfMutex,     \* owner and count
    qfSpin,      \* ctx->spinlock
    qfLl,        \* an interrupt routine is in read_ll
    qfQueue, qfReady,  \* op_queue and data_ready
    qfRun,       \* the thread: where it is, its request, address and bytes left
    qfFast,      \* reads use the fast library
    qfAsked,     \* operations asked for
    qfLast,      \* ctx->last_op
    qfConn       \* the library that has the ports

qfVars == <<qfFlash, qfTask, qfMutex, qfSpin, qfLl, qfQueue, qfReady, qfRun, qfFast,
            qfAsked, qfLast, qfConn>>

QfMin(a, b) == IF a < b THEN a ELSE b
Bytes == 0..QfSize - 1
QfNoOp == [op |-> "NONE", task |-> 0, address |-> 0, len |-> 0]
FreeMutex == [owner |-> 0, count |-> 0]
QfQueueSize == 2

QfInit ==
    /\ qfFlash \in {[a \in Bytes |-> "FF"], [a \in Bytes |-> "D"]}
    /\ qfTask = [t \in QfTasks |-> [pc |-> "idle", depth |-> 0, req |-> QfNoOp, buf |-> <<>>]]
    /\ qfMutex = FreeMutex /\ qfSpin = 0 /\ qfLl = FALSE
    /\ qfQueue = <<>> /\ qfReady = 0
    /\ qfRun = [pc |-> "idle", req |-> QfNoOp, address |-> 0, left |-> 0, before |-> qfFlash]
    /\ qfFast \in BOOLEAN /\ qfAsked = 0 /\ qfLast = "NONE"
    /\ qfConn = IF qfFast THEN "none" ELSE "fl"

QfGoto(t, there) == qfTask' = [qfTask EXCEPT ![t].pc = there]
QfShared == <<qfFlash, qfRun, qfFast, qfAsked, qfLast, qfConn>>

MutexFree(t) == qfMutex.owner \in {0, t}
MutexGet(t) == MutexFree(t) /\ qfMutex' = [owner |-> t, count |-> qfMutex.count + 1]
MutexPut == qfMutex' = IF qfMutex.count = 1 THEN FreeMutex
                       ELSE [qfMutex EXCEPT !.count = @ - 1]

-----------------------------------------------------------------------------
(***************************************************************************)
(* qspi_flash_local_lock and _unlock.                                      *)
(***************************************************************************)

\* A task that does not own the mutex has to get the spinlock as well.
QfLock(t) ==
    /\ \/ qfTask[t].pc = "idle"
       \/ qfTask[t].pc = "locked" /\ qfTask[t].depth < QfDepth
    /\ MutexGet(t)
    /\ IF qfMutex.owner = t
       THEN /\ qfSpin' = qfSpin + 1
            /\ qfTask' = [qfTask EXCEPT ![t].depth = @ + 1]
       ELSE QfGoto(t, "spin") /\ UNCHANGED qfSpin
    /\ UNCHANGED <<qfLl, qfQueue, qfReady, QfShared>>

QfSpinGet(t) ==
    /\ qfTask[t].pc = "spin" /\ qfSpin = 0
    /\ qfSpin' = 1
    /\ qfTask' = [qfTask EXCEPT ![t].pc = "locked", ![t].depth = 1]
    /\ UNCHANGED <<qfMutex, qfLl, qfQueue, qfReady, QfShared>>

\* Mutant: the spinlock is let go at once, whatever the depth.
QfSpinPutAll(t) ==
    /\ qfTask[t].pc = "locked"
    /\ qfSpin' = 0
    /\ QfGoto(t, "unlock")
    /\ UNCHANGED <<qfMutex, qfLl, qfQueue, qfReady, QfShared>>

QfSpinPut(t) ==
    /\ qfTask[t].pc = "locked"
    /\ qfSpin' = qfSpin - 1
    /\ QfGoto(t, "unlock")
    /\ UNCHANGED <<qfMutex, qfLl, qfQueue, qfReady, QfShared>>

QfUnlock(t) ==
    /\ qfTask[t].pc = "unlock"
    /\ MutexPut
    /\ qfTask' = [qfTask EXCEPT ![t].depth = @ - 1,
                                ![t].pc = IF qfTask[t].depth = 1 THEN "idle" ELSE "locked"]
    /\ UNCHANGED <<qfSpin, qfLl, qfQueue, qfReady, QfShared>>

\* rtos_qspi_flash_read_ll and its fast forms: nothing is read without the
\* spinlock.
QfLlGet ==
    /\ ~qfLl /\ qfSpin = 0
    /\ qfSpin' = 1 /\ qfLl' = TRUE
    /\ UNCHANGED <<qfTask, qfMutex, qfQueue, qfReady, QfShared>>

QfLlPut ==
    /\ qfLl
    /\ qfSpin' = 0 /\ qfLl' = FALSE
    /\ UNCHANGED <<qfTask, qfMutex, qfQueue, qfReady, QfShared>>

-----------------------------------------------------------------------------
(***************************************************************************)
(* qspi_flash_local_read, _write and _erase.                               *)
(***************************************************************************)

\* What the bytes of the range are, FF beyond the end of the flash.
Expected(flash, address, len) ==
    [i \in 1..len |-> IF address + i - 1 \in Bytes THEN flash[address + i - 1] ELSE "FF"]

QfReadOp == IF qfFast THEN "FAST" ELSE "READ"
IsRead(op) == op \in {"READ", "FAST"}

\* request: the mutex is held while the operation is queued.
QfRequest(t) ==
    /\ IF QfLockAlways THEN qfTask[t].pc = "locked" ELSE qfTask[t].pc \in {"idle", "locked"}
    /\ MutexGet(t)
    /\ qfAsked < QfOps /\ qfAsked' = qfAsked + 1
    /\ \E op \in {QfReadOp, "WRITE", "ERASE"}, range \in QfRanges :
          qfTask' = [qfTask EXCEPT ![t].pc = "send", ![t].buf = <<>>,
                        ![t].req = [op |-> op, task |-> t, address |-> range[1], len |-> range[2]]]
    /\ UNCHANGED <<qfSpin, qfLl, qfQueue, qfReady, qfFlash, qfRun, qfFast,
                   qfLast, qfConn>>

QfSend(t) ==
    /\ qfTask[t].pc = "send" /\ Len(qfQueue) < QfQueueSize
    /\ qfQueue' = Append(qfQueue, qfTask[t].req)
    /\ QfGoto(t, "sent")
    /\ UNCHANGED <<qfMutex, qfSpin, qfLl, qfReady, QfShared>>

QfSent(t) ==
    /\ qfTask[t].pc = "sent"
    /\ MutexPut
    /\ QfGoto(t, IF IsRead(qfTask[t].req.op) THEN "wait" ELSE "done")
    /\ UNCHANGED <<qfSpin, qfLl, qfQueue, qfReady, QfShared>>

QfWait(t) ==
    /\ qfTask[t].pc = "wait" /\ qfReady = 1
    /\ qfReady' = 0
    /\ QfGoto(t, "done")
    /\ UNCHANGED <<qfMutex, qfSpin, qfLl, qfQueue, QfShared>>

QfReturn(t) ==
    /\ qfTask[t].pc = "done"
    /\ qfTask' = [qfTask EXCEPT ![t].pc = IF qfTask[t].depth > 0 THEN "locked" ELSE "idle",
                                ![t].req = QfNoOp, ![t].buf = <<>>]
    /\ UNCHANGED <<qfMutex, qfSpin, qfLl, qfQueue, qfReady, QfShared>>

-----------------------------------------------------------------------------
(***************************************************************************)
(* qspi_flash_op_thread.                                                   *)
(***************************************************************************)

\* The library that has the ports when last was followed by op.
Connection(last, op) ==
    IF last = "NONE" THEN IF op = "FAST" THEN "fast" ELSE "fl"
    ELSE IF op = "FAST" THEN IF last = "FAST" THEN qfConn ELSE "fast"
    ELSE IF last = "FAST" THEN "fl" ELSE qfConn

SectorStart(address) == address - (address % QfSector)

\* The request is taken, the ports change hands, and an erase is rounded down to
\* its sector.
QfReceive ==
    /\ qfRun.pc = "idle" /\ qfQueue # <<>>
    /\ qfQueue' = Tail(qfQueue)
    /\ LET req == Head(qfQueue)
           from == IF req.op = "ERASE" THEN SectorStart(req.address) ELSE req.address
       IN  /\ qfRun' = [pc |-> "run", req |-> req, address |-> from,
                        left |-> req.len + req.address - from, before |-> qfFlash]
           /\ qfConn' = Connection(qfLast, req.op)
    /\ UNCHANGED <<qfFlash, qfTask, qfMutex, qfSpin, qfLl, qfReady, qfFast,
                   qfAsked, qfLast>>

\* read_op and read_fast_op: one chunk.  Beyond the end nothing is read and
\* nothing subtracted from what is left.
QfReadChunk ==
    /\ qfRun.pc = "run" /\ IsRead(qfRun.req.op) /\ qfRun.left > 0
    /\ LET at == QfMin(qfRun.address, QfSize)
           chunk == QfMin(qfRun.left, QfChunk)
           n == QfMin(chunk, QfSize - at)
           pos == qfRun.req.len - qfRun.left
           t == qfRun.req.task
       IN  /\ qfTask' = [qfTask EXCEPT ![t].buf =
                            SubSeq(@, 1, pos) \o Expected(qfFlash, at, chunk)]
           /\ qfRun' = [qfRun EXCEPT !.address = at + n, !.left = @ - n]
    /\ UNCHANGED <<qfFlash, qfMutex, qfSpin, qfLl, qfQueue, qfReady, qfFast,
                   qfAsked, qfLast, qfConn>>

\* Mutant: a page is programmed from wherever the address is.
PageRoomWhole(address) == QfPage

\* Bytes up to the end of the page.
PageRoom(address) == QfPage - (address % QfPage)

\* write_op: one page.
QfWritePage ==
    /\ qfRun.pc = "run" /\ qfRun.req.op = "WRITE" /\ qfRun.left > 0 /\ qfRun.address < QfSize
    /\ LET n == QfMin(qfRun.left, PageRoom(qfRun.address))
           page == qfRun.address - (qfRun.address % QfPage)
           programmed == {page + ((qfRun.address + i) % QfPage) : i \in 0..n - 1}
       IN  /\ qfFlash' = [a \in Bytes |-> IF a \in programmed THEN "D" ELSE qfFlash[a]]
           /\ qfRun' = [qfRun EXCEPT !.address = @ + n, !.left = @ - n]
    /\ UNCHANGED <<qfTask, qfMutex, qfSpin, qfLl, qfQueue, qfReady, qfFast,
                   qfAsked, qfLast, qfConn>>

\* erase_op: the whole chip, or one sector.
QfErase ==
    /\ qfRun.pc = "run" /\ qfRun.req.op = "ERASE" /\ qfRun.left > 0 /\ qfRun.address < QfSize
    /\ LET chip == qfRun.req.address = 0 /\ qfRun.req.len >= QfSize
           n == IF chip THEN QfSize ELSE QfSector
       IN  /\ qfFlash' = [a \in Bytes |-> IF a \in qfRun.address..qfRun.address + n - 1 THEN "FF"
                                          ELSE qfFlash[a]]
           /\ qfRun' = [qfRun EXCEPT !.address = @ + n,
                                     !.left = IF chip THEN 0 ELSE @ - QfMin(n, @)]
    /\ UNCHANGED <<qfTask, qfMutex, qfSpin, qfLl, qfQueue, qfReady, qfFast,
                   qfAsked, qfLast, qfConn>>

\* The loop of the operation ends.
QfAtEnd ==
    /\ qfRun.pc = "run"
    /\ qfRun.left = 0 \/ (~IsRead(qfRun.req.op) /\ qfRun.address >= QfSize)

QfFinish ==
    /\ QfAtEnd
    /\ qfReady' = IF IsRead(qfRun.req.op) THEN 1 ELSE qfReady
    /\ qfLast' = qfRun.req.op
    /\ qfRun' = [pc |-> "idle", req |-> QfNoOp, address |-> 0, left |-> 0, before |-> qfFlash]
    /\ UNCHANGED <<qfFlash, qfTask, qfMutex, qfSpin, qfLl, qfQueue, qfFast,
                   qfAsked, qfConn>>

-----------------------------------------------------------------------------
QfThreadStep == QfReceive \/ QfReadChunk \/ QfWritePage \/ QfErase \/ QfFinish

\* What a task does once it has begun.
QfTaskStep(t) ==
    \/ QfSpinGet(t) \/ QfSpinPut(t) \/ QfUnlock(t)
    \/ QfSend(t) \/ QfSent(t) \/ QfWait(t) \/ QfReturn(t)

QfNext ==
    \/ QfThreadStep \/ QfLlGet \/ QfLlPut
    \/ \E t \in QfTasks : QfLock(t) \/ QfRequest(t) \/ QfTaskStep(t)

\* The driver's thread and the tasks run, and a low level read ends.
QfFairness ==
    /\ WF_qfVars(QfThreadStep) /\ WF_qfVars(QfLlPut)
    /\ \A t \in QfTasks : WF_qfVars(QfTaskStep(t)) /\ SF_qfVars(QfSpinGet(t))

QfSpec == QfInit /\ [][QfNext]_qfVars /\ QfFairness

QfTypeOK ==
    /\ qfFlash \in [Bytes -> {"FF", "D"}]
    /\ \A t \in QfTasks :
          /\ qfTask[t].pc \in {"idle", "spin", "locked", "unlock", "send", "sent", "wait", "done"}
          /\ qfTask[t].depth \in 0..QfDepth
    /\ qfMutex.owner \in QfTasks \cup {0} /\ qfMutex.count \in 0..QfDepth + 1
    /\ qfSpin \in 0..QfDepth /\ qfReady \in {0, 1} /\ Len(qfQueue) <= QfQueueSize
    /\ qfConn \in {"none", "fl", "fast"}

\* "If only a single atomic operation needs to be performed, such as a read, it
\* is not necessary to call this to obtain the lock first" (rtos_qspi_flash.h):
\* a read returns with the bytes of its range, though the tasks share the semaphore
\* that tells them.
FlashReadFilled ==
    \A t \in QfTasks :
        qfTask[t].pc = "done" /\ IsRead(qfTask[t].req.op)
            => Len(qfTask[t].buf) = qfTask[t].req.len

\* The thread changes the contents as it was asked to when it is done: the range,
\* as far as it lies in the flash, is programmed and nothing else is; every sector
\* that overlaps the range is erased and no other; a read gives what is there, to
\* the task that asked and before it returns; and the ports belong to the library
\* that is used.
FlashExact ==
    LET req == qfRun.req
        range == req.address..req.address + req.len - 1
        sectors == {a \in Bytes : \E b \in range : SectorStart(b) = SectorStart(a)}
    IN  /\ FlashReadFilled
        /\ qfRun.pc = "run" => qfConn = (IF req.op = "FAST" THEN "fast" ELSE "fl")
        /\ QfAtEnd =>
              CASE req.op = "WRITE" ->
                     qfFlash = [a \in Bytes |-> IF a \in range THEN "D" ELSE qfRun.before[a]]
                [] req.op = "ERASE" ->
                     qfFlash = [a \in Bytes |-> IF a \in sectors THEN "FF" ELSE qfRun.before[a]]
                [] OTHER ->
                     /\ qfTask[req.task].buf = Expected(qfRun.before, req.address, req.len)
                     /\ qfFlash = qfRun.before

\* No low level read runs while a task has the lock, to whatever depth, and the
\* spinlock is free when neither does.
FlashLockExcludes ==
    /\ qfLl => \A t \in QfTasks : qfTask[t].pc \notin {"locked", "send", "sent", "wait", "done"}
                                    \/ qfTask[t].depth = 0
    /\ (~qfLl /\ \A t \in QfTasks : qfTask[t].depth = 0) => qfSpin = 0

=============================================================================
