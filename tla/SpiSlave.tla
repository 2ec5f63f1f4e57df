------------------------------ MODULE SpiSlave ------------------------------
(***************************************************************************)
(* The SPI slave driver (drivers/spi/src/rtos_spi_slave.c) under an        *)
(* application that uses it as device control does                         *)
(* (sw_services/device_control/transport/spi/device_control_spi.c): it     *)
(* takes what a transfer left in the xfer_done callback, and prepares the  *)
(* buffers again when it has dealt with it.                                *)
(*                                                                         *)
(* Three threads share the context without a lock: the bus thread, which   *)
(* is told when a transfer starts and ends, the interrupt routine that it  *)
(* signals with a byte, and the application's thread.  A buffer is a name; *)
(* a transfer is its two buffers and the bytes the master clocked.         *)
(***************************************************************************)
EXTENDS Integers, Sequences, FiniteSets

CONSTANTS
    SpsBufs,     \* the buffers the application prepares
    SpsLen,      \* most bytes in a transfer
    SpsQueueSize \* RTOS_SPI_SLAVE_XFER_DONE_QUEUE_SIZE

SpsDefault == "default"

ASSUME SpsAssumption == SpsBufs # {} /\ SpsDefault \notin SpsBufs

VARIABLES
    spsCtx,      \* the fields of rtos_spi_slave_t the threads share
    spsXfer,     \* the transfer on the bus
    spsChan,     \* bytes on their way to the interrupt routine
    spsQueue,    \* xfer_done_queue
    spsNotified, \* a notification of the application's thread is pending
    spsApp,      \* the application's thread
    spsDone      \* user transfers that ended with data, not yet received by
                 \* the application

spsVars == <<spsCtx, spsXfer, spsChan, spsQueue, spsNotified, spsApp, spsDone>>

\* After the start callback: default buffers and user buffers are prepared.
\* One application drops the default transfers and completes one transfer in a
\* callback, the other completes all there are.
SpsInit ==
    /\ \E drop \in BOOLEAN :
          spsCtx = [in_buf |-> CHOOSE b \in SpsBufs : TRUE,
                    out_buf |-> CHOOSE b \in SpsBufs : TRUE,
                    bytes |-> 0, default_bytes |-> 0,
                    user_data_ready |-> TRUE, drop |-> drop]
    /\ spsXfer = [on |-> FALSE, in |-> SpsDefault, out |-> SpsDefault]
    /\ spsChan = <<>> /\ spsQueue = <<>> /\ spsNotified = FALSE
    /\ spsApp = "idle" /\ spsDone = <<>>

SpsItem(in, out, n) == [in |-> in, out |-> out, n |-> n]

slave_transaction_started ==
    /\ ~spsXfer.on
    /\ spsXfer' = IF spsCtx.user_data_ready
                  THEN [on |-> TRUE, in |-> spsCtx.in_buf, out |-> spsCtx.out_buf]
                  ELSE [on |-> TRUE, in |-> SpsDefault, out |-> SpsDefault]
    /\ spsCtx' = [spsCtx EXCEPT !.user_data_ready = FALSE]
    /\ UNCHANGED <<spsChan, spsQueue, spsNotified, spsApp, spsDone>>

\* A transfer of no bytes is not reported at all; a default one is not when the
\* application has asked for that.  The channel holds a byte for each of the
\* reports in flight, two here: a third report would have to wait.
slave_transaction_ended(n) ==
    /\ spsXfer.on /\ Len(spsChan) < 2
    /\ spsXfer' = [spsXfer EXCEPT !.on = FALSE]
    /\ \/ /\ n = 0
          /\ UNCHANGED <<spsCtx, spsChan, spsDone>>
       \/ /\ n > 0 /\ spsXfer.in = SpsDefault /\ spsXfer.out = SpsDefault
          /\ spsCtx' = [spsCtx EXCEPT !.default_bytes = n]
          /\ spsChan' = IF spsCtx.drop THEN spsChan ELSE Append(spsChan, "default")
          /\ UNCHANGED spsDone
       \/ /\ n > 0 /\ ~(spsXfer.in = SpsDefault /\ spsXfer.out = SpsDefault)
          /\ spsCtx' = [spsCtx EXCEPT !.bytes = n]
          /\ spsChan' = Append(spsChan, "user")
          /\ spsDone' = Append(spsDone, SpsItem(spsXfer.in, spsXfer.out, n))
    /\ UNCHANGED <<spsQueue, spsNotified, spsApp>>

\* The routine reads the fields when it runs, whatever has happened to them
\* since the byte was sent; a report that finds the queue full is lost.
rtos_spi_slave_isr ==
    /\ spsChan # <<>>
    /\ LET item == IF Head(spsChan) = "user"
                   THEN SpsItem(spsCtx.in_buf, spsCtx.out_buf, spsCtx.bytes)
                   ELSE SpsItem(SpsDefault, SpsDefault, spsCtx.default_bytes)
       IN  IF Len(spsQueue) < SpsQueueSize
           THEN /\ spsQueue' = Append(spsQueue, item)
                /\ spsNotified' = TRUE
                /\ UNCHANGED spsDone
           ELSE /\ spsDone' = IF Head(spsChan) = "user" THEN Tail(spsDone) ELSE spsDone
                /\ UNCHANGED <<spsQueue, spsNotified>>
    /\ spsChan' = Tail(spsChan)
    /\ UNCHANGED <<spsCtx, spsXfer, spsApp>>

\* spi_slave_app_thread: taking the notification clears its count.
spi_slave_app_thread ==
    /\ spsApp = "idle" /\ spsNotified
    /\ spsNotified' = FALSE /\ spsApp' = "callback"
    /\ UNCHANGED <<spsCtx, spsXfer, spsChan, spsQueue, spsDone>>

\* spi_slave_xfer_complete with a timeout of 0, and what the callback does next.
spi_slave_xfer_complete ==
    /\ spsApp = "callback"
    /\ IF spsQueue = <<>>
       THEN spsApp' = "idle" /\ UNCHANGED <<spsQueue, spsDone>>
       ELSE /\ spsQueue' = Tail(spsQueue)
            /\ IF Head(spsQueue).in = SpsDefault
               THEN spsApp' = (IF spsCtx.drop THEN "idle" ELSE "callback") /\ UNCHANGED spsDone
               ELSE spsApp' = "prepare" /\ spsDone' = Tail(spsDone)
    /\ UNCHANGED <<spsCtx, spsXfer, spsChan, spsNotified>>

\* Mutant: the buffers are handed over before both are set.
spi_slave_xfer_prepare_early ==
    \/ /\ spsApp = "prepare"
       /\ \E b \in SpsBufs :
             spsCtx' = [spsCtx EXCEPT !.in_buf = b, !.user_data_ready = TRUE]
       /\ spsApp' = "prepare_out"
       /\ UNCHANGED <<spsXfer, spsChan, spsQueue, spsNotified, spsDone>>
    \/ /\ spsApp = "prepare_out"
       /\ spsCtx' = [spsCtx EXCEPT !.out_buf = spsCtx.in_buf]
       /\ spsApp' = IF spsCtx.drop THEN "idle" ELSE "callback"
       /\ UNCHANGED <<spsXfer, spsChan, spsQueue, spsNotified, spsDone>>

\* The fields are set one after the other, user_data_ready the last.
spi_slave_xfer_prepare ==
    \/ /\ spsApp = "prepare"
       /\ \E b \in SpsBufs : spsCtx' = [spsCtx EXCEPT !.in_buf = b]
       /\ spsApp' = "prepare_out"
       /\ UNCHANGED <<spsXfer, spsChan, spsQueue, spsNotified, spsDone>>
    \/ /\ spsApp = "prepare_out"
       /\ spsCtx' = [spsCtx EXCEPT !.out_buf = spsCtx.in_buf, !.user_data_ready = TRUE]
       /\ spsApp' = IF spsCtx.drop THEN "idle" ELSE "callback"
       /\ UNCHANGED <<spsXfer, spsChan, spsQueue, spsNotified, spsDone>>

SpsBus == \/ slave_transaction_started
          \/ \E n \in 0..SpsLen : slave_transaction_ended(n)

SpsAppStep == spi_slave_app_thread \/ spi_slave_xfer_complete \/ spi_slave_xfer_prepare

SpsNext == SpsBus \/ rtos_spi_slave_isr \/ SpsAppStep

\* The interrupt is served and the application's thread runs.
SpsFairness == WF_spsVars(rtos_spi_slave_isr) /\ WF_spsVars(SpsAppStep)

SpsSpec == SpsInit /\ [][SpsNext]_spsVars /\ SpsFairness

SpsTypeOK ==
    LET bufs == SpsBufs \cup {SpsDefault}
        items == [in : bufs, out : bufs, n : 0..SpsLen]
    IN  /\ spsCtx \in [in_buf : SpsBufs, out_buf : SpsBufs, bytes : 0..SpsLen,
                       default_bytes : 0..SpsLen, user_data_ready : BOOLEAN, drop : BOOLEAN]
        /\ spsXfer \in [on : BOOLEAN, in : bufs, out : bufs]
        /\ \A i \in 1..Len(spsQueue) : spsQueue[i] \in items
        /\ \A i \in 1..Len(spsDone) : spsDone[i] \in items
        /\ Len(spsQueue) <= SpsQueueSize
        /\ spsApp \in {"idle", "callback", "prepare", "prepare_out"}

\* The reports of user transfers that wait for the application, in the queue or
\* still to be made by the interrupt routine, are those of the transfers that
\* happened: their own two buffers, prepared together, and their own bytes.  The
\* context is not overwritten before the routine has read it.  And an application
\* that drops the default transfers and completes one transfer in every callback,
\* without looking at what spi_slave_xfer_complete returns (as
\* device_control_spi_xfer_done_cb), always finds one.
SpiSlaveTruth ==
    LET queued == {i \in DOMAIN spsQueue : spsQueue[i].in # SpsDefault}
        signalled == {i \in DOMAIN spsChan : spsChan[i] = "user"}
    IN  /\ Cardinality(queued) + Cardinality(signalled) = Len(spsDone)
        /\ \A i \in queued : spsQueue[i] = spsDone[Cardinality({j \in queued : j <= i})]
        /\ \A i \in 1..Len(spsDone) : spsDone[i].in = spsDone[i].out
        /\ spsCtx.user_data_ready => spsDone = <<>>
        /\ spsCtx.drop /\ spsApp = "callback" => spsQueue # <<>>

\* A user transfer has yet to be given to the application.
SpsUnreported == spsCtx.drop /\ spsDone # <<>>
=============================================================================
