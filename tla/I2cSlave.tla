------------------------------ MODULE I2cSlave ------------------------------
(***************************************************************************)
(* The I2C slave driver (drivers/i2c/src/rtos_i2c_slave.c).  The bus       *)
(* thread runs a callback for every event of the bus and stretches the     *)
(* clock meanwhile.  When a transfer is over it sends a byte, which raises *)
(* an interrupt, whose routine has an event flag set, for which the        *)
(* application's thread waits: that thread calls the application and sends *)
(* a byte back.  After a stop bit the bus thread does not wait for that    *)
(* byte before the next event of the bus, but during it.  The buffer and   *)
(* its indices belong to both threads, without a lock.                     *)
(***************************************************************************)
EXTENDS Integers, Sequences

CONSTANTS
    IscBufLen,   \* RTOS_I2C_SLAVE_BUF_LEN
    IscMaxBytes, \* bound on the bytes of one transfer
    IscBytes     \* the bytes a master writes

ASSUME IscAssumption == IscBufLen \in Nat \ {0}

VARIABLES
    iscCtx,      \* fields of rtos_i2c_slave_t
    iscHil,      \* the bus thread: where it is, and what follows the check
    iscOut,      \* bytes from the bus thread, not yet seen by the routine
    iscPend,     \* flags the timer task is still to set for the routine
    iscFlags,    \* flags set in ctx->events
    iscBack,     \* bytes back to the bus thread
    iscApp,      \* the application's thread: where it is, flags left to serve
    iscBus,      \* what the master has transferred since it sent the address
    iscDone      \* transfers that are over, of which the application has to be
                 \* told

iscVars == <<iscCtx, iscHil, iscOut, iscPend, iscFlags, iscBack, iscApp, iscBus, iscDone>>

NoTransfer == [dir |-> "none", data |-> <<>>]

\* After start-up; the application may have given no tx_done.
IscInit ==
    /\ \E tx_done \in BOOLEAN :
          iscCtx = [buf |-> <<>>, rx_data_i |-> 0, tx |-> FALSE, tx_data_len |-> 0,
                    tx_data_i |-> 0, tx_data_sent |-> 0, waiting |-> FALSE, tx_done |-> tx_done]
    /\ iscHil = [pc |-> "idle", then |-> "idle"]
    /\ iscOut = <<>> /\ iscPend = <<>> /\ iscFlags = {} /\ iscBack = 0
    /\ iscApp = [pc |-> "wait", flags |-> {}]
    /\ iscBus = NoTransfer /\ iscDone = <<>>

TxCleared(ctx) ==
    [ctx EXCEPT !.tx = FALSE, !.tx_data_len = 0, !.tx_data_i = 0, !.tx_data_sent = 0]

HilGoto(there) == iscHil' = [iscHil EXCEPT !.pc = there]

-----------------------------------------------------------------------------
(***************************************************************************)
(* The bus thread.  A start, a repeated start and a stop first run         *)
(* xfer_complete_check, with WAIT unless it is a stop.                     *)
(***************************************************************************)

\* What was transferred before this event is over.
TransferOver ==
    /\ iscDone' = IF iscBus.data # <<>> /\ (iscBus.dir = "rx" \/ iscCtx.tx_done)
                  THEN Append(iscDone, iscBus) ELSE iscDone
    /\ iscBus' = NoTransfer

IscStart(then) ==
    /\ iscHil.pc \in {"idle", "reading", "writing", "refused"}
    /\ TransferOver
    /\ iscHil' = [pc |-> "previous", then |-> then]
    /\ UNCHANGED <<iscCtx, iscOut, iscPend, iscFlags, iscBack, iscApp>>

\* i2c_stop_bit
IscStop ==
    /\ iscHil.pc \in {"reading", "writing", "refused"}
    /\ TransferOver
    /\ iscHil' = [pc |-> "previous", then |-> "idle"]
    /\ UNCHANGED <<iscCtx, iscOut, iscPend, iscFlags, iscBack, iscApp>>

\* xfer_complete_check, first the answer to the transfer before.
IscPrevious ==
    /\ iscHil.pc = "previous"
    /\ iscCtx.waiting => iscBack > 0
    /\ iscBack' = IF iscCtx.waiting THEN iscBack - 1 ELSE iscBack
    /\ iscCtx' = [iscCtx EXCEPT !.waiting = FALSE]
    /\ HilGoto("complete")
    /\ UNCHANGED <<iscOut, iscPend, iscFlags, iscApp, iscBus, iscDone>>

NoteWaiting(ctx) == [ctx EXCEPT !.waiting = TRUE]

\* Then what is complete now.
IscComplete ==
    /\ iscHil.pc = "complete"
    /\ LET code == IF iscCtx.tx_data_sent > 0
                   THEN IF iscCtx.tx_done THEN "tx_done" ELSE "none"
                   ELSE IF iscCtx.rx_data_i > 0 THEN "rx" ELSE "none"
       IN  /\ iscOut' = IF code = "none" THEN iscOut ELSE Append(iscOut, code)
           /\ iscCtx' = IF code # "none"
                        THEN IF iscHil.then = "idle" THEN NoteWaiting(iscCtx) ELSE iscCtx
                        ELSE IF iscCtx.tx_data_sent > 0 THEN TxCleared(iscCtx) ELSE iscCtx
           /\ HilGoto(IF code # "none" /\ iscHil.then # "idle" THEN "answer" ELSE iscHil.then)
    /\ UNCHANGED <<iscPend, iscFlags, iscBack, iscApp, iscBus, iscDone>>

IscAnswer ==
    /\ iscHil.pc = "answer" /\ iscBack > 0
    /\ iscBack' = iscBack - 1
    /\ HilGoto(iscHil.then)
    /\ UNCHANGED <<iscCtx, iscOut, iscPend, iscFlags, iscApp, iscBus, iscDone>>

\* i2c_ack_read_req after the check: the application gives what to send.
IscReadRequest ==
    /\ iscHil.pc = "read"
    /\ iscCtx' = [iscCtx EXCEPT !.tx = TRUE]
    /\ iscOut' = Append(iscOut, "tx_start")
    /\ HilGoto("tx_start")
    /\ UNCHANGED <<iscPend, iscFlags, iscBack, iscApp, iscBus, iscDone>>

IscReadAck ==
    /\ iscHil.pc = "tx_start" /\ iscBack > 0
    /\ iscBack' = iscBack - 1
    /\ iscCtx' = [iscCtx EXCEPT !.tx_data_i = 0, !.tx_data_sent = 0]
    /\ HilGoto(IF iscCtx.tx_data_len > 0 /\ iscCtx.tx THEN "reading" ELSE "refused")
    /\ UNCHANGED <<iscOut, iscPend, iscFlags, iscApp, iscBus, iscDone>>

\* i2c_ack_write_req after the check; write_addr_req may refuse.
IscWriteAck ==
    /\ iscHil.pc = "write"
    /\ iscCtx' = [iscCtx EXCEPT !.rx_data_i = 0, !.buf = <<>>]
    /\ \E there \in {"writing", "refused"} : HilGoto(there)
    /\ UNCHANGED <<iscOut, iscPend, iscFlags, iscBack, iscApp, iscBus, iscDone>>

\* i2c_master_req_data: the data given is sent again from its start when the
\* master asks for more.
i2c_master_req_data ==
    /\ iscHil.pc = "reading" /\ Len(iscBus.data) < IscMaxBytes
    /\ iscBus' = [dir |-> "tx", data |-> Append(iscBus.data, 0)]
    /\ iscCtx' = [iscCtx EXCEPT !.tx_data_i = (@ + 1) % iscCtx.tx_data_len, !.tx_data_sent = @ + 1]
    /\ UNCHANGED <<iscHil, iscOut, iscPend, iscFlags, iscBack, iscApp, iscDone>>

\* i2c_master_sent_data: bytes beyond the buffer are dropped; rx_byte_check may
\* change the answer.
i2c_master_sent_data(b) ==
    /\ iscHil.pc = "writing" /\ Len(iscBus.data) < IscMaxBytes
    /\ iscBus' = [dir |-> "rx", data |-> Append(iscBus.data, b)]
    /\ iscCtx' = IF iscCtx.rx_data_i < IscBufLen
                 THEN [iscCtx EXCEPT !.buf = Append(@, b), !.rx_data_i = @ + 1]
                 ELSE iscCtx
    /\ \E there \in {"writing", "refused"} : HilGoto(there)
    /\ UNCHANGED <<iscOut, iscPend, iscFlags, iscBack, iscApp, iscDone>>

-----------------------------------------------------------------------------
\* rtos_i2c_slave_isr: a routine may not set flags itself, it asks the timer
\* task to.
rtos_i2c_slave_isr ==
    /\ iscOut # <<>>
    /\ iscPend' = Append(iscPend, Head(iscOut))
    /\ iscOut' = Tail(iscOut)
    /\ UNCHANGED <<iscCtx, iscHil, iscFlags, iscBack, iscApp, iscBus, iscDone>>

IscSetFlags ==
    /\ iscPend # <<>>
    /\ iscFlags' = iscFlags \cup {Head(iscPend)}
    /\ iscPend' = Tail(iscPend)
    /\ UNCHANGED <<iscCtx, iscHil, iscOut, iscBack, iscApp, iscBus, iscDone>>

\* i2c_slave_app_thread: all flags are taken and served in a fixed order.
NextCallback(flags) ==
    IF "rx" \in flags THEN "rx"
    ELSE IF "tx_start" \in flags THEN "tx_start"
    ELSE IF "tx_done" \in flags THEN "tx_done" ELSE "wait"

IscTakeFlags ==
    /\ iscApp.pc = "wait" /\ iscFlags # {}
    /\ iscApp' = [pc |-> NextCallback(iscFlags), flags |-> iscFlags]
    /\ iscFlags' = {}
    /\ UNCHANGED <<iscCtx, iscHil, iscOut, iscPend, iscBack, iscBus, iscDone>>

CallbackDone ==
    LET flags == iscApp.flags \ {iscApp.pc}
    IN  iscApp' = [pc |-> NextCallback(flags), flags |-> flags]

\* Mutant: the bus thread goes on before the received bytes are cleared.
IscRxUncleared ==
    /\ iscApp.pc = "rx"
    /\ iscDone' = Tail(iscDone)
    /\ iscBack' = iscBack + 1 /\ CallbackDone
    /\ UNCHANGED <<iscCtx, iscHil, iscOut, iscPend, iscFlags, iscBus>>

IscRx ==
    /\ iscApp.pc = "rx"
    /\ iscDone' = Tail(iscDone)
    /\ iscCtx' = [iscCtx EXCEPT !.rx_data_i = 0]
    /\ iscBack' = iscBack + 1 /\ CallbackDone
    /\ UNCHANGED <<iscHil, iscOut, iscPend, iscFlags, iscBus>>

\* The application may have nothing to send.
IscTxStart ==
    /\ iscApp.pc = "tx_start"
    /\ \E n \in 0..2 : iscCtx' = [iscCtx EXCEPT !.tx_data_len = n]
    /\ iscBack' = iscBack + 1 /\ CallbackDone
    /\ UNCHANGED <<iscHil, iscOut, iscPend, iscFlags, iscBus, iscDone>>

IscTxDone ==
    /\ iscApp.pc = "tx_done"
    /\ iscDone' = Tail(iscDone)
    /\ iscCtx' = TxCleared(iscCtx)
    /\ iscBack' = iscBack + 1 /\ CallbackDone
    /\ UNCHANGED <<iscHil, iscOut, iscPend, iscFlags, iscBus>>

-----------------------------------------------------------------------------
IscBusEvent ==
    \/ \E then \in {"read", "write"} : IscStart(then)
    \/ IscStop \/ i2c_master_req_data
    \/ \E b \in IscBytes : i2c_master_sent_data(b)

IscHilCode == \/ IscPrevious \/ IscComplete \/ IscAnswer
              \/ IscReadRequest \/ IscReadAck \/ IscWriteAck

IscAppCode == IscTakeFlags \/ IscRx \/ IscTxStart \/ IscTxDone

IscNext == IscBusEvent \/ IscHilCode \/ IscAppCode \/ rtos_i2c_slave_isr \/ IscSetFlags

\* The threads run, the interrupt is served and the timer task does its work;
\* the master may do nothing.
IscFairness ==
    /\ WF_iscVars(IscHilCode) /\ WF_iscVars(IscAppCode)
    /\ WF_iscVars(rtos_i2c_slave_isr) /\ WF_iscVars(IscSetFlags)

IscSpec == IscInit /\ [][IscNext]_iscVars /\ IscFairness

IscTypeOK ==
    /\ iscCtx.rx_data_i \in 0..IscBufLen /\ iscCtx.tx_data_sent \in 0..IscMaxBytes
    /\ Len(iscCtx.buf) <= IscBufLen /\ iscCtx.tx_data_len \in 0..2 /\ iscCtx.tx_data_i \in 0..1
    /\ {iscCtx.tx, iscCtx.waiting, iscCtx.tx_done} \subseteq BOOLEAN
    /\ iscHil \in [pc : {"idle", "reading", "writing", "refused", "previous", "complete",
                         "answer", "read", "tx_start", "write"},
                   then : {"idle", "read", "write"}]
    /\ iscFlags \subseteq {"rx", "tx_start", "tx_done"} /\ iscBack \in 0..1
    /\ iscApp \in [pc : {"wait", "rx", "tx_start", "tx_done"},
                   flags : SUBSET {"rx", "tx_start", "tx_done"}]

\* The two threads pass one request to and fro: one is on its way, with the
\* application or answered exactly when the bus thread waits for it, or has noted
\* that it has to.  So an answer is never taken for that of another request, and
\* the bus thread leaves buffer and indices alone while the application has them:
\* the application is told of each transfer that is over, once, in order, and
\* while the buffer and the count are those of that transfer: the bytes written,
\* as far as they fit, or the number of bytes read.
I2cSlaveOneRequest ==
    LET requests == Len(iscOut) + Len(iscPend) + iscBack
                      + (IF iscFlags # {} THEN 1 ELSE 0)
                      + (IF iscApp.pc # "wait" THEN 1 ELSE 0)
        awaited == (IF iscCtx.waiting THEN 1 ELSE 0)
                     + (IF iscHil.pc \in {"answer", "tx_start"} THEN 1 ELSE 0)
        over == Head(iscDone)
        bytes == IF Len(over.data) <= IscBufLen THEN over.data
                 ELSE SubSeq(over.data, 1, IscBufLen)
    IN  /\ requests = awaited
        /\ iscApp.pc = "rx" =>
              /\ iscDone # <<>> /\ over.dir = "rx"
              /\ SubSeq(iscCtx.buf, 1, iscCtx.rx_data_i) = bytes
        /\ iscApp.pc = "tx_done" =>
              iscDone # <<>> /\ over.dir = "tx" /\ iscCtx.tx_data_sent = Len(over.data)

\* The clock is stretched; the application has yet to be told of a transfer.
IscStretched == iscHil.pc \notin {"idle", "reading", "writing", "refused"}
IscUntold == iscDone # <<>>
=============================================================================
