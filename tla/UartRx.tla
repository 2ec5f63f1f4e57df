------------------------------- MODULE UartRx -------------------------------
(***************************************************************************)
(* The UART receiver (drivers/uart/src/rtos_uart_rx.c).  A bus thread      *)
(* sends each byte to an interrupt routine, which notifies the driver's    *)
(* thread and then puts the byte in a FIFO; the thread empties the FIFO    *)
(* into a stream buffer from which the application reads.  Nobody waits    *)
(* for room: bytes that do not fit are lost, and a flag is to say so.      *)
(*                                                                         *)
(* A byte is its number on the line.  The FIFO (push_byte_into_buffer and  *)
(* pop_byte_from_buffer) and the stream buffer are external.  Three        *)
(* threads change cb_flags; the bus thread and the routine load it in one  *)
(* step and store it in another.                                           *)
(***************************************************************************)
EXTENDS Integers, Sequences, FiniteSets

CONSTANTS
    UrxFifo,    \* RTOS_UART_RX_BUF_LEN
    UrxStream,  \* app_rx_buff_size
    UrxFrames   \* bound on the bytes received

ASSUME UrxAssumption == UrxStream \in Nat

VARIABLES
    urxLine,    \* bytes received from the line so far
    urxHil,     \* the bus thread: where it is and the flags it has loaded
    urxChan,    \* bytes on their way to the routine
    urxIsr,     \* the routine: where it is, its byte and the flags it has loaded
    urxNotified,
    urxFifo,    \* isr_to_app_fifo
    urxApp,     \* the driver's thread: where it is, the bytes and flags it has
    urxFlags,   \* cb_flags
    urxStream,  \* app_byte_buffer
    urxRead,    \* the last byte the application has read, 0 if none
    urxLost     \* bytes dropped, or reset by the application

urxVars == <<urxLine, urxHil, urxChan, urxIsr, urxNotified, urxFifo, urxApp, urxFlags,
             urxStream, urxRead, urxLost>>

UrxInit ==
    /\ urxLine = 0 /\ urxHil = [pc |-> "line", flags |-> {}] /\ urxChan = <<>>
    /\ urxIsr = [pc |-> "idle", byte |-> 0, flags |-> {}]
    /\ urxNotified = FALSE /\ urxFifo = <<>>
    /\ urxApp = [pc |-> "wait", bytes |-> <<>>] /\ urxFlags = {}
    /\ urxStream = <<>> /\ urxRead = 0 /\ urxLost = 0

-----------------------------------------------------------------------------
\* uart_rx, which may find an error in the frame, and uart_rx_error_callback.
UrxFrame ==
    /\ urxHil.pc = "line" /\ urxLine < UrxFrames
    /\ urxLine' = urxLine + 1
    /\ \/ urxHil' = [pc |-> "send", flags |-> {}]
       \/ urxHil' = [pc |-> "error", flags |-> urxFlags]
    /\ UNCHANGED <<urxChan, urxIsr, urxNotified, urxFifo, urxApp, urxFlags, urxStream,
                   urxRead, urxLost>>

uart_rx_error_callback ==
    /\ urxHil.pc = "error"
    /\ urxFlags' = urxHil.flags \cup {"error"}
    /\ urxHil' = [pc |-> "send", flags |-> {}]
    /\ UNCHANGED <<urxLine, urxChan, urxIsr, urxNotified, urxFifo, urxApp, urxStream,
                   urxRead, urxLost>>

\* uart_rx_hil_thread: a byte the routine has not read yet keeps the thread.
uart_rx_hil_thread ==
    /\ urxHil.pc = "send" /\ urxChan = <<>>
    /\ urxChan' = <<urxLine>>
    /\ urxHil' = [pc |-> "line", flags |-> {}]
    /\ UNCHANGED <<urxLine, urxIsr, urxNotified, urxFifo, urxApp, urxFlags, urxStream,
                   urxRead, urxLost>>

\* rtos_uart_rx_isr: the notification goes out first.
UrxIsrNotify ==
    /\ urxIsr.pc = "idle" /\ urxChan # <<>>
    /\ urxIsr' = [pc |-> "push", byte |-> Head(urxChan), flags |-> {}]
    /\ urxChan' = <<>> /\ urxNotified' = TRUE
    /\ UNCHANGED <<urxLine, urxHil, urxFifo, urxApp, urxFlags, urxStream, urxRead,
                   urxLost>>

\* Mutant: the new byte replaces the last one when the FIFO is full.
UrxIsrPushOver ==
    /\ urxIsr.pc = "push"
    /\ urxFifo' = IF Len(urxFifo) < UrxFifo THEN Append(urxFifo, urxIsr.byte)
                  ELSE [urxFifo EXCEPT ![1] = urxIsr.byte]
    /\ urxIsr' = [pc |-> "idle", byte |-> 0, flags |-> {}]
    /\ UNCHANGED <<urxLine, urxHil, urxChan, urxNotified, urxApp, urxFlags, urxStream,
                   urxRead, urxLost>>

UrxIsrPush ==
    /\ urxIsr.pc = "push"
    /\ IF Len(urxFifo) < UrxFifo
       THEN /\ urxFifo' = Append(urxFifo, urxIsr.byte)
            /\ urxIsr' = [pc |-> "idle", byte |-> 0, flags |-> {}]
            /\ UNCHANGED urxLost
       ELSE /\ urxIsr' = [urxIsr EXCEPT !.pc = "overrun", !.flags = urxFlags]
            /\ urxLost' = urxLost + 1
            /\ UNCHANGED urxFifo
    /\ UNCHANGED <<urxLine, urxHil, urxChan, urxNotified, urxApp, urxFlags, urxStream,
                   urxRead>>

UrxIsrOverrun ==
    /\ urxIsr.pc = "overrun"
    /\ urxFlags' = urxIsr.flags \cup {"overrun"}
    /\ urxIsr' = [pc |-> "idle", byte |-> 0, flags |-> {}]
    /\ UNCHANGED <<urxLine, urxHil, urxChan, urxNotified, urxFifo, urxApp, urxStream,
                   urxRead, urxLost>>

-----------------------------------------------------------------------------
(***************************************************************************)
(* uart_rx_app_thread.                                                     *)
(***************************************************************************)

UrxTake ==
    /\ urxApp.pc = "wait" /\ urxNotified
    /\ urxApp' = [pc |-> "pop", bytes |-> <<>>]
    /\ urxNotified' = FALSE
    /\ UNCHANGED <<urxLine, urxHil, urxChan, urxIsr, urxFifo, urxFlags, urxStream,
                   urxRead, urxLost>>

\* Mutant: one byte is taken for a notification.
UrxPopOne ==
    /\ urxApp.pc = "pop"
    /\ urxApp' = [pc |-> IF urxFifo = <<>> THEN "wait" ELSE "send",
                  bytes |-> IF urxFifo = <<>> THEN <<>> ELSE <<Head(urxFifo)>>]
    /\ urxFifo' = IF urxFifo = <<>> THEN <<>> ELSE Tail(urxFifo)
    /\ UNCHANGED <<urxLine, urxHil, urxChan, urxIsr, urxNotified, urxFlags, urxStream,
                   urxRead, urxLost>>

\* One call of pop_byte_from_buffer; the routine may push meanwhile.
UrxPop ==
    /\ urxApp.pc = "pop"
    /\ IF urxFifo # <<>>
       THEN /\ urxApp' = [urxApp EXCEPT !.bytes = Append(@, Head(urxFifo))]
            /\ urxFifo' = Tail(urxFifo)
       ELSE /\ urxApp' = [urxApp EXCEPT !.pc = IF urxApp.bytes = <<>> THEN "wait" ELSE "send"]
            /\ UNCHANGED urxFifo
    /\ UNCHANGED <<urxLine, urxHil, urxChan, urxIsr, urxNotified, urxFlags, urxStream,
                   urxRead, urxLost>>

\* xStreamBufferSend without waiting takes what fits.
UrxSend ==
    /\ urxApp.pc = "send"
    /\ LET room == UrxStream - Len(urxStream)
           n == IF Len(urxApp.bytes) <= room THEN Len(urxApp.bytes) ELSE room
       IN  /\ urxStream' = urxStream \o SubSeq(urxApp.bytes, 1, n)
           /\ urxLost' = urxLost + Len(urxApp.bytes) - n
           /\ urxFlags' = IF n < Len(urxApp.bytes) THEN urxFlags \cup {"overrun"} ELSE urxFlags
           /\ urxApp' = [pc |-> IF urxFlags' # {} THEN "error" ELSE "wait", bytes |-> <<>>]
    /\ UNCHANGED <<urxLine, urxHil, urxChan, urxIsr, urxNotified, urxFifo, urxRead>>

\* After rx_error_cb all flags are cleared, those set since it was called too.
UrxClearFlags ==
    /\ urxApp.pc = "error"
    /\ urxFlags' = {}
    /\ urxApp' = [urxApp EXCEPT !.pc = "wait"]
    /\ UNCHANGED <<urxLine, urxHil, urxChan, urxIsr, urxNotified, urxFifo, urxStream,
                   urxRead, urxLost>>

\* rtos_uart_rx_read, one byte of it.
rtos_uart_rx_read ==
    /\ urxStream # <<>>
    /\ urxRead' = Head(urxStream) /\ urxStream' = Tail(urxStream)
    /\ UNCHANGED <<urxLine, urxHil, urxChan, urxIsr, urxNotified, urxFifo, urxApp,
                   urxFlags, urxLost>>

rtos_uart_rx_reset_buffer ==
    /\ urxStream # <<>>
    /\ urxLost' = urxLost + Len(urxStream) /\ urxStream' = <<>>
    /\ UNCHANGED <<urxLine, urxHil, urxChan, urxIsr, urxNotified, urxFifo, urxApp,
                   urxFlags, urxRead>>

-----------------------------------------------------------------------------
UrxHilCode == UrxFrame \/ uart_rx_error_callback \/ uart_rx_hil_thread
UrxIsrCode == UrxIsrNotify \/ UrxIsrPush \/ UrxIsrOverrun
UrxAppCode == UrxTake \/ UrxPop \/ UrxSend \/ UrxClearFlags

UrxNext == UrxHilCode \/ UrxIsrCode \/ UrxAppCode \/ rtos_uart_rx_read \/ rtos_uart_rx_reset_buffer

\* The routine and the threads run; the line and the application need not.
UrxFairness == WF_urxVars(UrxIsrCode) /\ WF_urxVars(UrxAppCode)

UrxInFlight ==
    urxStream \o urxApp.bytes \o urxFifo
      \o (IF urxIsr.pc = "push" THEN <<urxIsr.byte>> ELSE <<>>)
      \o urxChan \o (IF urxHil.pc \in {"send", "error"} THEN <<urxLine>> ELSE <<>>)

UrxSpec == UrxInit /\ [][UrxNext]_urxVars /\ UrxFairness

UrxTypeOK ==
    LET flags == SUBSET {"error", "overrun"} IN
    /\ urxLine \in 0..UrxFrames /\ urxRead \in 0..UrxFrames /\ urxLost \in 0..UrxFrames
    /\ urxHil \in [pc : {"line", "error", "send"}, flags : flags]
    /\ urxIsr \in [pc : {"idle", "push", "overrun"}, byte : 0..UrxFrames, flags : flags]
    /\ urxApp.pc \in {"wait", "pop", "send", "error"} /\ urxFlags \in flags
    /\ Len(urxFifo) <= UrxFifo /\ Len(urxStream) <= UrxStream

\* The application reads the bytes in the order of the line, none of them twice,
\* whatever is dropped on the way.
UartInOrder ==
    LET all == <<urxRead>> \o UrxInFlight
    IN  \A i \in 1..Len(all) - 1 : all[i] < all[i + 1]

\* The routine notifies before it pushes, so a notification may be used up before
\* its byte is there; the next one makes up for it: one byte may stay behind, two
\* may not.
UrxHeldBack == Len(urxFifo) > 1
=============================================================================
