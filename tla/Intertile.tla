----------------------------- MODULE Intertile -----------------------------
(***************************************************************************)
(* One direction of an intertile link (drivers/intertile/src/              *)
(* rtos_intertile.c): tasks of one tile send messages to ports of the      *)
(* other tile over one streaming channel.  The sender's half is the mutex  *)
(* ctx->lock and ctx->tx_len, the receiver's half the interrupt on the     *)
(* channel end, the event group and ctx->rx_len.  The other direction has  *)
(* its own half of each context and shares nothing with this one.          *)
(*                                                                         *)
(* The channel holds tokens: a port byte for the ISR, a length word, data  *)
(* bytes.  A token of one kind must never be taken for another: nothing in *)
(* the channel tells them apart, only the state of the readers.  A reader   *)
(* that meets a token of another kind goes no further here: Framing says   *)
(* that none ever does.                                                    *)
(*                                                                         *)
(* On the receiving tile one thread listens on each port, as the API       *)
(* demands.  The ISR's rtos_osal_event_group_set_bits is carried out later *)
(* by the kernel's daemon task (xEventGroupSetBitsFromISR).                *)
(***************************************************************************)
EXTENDS Integers, Sequences

CONSTANTS
    Senders,       \* tasks that send
    Ports,         \* ports, each with the one thread that listens on it
    Lengths,       \* message lengths, in data tokens
    ChanCapacity,  \* tokens the channel buffers before an output blocks
    MaxMessages,   \* bound: messages sent altogether
    EmptyTails,    \* senders that end with an empty rtos_intertile_tx_data
    None

ASSUME IntertileAssumption ==
    /\ Lengths \subseteq Nat \ {0}
    /\ ChanCapacity \in Nat \ {0}
    /\ MaxMessages \in Nat
    /\ EmptyTails \subseteq Senders
    /\ None \notin Senders \cup Ports

\* rtos_intertile_tx and rtos_intertile_rx move a message in one call; the
\* _len and _data functions move it in as many pieces as the caller likes.
Apis == {"whole", "pieces"}

Messages == [id : 1..MaxMessages, port : Ports, len : Lengths]

PortToken(m) == [kind |-> "port", id |-> m.id, value |-> m.port]
LenToken(m) == [kind |-> "len", id |-> m.id, value |-> m.len]
DataToken(m, i) == [kind |-> "data", id |-> m.id, value |-> i]

VARIABLES
    sentCount,  \* messages sent so far
    lock,       \* holder of ctx->lock
    tx_len,     \* ctx->tx_len
    tx,         \* tx[s]: the call of sender s
    channel,    \* tokens in the streaming channel
    trigger,    \* the interrupt on the channel end is enabled
    deferred,   \* port whose bit the daemon task has still to set
    flags,      \* bits set in the event group
    rx_len,     \* ctx->rx_len
    rx,         \* rx[p]: the call of the listener of port p
    sent,       \* history: sent[p], messages in the order of their lock
    received    \* history: received[p], data the listener was given

txVars == <<sentCount, lock, tx_len, tx, sent>>
rxVars == <<trigger, deferred, flags, rx_len, rx, received>>
vars == <<txVars, channel, rxVars>>

\* next: index of the next data byte; piece: bytes this call moves; left: of
\* these, the bytes still to be moved.
NoTx == [pc |-> "idle", api |-> "whole", msg |-> None, next |-> 1,
         piece |-> 0, left |-> 0]
EmptyTail == [NoTx EXCEPT !.pc = "tail", !.api = "pieces"]
NoRx == [pc |-> "idle", api |-> "whole", piece |-> 0, left |-> 0, data |-> <<>>]

\* rtos_intertile_init and rtos_intertile_start on both tiles.
Init ==
    /\ sentCount = 0
    /\ lock = None
    /\ tx_len = 0
    /\ tx = [s \in Senders |-> NoTx]
    /\ channel = <<>>
    /\ trigger = TRUE
    /\ deferred = None
    /\ flags = {}
    /\ rx_len = 0
    /\ rx = [p \in Ports |-> NoRx]
    /\ sent = [p \in Ports |-> <<>>]
    /\ received = [p \in Ports |-> <<>>]

-----------------------------------------------------------------------------
(* The sending tile.                                                       *)

Smaller(a, b) == IF a <= b THEN a ELSE b

\* An output blocks its caller while the channel is full.
Output(token) ==
    /\ Len(channel) < ChanCapacity
    /\ channel' = Append(channel, token)
    /\ UNCHANGED rxVars

\* rtos_intertile_tx, rtos_intertile_tx_len: the mutex is taken.
TxLock(s) ==
    /\ tx[s].pc = "idle" /\ sentCount < MaxMessages /\ lock = None
    /\ lock' = s
    /\ sentCount' = sentCount + 1
    /\ \E a \in Apis, p \in Ports, n \in Lengths :
        LET m == [id |-> sentCount + 1, port |-> p, len |-> n] IN
        /\ tx' = [tx EXCEPT ![s] = [NoTx EXCEPT !.pc = "port", !.api = a, !.msg = m]]
        /\ tx_len' = IF a = "pieces" THEN n ELSE tx_len
        /\ sent' = [sent EXCEPT ![p] = Append(@, m)]
    /\ UNCHANGED <<channel, rxVars>>

\* Both: the port byte, to the ISR of the other tile.
TxPort(s) ==
    /\ tx[s].pc = "port"
    /\ Output(PortToken(tx[s].msg))
    /\ tx' = [tx EXCEPT ![s].pc = "len"]
    /\ UNCHANGED <<sentCount, lock, tx_len, sent>>

\* Both: the length word.  rtos_intertile_tx goes on with all the data,
\* rtos_intertile_tx_len returns to its caller with the mutex held.
TxLength(s) ==
    /\ tx[s].pc = "len"
    /\ Output(LenToken(tx[s].msg))
    /\ tx' = IF tx[s].api = "whole"
             THEN [tx EXCEPT ![s] = [@ EXCEPT !.pc = "bytes", !.left = tx[s].msg.len]]
             ELSE [tx EXCEPT ![s].pc = "caller"]
    /\ UNCHANGED <<sentCount, lock, tx_len, sent>>

\* rtos_intertile_tx_data is called with another piece of the message, or with
\* an empty one after the message is complete; no more than ctx->tx_len of it
\* is sent.
TxData(s) ==
    /\ tx[s].pc \in {"caller", "tail"}
    /\ \E n \in IF tx[s].pc = "tail" THEN {0} ELSE 1..tx[s].msg.len :
        tx' = [tx EXCEPT ![s] = [@ EXCEPT !.pc = "bytes", !.piece = Smaller(n, tx_len),
                                          !.left = Smaller(n, tx_len)]]
    /\ UNCHANGED <<sentCount, lock, tx_len, sent, channel, rxVars>>

TxByte(s) ==
    /\ tx[s].pc = "bytes" /\ tx[s].left > 0
    /\ Output(DataToken(tx[s].msg, tx[s].next))
    /\ tx' = [tx EXCEPT ![s] = [@ EXCEPT !.next = tx[s].next + 1, !.left = tx[s].left - 1]]
    /\ UNCHANGED <<sentCount, lock, tx_len, sent>>

\* rtos_intertile_tx: the mutex is given back.
TxUnlock(s) ==
    /\ tx[s].pc = "bytes" /\ tx[s].left = 0 /\ tx[s].api = "whole"
    /\ lock' = None
    /\ tx' = [tx EXCEPT ![s] = NoTx]
    /\ UNCHANGED <<sentCount, tx_len, sent, channel, rxVars>>

\* Mutant of TxDataDone: every piece gives the mutex back.
TxDataDoneEarly(s) ==
    /\ tx[s].pc = "bytes" /\ tx[s].left = 0 /\ tx[s].api = "pieces"
    /\ tx_len' = tx_len - tx[s].piece
    /\ lock' = None
    /\ tx' = [tx EXCEPT ![s] = IF tx_len' = 0 THEN NoTx ELSE [@ EXCEPT !.pc = "caller"]]
    /\ UNCHANGED <<sentCount, sent, channel, rxVars>>

\* rtos_intertile_tx_data: the piece is out; the last one gives the mutex back,
\* and so does an empty one that follows it, whoever holds the mutex by then.
TxDataDone(s) ==
    /\ tx[s].pc = "bytes" /\ tx[s].left = 0 /\ tx[s].api = "pieces"
    /\ tx_len' = tx_len - tx[s].piece
    /\ lock' = IF tx_len' = 0 THEN None ELSE lock
    /\ tx' = [tx EXCEPT ![s] =
                 IF tx[s].piece > 0 /\ tx_len' > 0 THEN [@ EXCEPT !.pc = "caller"]
                 ELSE IF tx[s].piece > 0 /\ s \in EmptyTails THEN EmptyTail
                 ELSE NoTx]
    /\ UNCHANGED <<sentCount, sent, channel, rxVars>>

-----------------------------------------------------------------------------
(* The receiving tile.                                                     *)

\* rtos_intertile_isr: any token in the channel raises the interrupt, and the
\* ISR takes it for a port.
Isr ==
    /\ trigger /\ channel # <<>> /\ Head(channel).kind = "port"
    /\ trigger' = FALSE
    /\ deferred' = Head(channel).value
    /\ channel' = Tail(channel)
    /\ UNCHANGED <<txVars, flags, rx_len, rx, received>>

\* xEventGroupSetBits in the daemon task: a thread that waits for the bit is
\* woken and the bit cleared for it, otherwise the bit stays set.
SetBits ==
    /\ deferred # None
    /\ IF rx[deferred].pc = "wait"
       THEN rx' = [rx EXCEPT ![deferred].pc = "len"] /\ flags' = flags
       ELSE rx' = rx /\ flags' = flags \cup {deferred}
    /\ deferred' = None
    /\ UNCHANGED <<txVars, channel, trigger, rx_len, received>>

\* rtos_intertile_rx, rtos_intertile_rx_len: the listener of port p takes the
\* bit of the port or waits for it.
RxCall(p) ==
    /\ rx[p].pc = "idle"
    /\ \E a \in Apis :
        rx' = [rx EXCEPT ![p] = [NoRx EXCEPT !.api = a,
                  !.pc = IF p \in flags THEN "len" ELSE "wait"]]
    /\ flags' = flags \ {p}
    /\ UNCHANGED <<txVars, channel, trigger, deferred, rx_len, received>>

\* The wait times out and rtos_intertile_rx returns nothing.  The callers of
\* rtos_intertile_rx_len wait for ever.
RxTimeout(p) ==
    /\ rx[p].pc = "wait" /\ rx[p].api = "whole"
    /\ rx' = [rx EXCEPT ![p] = NoRx]
    /\ UNCHANGED <<txVars, channel, trigger, deferred, flags, rx_len, received>>

\* Both: the length word.
RxLength(p) ==
    /\ rx[p].pc = "len"
    /\ channel # <<>> /\ Head(channel).kind = "len"
    /\ channel' = Tail(channel)
    /\ LET n == Head(channel).value IN
        IF rx[p].api = "whole"
        THEN /\ rx' = [rx EXCEPT ![p] = [@ EXCEPT !.pc = "bytes", !.left = n]]
             /\ rx_len' = rx_len
        ELSE /\ rx' = [rx EXCEPT ![p].pc = "caller"]
             /\ rx_len' = n
    /\ UNCHANGED <<txVars, trigger, deferred, flags, received>>

\* rtos_intertile_rx_data is called for another piece.
RxData(p) ==
    /\ rx[p].pc = "caller"
    /\ \E n \in 1..(rx_len + 1) :
        rx' = [rx EXCEPT ![p] = [@ EXCEPT !.pc = "bytes", !.piece = Smaller(n, rx_len),
                                          !.left = Smaller(n, rx_len)]]
    /\ UNCHANGED <<txVars, channel, trigger, deferred, flags, rx_len, received>>

RxByte(p) ==
    /\ rx[p].pc = "bytes" /\ rx[p].left > 0
    /\ channel # <<>> /\ Head(channel).kind = "data"
    /\ channel' = Tail(channel)
    /\ rx' = [rx EXCEPT ![p] = [@ EXCEPT !.left = rx[p].left - 1,
                                         !.data = Append(rx[p].data, Head(channel))]]
    /\ UNCHANGED <<txVars, trigger, deferred, flags, rx_len, received>>

\* The message is complete: the interrupt is enabled for the next one.
Complete(p) ==
    /\ trigger' = TRUE
    /\ received' = [received EXCEPT ![p] = Append(@, rx[p].data)]
    /\ rx' = [rx EXCEPT ![p] = NoRx]

\* Mutant of RxDone: the interrupt is not enabled again.
RxDoneDisabled(p) ==
    /\ rx[p].pc = "bytes" /\ rx[p].left = 0 /\ rx[p].api = "whole"
    /\ received' = [received EXCEPT ![p] = Append(@, rx[p].data)]
    /\ rx' = [rx EXCEPT ![p] = NoRx]
    /\ UNCHANGED <<txVars, channel, trigger, deferred, flags, rx_len>>

\* rtos_intertile_rx: all the data is in.
RxDone(p) ==
    /\ rx[p].pc = "bytes" /\ rx[p].left = 0 /\ rx[p].api = "whole"
    /\ Complete(p)
    /\ UNCHANGED <<txVars, channel, deferred, flags, rx_len>>

\* Mutant of RxDataDone: every piece enables the interrupt.
RxDataDoneEarly(p) ==
    /\ rx[p].pc = "bytes" /\ rx[p].left = 0 /\ rx[p].api = "pieces"
    /\ rx_len' = rx_len - rx[p].piece
    /\ IF rx_len' = 0
       THEN Complete(p)
       ELSE trigger' = TRUE /\ rx' = [rx EXCEPT ![p].pc = "caller"] /\ received' = received
    /\ UNCHANGED <<txVars, channel, deferred, flags>>

\* rtos_intertile_rx_data: a piece is in.
RxDataDone(p) ==
    /\ rx[p].pc = "bytes" /\ rx[p].left = 0 /\ rx[p].api = "pieces"
    /\ rx_len' = rx_len - rx[p].piece
    /\ IF rx_len' = 0
       THEN Complete(p)
       ELSE /\ rx' = [rx EXCEPT ![p].pc = "caller"]
            /\ UNCHANGED <<trigger, received>>
    /\ UNCHANGED <<txVars, channel, deferred, flags>>

-----------------------------------------------------------------------------
TxCode(s) ==
    \/ TxPort(s) \/ TxLength(s) \/ TxData(s) \/ TxByte(s)
    \/ TxUnlock(s) \/ TxDataDone(s)

RxCode(p) ==
    \/ RxCall(p) \/ RxLength(p) \/ RxData(p) \/ RxByte(p)
    \/ RxDone(p) \/ RxDataDone(p)

Next ==
    \/ \E s \in Senders : TxLock(s) \/ TxCode(s)
    \/ Isr
    \/ SetBits
    \/ \E p \in Ports : RxCode(p) \/ RxTimeout(p)

\* A call that can go on does, an enabled interrupt is taken, the daemon task
\* runs, and every listener listens again.  Nothing makes a task send.
Fairness ==
    /\ \A s \in Senders : WF_vars(TxCode(s))
    /\ WF_vars(Isr) /\ WF_vars(SetBits)
    /\ \A p \in Ports : WF_vars(RxCode(p))

Spec == Init /\ [][Next]_vars /\ Fairness

-----------------------------------------------------------------------------
Tokens == [kind : {"port", "len", "data"}, id : 1..MaxMessages,
           value : Ports \cup Nat]

TypeOK ==
    /\ sentCount \in 0..MaxMessages
    /\ lock \in Senders \cup {None}
    /\ tx_len \in Nat /\ rx_len \in Nat
    /\ \A s \in Senders :
        /\ tx[s].pc \in {"idle", "port", "len", "caller", "bytes", "tail"}
        /\ tx[s].msg \in Messages \cup {None} /\ tx[s].left \in Nat
    /\ channel \in Seq(Tokens) /\ Len(channel) <= ChanCapacity
    /\ trigger \in BOOLEAN
    /\ deferred \in Ports \cup {None}
    /\ flags \subseteq Ports
    /\ \A p \in Ports :
        /\ rx[p].pc \in {"idle", "wait", "len", "caller", "bytes"}
        /\ rx[p].left \in Nat

\* Nothing is taken for what it is not: with the interrupt enabled, the next
\* token is a port byte; a woken listener finds the length of a message to
\* its port; a reader finds the next byte of the message it is reading.
Framing ==
    channel # <<>> =>
        /\ trigger => Head(channel).kind = "port"
        /\ \A p \in Ports :
            /\ rx[p].pc = "len" =>
                \E m \in Messages : m.port = p /\ Head(channel) = LenToken(m)
            /\ rx[p].pc = "bytes" /\ rx[p].left > 0 =>
                \E m \in Messages :
                    /\ m.port = p
                    /\ Head(channel) = DataToken(m, Len(rx[p].data) + 1)

\* The token that the listener of a port is about to read belongs to a message
\* sent to that port: "Only the thread listening on this particular port on
\* the remote tile will receive this data" (rtos_intertile.h).
OnlyListenerReceives ==
    \A p \in Ports :
        (channel # <<>> /\ (rx[p].pc = "len" \/ (rx[p].pc = "bytes" /\ rx[p].left > 0)))
            => \E k \in 1..Len(sent[p]) : sent[p][k].id = Head(channel).id

\* The xasserts of rtos_intertile_tx_len and rtos_intertile_rx_len: a length is
\* only stored in the context when the message before it is finished, though
\* the caller returns to its application between the two.
LengthsFree ==
    /\ \A s \in Senders :
        tx[s].pc # "idle" /\ tx[s].api = "whole" => tx_len = 0
    /\ lock = None => tx_len = 0
    /\ (\E p \in Ports : rx[p].pc = "len") => rx_len = 0

\* The data the listener of a port has been given is the data sent to that
\* port: whole messages, in order, none lost, none twice, and nothing that was
\* sent to another port.  For that no token may be taken for another.
PortsDeliver ==
    /\ Framing
    /\ \A p \in Ports :
        /\ Len(received[p]) <= Len(sent[p])
        /\ \A k \in 1..Len(received[p]) :
            received[p][k] = [i \in 1..sent[p][k].len |-> DataToken(sent[p][k], i)]

\* What is in flight on a port: the messages sent and not yet received.
InFlight ==
    [p \in Ports |-> SubSeq(sent[p], Len(received[p]) + 1, Len(sent[p]))]
Delivered ==
    [p \in Ports |-> SubSeq(sent[p], 1, Len(received[p]))]

Service == INSTANCE PortChannel WITH inFlight <- InFlight, delivered <- Delivered

\* The link is a FIFO of messages for every port, and it never stops
\* delivering while the listeners listen: no message blocks the channel, and
\* the interrupt is enabled again after every message.
ImplementsPortChannel == Service!Spec
=============================================================================
