--------------------------- MODULE IntertileProofs ---------------------------
(***************************************************************************)
(* The intertile link, for every number of senders and ports, every length *)
(* of messages and every capacity of the channel.                          *)
(*                                                                         *)
(* The tokens of all messages, in the order of the mutex, are one stream:  *)
(* the sender that holds the mutex is at one place of it, the receiving    *)
(* tile at another, and what is between the two is in the channel.  A      *)
(* place is the number of a message and that of a token in it: 0 is the    *)
(* port, 1 the length, the data follow.                                    *)
(***************************************************************************)
EXTENDS Intertile, SequenceTheorems, TLAPS

TxCalls == [pc : {"idle", "port", "len", "caller", "bytes"}, api : Apis,
            msg : Messages \cup {None}, next : Nat, piece : Nat, left : Nat]
RxCalls == [pc : {"idle", "wait", "len", "caller", "bytes"}, api : Apis,
            piece : Nat, left : Nat, data : Seq(Tokens)]

LinkType ==
    /\ sentCount \in 0..MaxMessages
    /\ lock \in Senders \cup {None} /\ tx_len \in Nat /\ tx \in [Senders -> TxCalls]
    /\ channel \in Seq(Tokens)
    /\ trigger \in BOOLEAN /\ deferred \in Ports \cup {None} /\ flags \subseteq Ports
    /\ rx_len \in Nat /\ rx \in [Ports -> RxCalls]
    /\ sent \in [Ports -> Seq(Messages)]
    /\ received \in [Ports -> Seq(Seq(Tokens))]

\* The token at a place of a message, the place of a token, and the next place.
TokenAt(m, n) == IF n = 0 THEN PortToken(m) ELSE IF n = 1 THEN LenToken(m) ELSE DataToken(m, n - 1)
Place(token) == <<token.id, IF token.kind = "port" THEN 0
                            ELSE IF token.kind = "len" THEN 1 ELSE token.value + 1>>
NextPlace(log, at) == IF at[2] <= log[at[1]].len THEN <<at[1], at[2] + 1>> ELSE <<at[1] + 1, 0>>

\* log: the messages in the order of the mutex, of which the first r have been
\* received; those to each port are what was sent to it.
LogRight(log, r) ==
    /\ log \in [1..sentCount -> Messages] /\ r \in 0..sentCount
    /\ \A k \in 1..sentCount :
          /\ log[k].id = k
          /\ \E j \in 1..Len(sent[log[k].port]) : sent[log[k].port][j] = log[k]
    /\ \A p \in Ports : \A j \in 1..Len(sent[p]) :
          /\ sent[p][j].port = p /\ sent[p][j].id \in 1..sentCount
          /\ sent[p][j] = log[sent[p][j].id]
          /\ \A i \in 1..(j - 1) : sent[p][i].id < sent[p][j].id

ReceivedRight(r) ==
    \A p \in Ports :
        /\ Len(received[p]) <= Len(sent[p])
        /\ \A j \in 1..Len(sent[p]) : j <= Len(received[p]) <=> sent[p][j].id <= r
        /\ \A j \in 1..Len(received[p]) :
              received[p][j] = [i \in 1..sent[p][j].len |-> DataToken(sent[p][j], i)]

\* The holder of the mutex sends the last message of the log; what is left of it
\* is what its call has to send and what it has not been called for.
TxCounts(t) ==
    /\ t.next >= 1 /\ (t.pc \in {"port", "len"} => t.next = 1)
    /\ t.api = "whole" => /\ tx_len = 0 /\ t.pc # "caller"
                          /\ t.pc = "bytes" => t.next + t.left = t.msg.len + 1
    /\ t.api = "pieces" =>
          /\ t.pc \in {"port", "len"} => tx_len = t.msg.len
          /\ t.pc = "caller" => tx_len > 0 /\ t.next + tx_len = t.msg.len + 1
          /\ t.pc = "bytes" => /\ t.piece \in 1..tx_len
                               /\ t.next + t.left + (tx_len - t.piece) = t.msg.len + 1

TxRight(log) ==
    /\ \A s \in Senders : tx[s].pc # "idle" <=> lock = s
    /\ IF lock = None THEN tx_len = 0
       ELSE sentCount > 0 /\ tx[lock].msg = log[sentCount] /\ TxCounts(tx[lock])

PlaceIn(t) ==
    IF t.pc = "port" THEN <<sentCount, 0>>
    ELSE IF t.pc = "len" THEN <<sentCount, 1>>
    ELSE IF t.next <= t.msg.len THEN <<sentCount, t.next + 1>>
    ELSE <<sentCount + 1, 0>>

TxPlace == IF lock = None THEN <<sentCount + 1, 0>> ELSE PlaceIn(tx[lock])

\* One message at a time is taken from the channel: m, between its port token and
\* the end of its data, by the listener of its port.
RxCounts(c, m) ==
    /\ Len(c.data) <= m.len
    /\ \A i \in 1..Len(c.data) : c.data[i] = DataToken(m, i)
    /\ c.api = "whole" => /\ rx_len = 0 /\ c.pc # "caller"
                          /\ c.pc = "bytes" => Len(c.data) + c.left = m.len
    /\ c.api = "pieces" =>
          /\ c.pc = "caller" => rx_len > 0 /\ Len(c.data) + rx_len = m.len
          /\ c.pc = "bytes" => /\ c.piece \in 1..rx_len
                               /\ Len(c.data) + c.left + (rx_len - c.piece) = m.len

Reading(p) == rx[p].pc \in {"caller", "bytes"}
Called(p) == deferred = p \/ p \in flags \/ rx[p].pc = "len"

RxRight(log, r) ==
    /\ \A p \in Ports : rx[p].pc \in {"wait", "len"} => rx[p].data = <<>>
    /\ trigger => /\ deferred = None /\ flags = {} /\ rx_len = 0
                  /\ \A p \in Ports : rx[p].pc \in {"idle", "wait"}
    /\ ~ trigger =>
          /\ r < sentCount
          /\ LET m == log[r + 1] IN
             /\ deferred \in {m.port, None} /\ flags \subseteq {m.port}
             /\ \A p \in Ports \ {m.port} : rx[p].pc \in {"idle", "wait"}
             /\ \/ Called(m.port) /\ ~ Reading(m.port) /\ rx_len = 0
                   /\ ~ (deferred # None /\ flags # {})
                   /\ (rx[m.port].pc = "len" => deferred = None /\ flags = {})
                \/ /\ Reading(m.port) /\ deferred = None /\ flags = {}
                   /\ RxCounts(rx[m.port], m)

RxPlace(log, r) ==
    IF trigger THEN <<r + 1, 0>>
    ELSE LET m == log[r + 1] IN
         IF ~ Reading(m.port) THEN <<r + 1, 1>>
         ELSE IF Len(rx[m.port].data) < m.len THEN <<r + 1, Len(rx[m.port].data) + 2>>
         ELSE <<r + 2, 0>>

\* The channel holds the stream from where it is read to where it is written.
ChannelRight(log, r) ==
    /\ \A i \in 1..Len(channel) :
          LET at == Place(channel[i]) IN
          /\ at[1] \in 1..sentCount /\ at[2] \in 0..(log[at[1]].len + 1)
          /\ channel[i] = TokenAt(log[at[1]], at[2])
          /\ NextPlace(log, at) = IF i = Len(channel) THEN TxPlace ELSE Place(channel[i + 1])
    /\ RxPlace(log, r) = IF channel = <<>> THEN TxPlace ELSE Place(channel[1])

\* The inductive invariant.
LinkInv(log, r) ==
    /\ LinkType /\ LogRight(log, r) /\ ReceivedRight(r)
    /\ TxRight(log) /\ RxRight(log, r) /\ ChannelRight(log, r)

Inv == \E log, r : LinkInv(log, r)

-----------------------------------------------------------------------------
(***************************************************************************)
(* Sequences, places and the channel.                                      *)
(***************************************************************************)

\* A sequence with one more element.
LEMMA SeqAppended ==
    ASSUME NEW S, NEW q \in Seq(S), NEW e \in S
    PROVE  /\ Append(q, e) \in Seq(S) /\ Append(q, e) # <<>>
           /\ Len(q) \in Nat /\ Len(Append(q, e)) = Len(q) + 1
           /\ \A i \in 1..Len(q) : Append(q, e)[i] = q[i]
           /\ Append(q, e)[Len(q) + 1] = e
           /\ q # <<>> <=> Len(q) >= 1
  <1>1. q # <<>> => Len(q) \in Nat \ {0}
      BY EmptySeq
  <1>2. q = <<>> => Len(q) = 0
      BY EmptySeq
  <1> QED
      BY <1>1, <1>2, AppendProperties, LenProperties

\* A sequence without its first element.
LEMMA SeqTaken ==
    ASSUME NEW S, NEW q \in Seq(S), q # <<>>
    PROVE  /\ Head(q) = q[1] /\ q[1] \in S /\ Tail(q) \in Seq(S)
           /\ Len(q) \in Nat \ {0} /\ Len(Tail(q)) = Len(q) - 1
           /\ \A i \in 1..(Len(q) - 1) : Tail(q)[i] = q[i + 1]
           /\ Tail(q) = <<>> <=> Len(Tail(q)) = 0
  <1>1. Tail(q) \in Seq(S) /\ Len(q) \in Nat \ {0} /\ Len(Tail(q)) = Len(q) - 1
      BY HeadTailProperties, LenProperties, EmptySeq
  <1>2. Head(q) = q[1] /\ q[1] \in S /\ \A i \in 1..(Len(q) - 1) : Tail(q)[i] = q[i + 1]
      BY <1>1, HeadTailProperties
  <1>3. Tail(q) = <<>> <=> Len(Tail(q)) = 0
      BY <1>1, EmptySeq, Zenon
  <1> QED
      BY <1>1, <1>2, <1>3

\* Where the tokens of a message are.
LEMMA PlaceOf ==
    ASSUME NEW m \in Messages, NEW n \in Nat
    PROVE  Place(TokenAt(m, n)) = <<m.id, n>> /\ TokenAt(m, n) \in Tokens
  <1> USE IntertileAssumption DEF Place, TokenAt, PortToken, LenToken, DataToken, Messages, Tokens
  <1>1. CASE n = 0
      BY <1>1
  <1>2. CASE n = 1
      BY <1>2
  <1>3. CASE n \notin {0, 1}
      BY <1>3
  <1> QED
      BY <1>1, <1>2, <1>3

\* What the readers go by: the kind of a token tells its place.
LEMMA KindTellsPlace ==
    ASSUME NEW m \in Messages, NEW n \in Nat
    PROVE  /\ TokenAt(m, n).kind = "port" <=> n = 0
           /\ TokenAt(m, n).kind = "len" <=> n = 1
           /\ TokenAt(m, 0) = PortToken(m) /\ TokenAt(m, 1) = LenToken(m)
           /\ n >= 2 => TokenAt(m, n) = DataToken(m, n - 1)
  BY DEF TokenAt, PortToken, LenToken, DataToken

\* A token is put into the channel, at the place where the sender is.
LEMMA ChannelGrows ==
    ASSUME NEW log, NEW r, LinkInv(log, r), NEW n \in Nat,
           sentCount > 0, n <= log[sentCount].len + 1, TxPlace = <<sentCount, n>>,
           channel' = Append(channel, TokenAt(log[sentCount], n)), sentCount' = sentCount,
           TxPlace' = NextPlace(log, <<sentCount, n>>), RxPlace(log, r)' = RxPlace(log, r)
    PROVE  ChannelRight(log, r)' /\ channel' \in Seq(Tokens)
  <1> DEFINE token == TokenAt(log[sentCount], n)
  <1>1. sentCount \in 1..sentCount /\ log[sentCount] \in Messages /\ log[sentCount].id = sentCount
      BY DEF LinkInv, LinkType, LogRight
  <1>2. Place(token) = <<sentCount, n>> /\ token \in Tokens
      BY <1>1, PlaceOf
  <1> HIDE DEF token
  <1>3. /\ channel \in Seq(Tokens) /\ channel' = Append(channel, token)
      BY DEF LinkInv, LinkType, token
  <1>4. /\ channel' \in Seq(Tokens) /\ channel' # <<>>
        /\ Len(channel) \in Nat /\ Len(channel') = Len(channel) + 1
        /\ \A i \in 1..Len(channel) : channel'[i] = channel[i]
        /\ channel'[Len(channel) + 1] = token
        /\ channel # <<>> <=> Len(channel) >= 1
      BY <1>2, <1>3, SeqAppended
  <1>5. ASSUME NEW i \in 1..Len(channel')
        PROVE  LET at == Place(channel'[i]) IN
               /\ at[1] \in 1..sentCount /\ at[2] \in 0..(log[at[1]].len + 1)
               /\ channel'[i] = TokenAt(log[at[1]], at[2])
               /\ NextPlace(log, at) = IF i = Len(channel') THEN TxPlace' ELSE Place(channel'[i + 1])
    <2>1. CASE i = Len(channel')
      <3>1. channel'[i] = token
          BY <1>4, <2>1
      <3> QED
          BY <1>1, <1>2, <2>1, <3>1 DEF token, Messages
    <2>2. CASE i < Len(channel)
      <3>1. i \in 1..Len(channel) /\ channel'[i] = channel[i] /\ channel'[i + 1] = channel[i + 1]
          BY <1>4, <2>2
      <3> QED
          BY <1>4, <2>2, <3>1 DEF LinkInv, ChannelRight
    <2>3. CASE i = Len(channel)
      <3>1. i \in 1..Len(channel) /\ channel'[i] = channel[i] /\ channel'[i + 1] = token
          BY <1>4, <2>3
      <3> QED
          BY <1>2, <1>4, <2>3, <3>1 DEF LinkInv, ChannelRight
    <2> QED
        BY <1>4, <2>1, <2>2, <2>3
  <1>6. RxPlace(log, r)' = Place(channel'[1])
    <2>1. CASE channel = <<>>
        BY <1>2, <1>4, <2>1 DEF LinkInv, ChannelRight
    <2>2. CASE channel # <<>>
        BY <1>4, <2>2 DEF LinkInv, ChannelRight
    <2> QED
        BY <2>1, <2>2
  <1> QED
      BY <1>4, <1>5, <1>6 DEF ChannelRight

\* A token is taken from the channel, at the place where the receiving tile is.
LEMMA ChannelShrinks ==
    ASSUME NEW log, NEW r, LinkInv(log, r), channel # <<>>,
           channel' = Tail(channel), sentCount' = sentCount, TxPlace' = TxPlace,
           RxPlace(log, r)' = NextPlace(log, RxPlace(log, r))
    PROVE  ChannelRight(log, r)' /\ channel' \in Seq(Tokens)
  <1>1. /\ channel' \in Seq(Tokens)
        /\ Len(channel) \in Nat \ {0} /\ Len(channel') = Len(channel) - 1
        /\ \A i \in 1..(Len(channel) - 1) : channel'[i] = channel[i + 1]
        /\ channel' = <<>> <=> Len(channel') = 0
      BY SeqTaken DEF LinkInv, LinkType
  <1>2. ASSUME NEW i \in 1..Len(channel')
        PROVE  LET at == Place(channel'[i]) IN
               /\ at[1] \in 1..sentCount /\ at[2] \in 0..(log[at[1]].len + 1)
               /\ channel'[i] = TokenAt(log[at[1]], at[2])
               /\ NextPlace(log, at) = IF i = Len(channel') THEN TxPlace' ELSE Place(channel'[i + 1])
    <2>1. i + 1 \in 1..Len(channel) /\ (i = Len(channel') <=> i + 1 = Len(channel))
        BY <1>1
    <2>2. channel'[i] = channel[i + 1]
        BY <1>1
    <2>3. i # Len(channel') => channel'[i + 1] = channel[(i + 1) + 1]
      <3>1. PICK n \in Nat \ {0} : Len(channel) = n /\ Len(channel') = n - 1
          BY <1>1
      <3>2. i \in Int /\ 1 <= i /\ i <= n - 1
          BY <3>1
      <3>3. i # n - 1 => i + 1 \in 1..(n - 1)
          BY <3>2
      <3> QED
          BY <1>1, <3>1, <3>3
    <2>4. ChannelRight(log, r)
        BY DEF LinkInv
    <2>5. LET at == Place(channel[i + 1]) IN
          /\ at[1] \in 1..sentCount /\ at[2] \in 0..(log[at[1]].len + 1)
          /\ channel[i + 1] = TokenAt(log[at[1]], at[2])
          /\ NextPlace(log, at) = IF i + 1 = Len(channel) THEN TxPlace
                                  ELSE Place(channel[(i + 1) + 1])
        BY <2>1, <2>4 DEF ChannelRight
    <2> QED
        BY <2>1, <2>2, <2>3, <2>5
  <1>3. RxPlace(log, r)' = IF channel' = <<>> THEN TxPlace' ELSE Place(channel'[1])
    <2>1. ChannelRight(log, r) /\ 1 \in 1..Len(channel)
        BY <1>1 DEF LinkInv
    <2>2. RxPlace(log, r) = Place(channel[1])
        BY <2>1 DEF ChannelRight
    <2>3. NextPlace(log, Place(channel[1])) =
             IF 1 = Len(channel) THEN TxPlace ELSE Place(channel[1 + 1])
        BY <2>1 DEF ChannelRight
    <2>4. Len(channel) # 1 => channel'[1] = channel[1 + 1]
        BY <1>1
    <2> QED
        BY <1>1, <2>2, <2>3, <2>4
  <1> QED
      BY <1>1, <1>2, <1>3 DEF ChannelRight

\* The channel is left alone, and both ends stay at their places.
LEMMA ChannelSame ==
    ASSUME NEW log, NEW r, NEW r2, ChannelRight(log, r),
           channel' = channel, sentCount' = sentCount, TxPlace' = TxPlace,
           RxPlace(log, r2)' = RxPlace(log, r)
    PROVE  ChannelRight(log, r2)'
  BY DEF ChannelRight

\* The head of the channel is the token at the place of the receiving tile.
LEMMA ChannelHead ==
    ASSUME NEW log, NEW r, LinkInv(log, r), channel # <<>>
    PROVE  LET at == RxPlace(log, r) IN
           /\ at[1] \in 1..sentCount /\ at[2] \in 0..(log[at[1]].len + 1)
           /\ Head(channel) = TokenAt(log[at[1]], at[2]) /\ Head(channel) \in Tokens
  <1>1. /\ Head(channel) = channel[1] /\ 1 \in 1..Len(channel) /\ channel[1] \in Tokens
      BY SeqTaken DEF LinkInv, LinkType
  <1> QED
      BY <1>1 DEF LinkInv, ChannelRight

-----------------------------------------------------------------------------
(***************************************************************************)
(* The sending tile.                                                       *)
(***************************************************************************)

\* A sender's step leaves the receiving tile where it is.
LEMMA ReceiverSame ==
    ASSUME NEW log, NEW r, LinkInv(log, r), UNCHANGED <<sentCount, sent, rxVars>>
    PROVE  /\ LogRight(log, r)' /\ ReceivedRight(r)' /\ RxRight(log, r)'
           /\ RxPlace(log, r)' = RxPlace(log, r)
           /\ sentCount' \in 0..MaxMessages
           /\ trigger' \in BOOLEAN /\ deferred' \in Ports \cup {None} /\ flags' \subseteq Ports
           /\ rx_len' \in Nat /\ rx' \in [Ports -> RxCalls]
           /\ sent' \in [Ports -> Seq(Messages)]
           /\ received' \in [Ports -> Seq(Seq(Tokens))]
  <1>1. UNCHANGED <<sentCount, sent, trigger, deferred, flags, rx_len, rx, received>>
      BY DEF rxVars
  <1>2. LogRight(log, r)'
      BY <1>1 DEF LinkInv, LogRight
  <1>3. ReceivedRight(r)'
      BY <1>1 DEF LinkInv, ReceivedRight
  <1>4. RxRight(log, r)'
      BY <1>1 DEF LinkInv, RxRight, Called, Reading, RxCounts
  <1>5. RxPlace(log, r)' = RxPlace(log, r)
      BY <1>1 DEF RxPlace, Reading
  <1> QED
      BY <1>1, <1>2, <1>3, <1>4, <1>5 DEF LinkInv, LinkType

\* What is known of the holder of the mutex.
LEMMA HolderIs ==
    ASSUME NEW log, NEW r, LinkInv(log, r), NEW s \in Senders, tx[s].pc # "idle"
    PROVE  /\ lock = s /\ lock # None /\ sentCount \in Nat \ {0} /\ tx[s] \in TxCalls
           /\ log[sentCount] \in Messages /\ tx[s].msg = log[sentCount]
           /\ log[sentCount].id = sentCount /\ log[sentCount].len \in Nat \ {0}
           /\ TxCounts(tx[s]) /\ TxPlace = PlaceIn(tx[s]) /\ tx_len \in Nat
           /\ tx \in [Senders -> TxCalls]
  <1>1. lock = s /\ lock # None
      BY IntertileAssumption DEF LinkInv, TxRight
  <1>2. sentCount \in Nat \ {0} /\ tx[s] \in TxCalls /\ tx_len \in Nat /\ tx \in [Senders -> TxCalls]
      BY <1>1, IntertileAssumption DEF LinkInv, LinkType, TxRight
  <1>3. log[sentCount] \in Messages /\ log[sentCount].id = sentCount
      BY <1>2 DEF LinkInv, LogRight
  <1>4. log[sentCount].len \in Nat \ {0}
      BY <1>3, IntertileAssumption DEF Messages
  <1> QED
      BY <1>1, <1>2, <1>3, <1>4 DEF LinkInv, TxRight, TxPlace

\* The call of the holder of the mutex goes on, as t.
LEMMA HolderMoves ==
    ASSUME NEW log, NEW r, LinkInv(log, r), NEW s \in Senders, tx[s].pc # "idle",
           NEW t \in TxCalls, tx' = [tx EXCEPT ![s] = t], t.pc # "idle", t.msg = tx[s].msg,
           UNCHANGED <<sentCount, lock, tx_len>>, TxCounts(t)
    PROVE  /\ TxRight(log)' /\ TxPlace' = PlaceIn(t)
           /\ tx' \in [Senders -> TxCalls] /\ lock' \in Senders \cup {None} /\ tx_len' \in Nat
  <1>1. /\ lock = s /\ lock # None /\ sentCount > 0 /\ tx[s].msg = log[sentCount]
        /\ tx \in [Senders -> TxCalls] /\ tx_len \in Nat
      BY HolderIs
  <1>2. /\ tx' \in [Senders -> TxCalls] /\ tx'[s] = t
        /\ \A u \in Senders \ {s} : tx'[u] = tx[u]
      BY <1>1
  <1>3. \A u \in Senders : tx'[u].pc # "idle" <=> lock' = u
      BY <1>1, <1>2 DEF LinkInv, TxRight
  <1>4. TxCounts(t)' = TxCounts(t) /\ PlaceIn(t)' = PlaceIn(t)
      BY DEF TxCounts, PlaceIn
  <1>5. TxRight(log)'
      BY <1>1, <1>2, <1>3, <1>4 DEF TxRight
  <1>6. TxPlace' = PlaceIn(t)
      BY <1>1, <1>2, <1>4 DEF TxPlace
  <1> QED
      BY <1>1, <1>2, <1>5, <1>6

\* The call of the holder puts token n of its message into the channel.
LEMMA HolderSends ==
    ASSUME NEW log, NEW r, LinkInv(log, r), NEW s \in Senders, tx[s].pc # "idle",
           NEW t \in TxCalls, tx' = [tx EXCEPT ![s] = t], t.pc # "idle", t.msg = tx[s].msg,
           UNCHANGED <<sentCount, lock, tx_len, sent>>, TxCounts(t),
           NEW n \in Nat, n <= tx[s].msg.len + 1, PlaceIn(tx[s]) = <<sentCount, n>>,
           PlaceIn(t) = IF n <= tx[s].msg.len THEN <<sentCount, n + 1>> ELSE <<sentCount + 1, 0>>,
           Output(TokenAt(tx[s].msg, n))
    PROVE  LinkInv(log, r)'
  <1>1. /\ sentCount > 0 /\ tx[s].msg = log[sentCount] /\ TxPlace = <<sentCount, n>>
      BY HolderIs
  <1>2. channel' = Append(channel, TokenAt(log[sentCount], n)) /\ UNCHANGED rxVars
      BY <1>1 DEF Output
  <1>3. /\ TxRight(log)' /\ TxPlace' = PlaceIn(t)
        /\ tx' \in [Senders -> TxCalls] /\ lock' \in Senders \cup {None} /\ tx_len' \in Nat
      BY HolderMoves
  <1>4. TxPlace' = NextPlace(log, <<sentCount, n>>)
      BY <1>1, <1>3 DEF NextPlace
  <1>5. UNCHANGED <<sentCount, sent, rxVars>>
      BY <1>2
  <1>6. ChannelRight(log, r)' /\ channel' \in Seq(Tokens)
      BY <1>1, <1>2, <1>4, <1>5, ReceiverSame, ChannelGrows
  <1> QED
      BY <1>3, <1>5, <1>6, ReceiverSame DEF LinkInv, LinkType

\* The mutex is taken for a message, which the log gets.
LEMMA TxLockInv ==
    ASSUME Inv, NEW s \in Senders, TxLock(s)
    PROVE  Inv'
  <1> USE IntertileAssumption
  <1>1. PICK log, r : LinkInv(log, r)
      BY DEF Inv
  <1>2. PICK a \in Apis, p \in Ports, n \in Lengths, m \in Messages :
          /\ m = [id |-> sentCount + 1, port |-> p, len |-> n]
          /\ tx' = [tx EXCEPT ![s] = [NoTx EXCEPT !.pc = "port", !.api = a, !.msg = m]]
          /\ tx_len' = IF a = "pieces" THEN n ELSE tx_len
          /\ sent' = [sent EXCEPT ![p] = Append(@, m)]
    <2>1. PICK a \in Apis, p \in Ports, n \in Lengths :
            LET m == [id |-> sentCount + 1, port |-> p, len |-> n] IN
            /\ tx' = [tx EXCEPT ![s] = [NoTx EXCEPT !.pc = "port", !.api = a, !.msg = m]]
            /\ tx_len' = IF a = "pieces" THEN n ELSE tx_len
            /\ sent' = [sent EXCEPT ![p] = Append(@, m)]
        BY DEF TxLock
    <2>2. [id |-> sentCount + 1, port |-> p, len |-> n] \in Messages
        BY SMTT(60), <1>1 DEF TxLock, LinkInv, LinkType, Messages
    <2> QED
        BY <2>1, <2>2
  <1>3. /\ tx[s].pc = "idle" /\ sentCount < MaxMessages /\ lock = None
        /\ lock' = s /\ sentCount' = sentCount + 1 /\ sentCount \in Nat /\ MaxMessages \in Nat
        /\ s # None
        /\ UNCHANGED <<channel, trigger, deferred, flags, rx_len, rx, received>>
      BY <1>1 DEF TxLock, LinkInv, LinkType, rxVars
  <1>4. m.id = sentCount + 1 /\ m.port = p /\ m.len = n /\ n \in Nat \ {0}
      BY <1>2
  <1>5. PICK log2 \in [1..sentCount + 1 -> Messages] :
          log2[sentCount + 1] = m /\ \A k \in 1..sentCount : log2[k] = log[k]
    <2> DEFINE l == [k \in 1..sentCount + 1 |-> IF k = sentCount + 1 THEN m ELSE log[k]]
    <2>1. /\ \A k \in 1..sentCount : l[k] = log[k]
          /\ l[sentCount + 1] = m
          /\ l \in [1..sentCount + 1 -> Messages]
        BY <1>1, <1>3 DEF LinkInv, LogRight
    <2> QED
        BY <2>1
  <1>6. /\ sent \in [Ports -> Seq(Messages)] /\ sent[p] \in Seq(Messages)
        /\ sent'[p] \in Seq(Messages) /\ sent'[p] = Append(sent[p], m)
        /\ Len(sent[p]) \in Nat /\ Len(sent'[p]) = Len(sent[p]) + 1
        /\ \A j \in 1..Len(sent[p]) : sent'[p][j] = sent[p][j]
        /\ sent'[p][Len(sent[p]) + 1] = m
        /\ \A q \in Ports \ {p} : sent'[q] = sent[q]
        /\ sent' \in [Ports -> Seq(Messages)]
    <2>1. sent \in [Ports -> Seq(Messages)] /\ sent[p] \in Seq(Messages)
        BY <1>1 DEF LinkInv, LinkType
    <2>2. /\ Append(sent[p], m) \in Seq(Messages)
          /\ Len(sent[p]) \in Nat /\ Len(Append(sent[p], m)) = Len(sent[p]) + 1
          /\ \A j \in 1..Len(sent[p]) : Append(sent[p], m)[j] = sent[p][j]
          /\ Append(sent[p], m)[Len(sent[p]) + 1] = m
        BY <2>1, SeqAppended
    <2>3. sent' = [sent EXCEPT ![p] = Append(sent[p], m)]
        BY <1>2
    <2> QED
        BY <2>1, <2>2, <2>3
  <1>7. \A q \in Ports : /\ Len(sent[q]) \in Nat /\ Len(sent'[q]) \in Nat
                         /\ \A j \in 1..Len(sent[q]) :
                               j \in 1..Len(sent'[q]) /\ sent'[q][j] = sent[q][j]
                         /\ \A j \in 1..Len(sent'[q]) :
                               j \in 1..Len(sent[q]) \/ (q = p /\ j = Len(sent[p]) + 1)
    <2> SUFFICES ASSUME NEW q \in Ports
                 PROVE  /\ Len(sent[q]) \in Nat /\ Len(sent'[q]) \in Nat
                        /\ \A j \in 1..Len(sent[q]) :
                              j \in 1..Len(sent'[q]) /\ sent'[q][j] = sent[q][j]
                        /\ \A j \in 1..Len(sent'[q]) :
                              j \in 1..Len(sent[q]) \/ (q = p /\ j = Len(sent[p]) + 1)
        OBVIOUS
    <2>1. CASE q = p
      <3>1. PICK n2 \in Nat : Len(sent[p]) = n2 /\ Len(sent'[p]) = n2 + 1
          BY <1>6
      <3>2. \A j \in 1..n2 : j \in 1..(n2 + 1)
          OBVIOUS
      <3>3. \A j \in 1..(n2 + 1) : j \in 1..n2 \/ j = n2 + 1
          OBVIOUS
      <3>4. \A j \in 1..n2 : sent'[p][j] = sent[p][j]
          BY <1>6, <3>1
      <3> QED
          BY <2>1, <3>1, <3>2, <3>3, <3>4
    <2>2. CASE q # p
      <3>1. sent[q] \in Seq(Messages)
          BY <1>6
      <3>2. Len(sent[q]) \in Nat
          BY <3>1, LenProperties
      <3> QED
          BY <1>6, <2>2, <3>2
    <2> QED
        BY <2>1, <2>2
  <1>8. LogRight(log2, r)'
    <2>1. r \in 0..sentCount' /\ log2 \in [1..sentCount' -> Messages]
        BY <1>1, <1>3, <1>5 DEF LinkInv, LogRight
    <2>2. ASSUME NEW k \in 1..sentCount'
          PROVE  /\ log2[k].id = k
                 /\ \E j \in 1..Len(sent'[log2[k].port]) : sent'[log2[k].port][j] = log2[k]
      <3>1. CASE k = sentCount + 1
        <4>1. log2[k] = m /\ log2[k].port = p
            BY <1>4, <1>5, <3>1
        <4>2. Len(sent[p]) + 1 \in 1..Len(sent'[p]) /\ sent'[p][Len(sent[p]) + 1] = m
            BY <1>6
        <4> QED
            BY <1>4, <3>1, <4>1, <4>2
      <3>2. CASE k # sentCount + 1
        <4>1. k \in 1..sentCount /\ log2[k] = log[k]
            BY <1>3, <1>5, <3>2
        <4>2. PICK j \in 1..Len(sent[log[k].port]) : sent[log[k].port][j] = log[k]
            BY <1>1, <4>1 DEF LinkInv, LogRight
        <4>3. log[k].id = k /\ log[k].port \in Ports
            BY <1>1, <4>1 DEF LinkInv, LogRight, Messages
        <4>4. /\ j \in 1..Len(sent'[log[k].port])
              /\ sent'[log[k].port][j] = sent[log[k].port][j]
            BY <1>7, <4>2, <4>3
        <4> QED
            BY <4>1, <4>2, <4>3, <4>4
      <3> QED
          BY <3>1, <3>2
    <2>3. ASSUME NEW q \in Ports, NEW j \in 1..Len(sent'[q])
          PROVE  /\ sent'[q][j].port = q /\ sent'[q][j].id \in 1..sentCount'
                 /\ sent'[q][j] = log2[sent'[q][j].id]
                 /\ \A i \in 1..(j - 1) : sent'[q][i].id < sent'[q][j].id
      <3>1. CASE q = p /\ j = Len(sent[p]) + 1
        <4>1. sent'[q][j] = m
            BY <1>6, <3>1
        <4>2. ASSUME NEW i \in 1..(j - 1)
              PROVE  sent'[q][i].id < sent'[q][j].id
          <5>1. i \in 1..Len(sent[p]) /\ sent'[q][i] = sent[p][i]
              BY <1>6, <3>1
          <5>2. sent[p][i].id \in 1..sentCount
              BY <1>1, <5>1 DEF LinkInv, LogRight
          <5> QED
              BY <1>3, <1>4, <4>1, <5>1, <5>2
        <4> QED
            BY <1>3, <1>4, <1>5, <3>1, <4>1, <4>2
      <3>2. CASE ~ (q = p /\ j = Len(sent[p]) + 1)
        <4>1. j \in 1..Len(sent[q]) /\ sent'[q][j] = sent[q][j]
              /\ \A i \in 1..(j - 1) : i \in 1..Len(sent[q]) /\ sent'[q][i] = sent[q][i]
          <5>1. j \in 1..Len(sent[q]) \/ (q = p /\ j = Len(sent[p]) + 1)
              BY <1>7, Zenon
          <5>2. j \in 1..Len(sent[q]) /\ Len(sent[q]) \in Nat
              BY <1>7, <3>2, <5>1
          <5>3. \A i \in 1..(j - 1) : i \in 1..Len(sent[q])
              BY <5>2
          <5> QED
              BY <1>7, <5>2, <5>3
        <4>2. /\ sent[q][j].port = q /\ sent[q][j].id \in 1..sentCount
              /\ sent[q][j] = log[sent[q][j].id]
              /\ \A i \in 1..(j - 1) : sent[q][i].id < sent[q][j].id
            BY <1>1, <4>1 DEF LinkInv, LogRight
        <4>3. log2[sent[q][j].id] = log[sent[q][j].id] /\ sent[q][j].id \in 1..sentCount'
            BY <1>3, <1>5, <4>2
        <4> QED
            BY <4>1, <4>2, <4>3
      <3> QED
          BY <3>1, <3>2
    <2> QED
        BY <2>1, <2>2, <2>3 DEF LogRight
  <1>9. ReceivedRight(r)'
    <2> SUFFICES ASSUME NEW q \in Ports
                 PROVE  /\ Len(received[q]) <= Len(sent'[q])
                        /\ \A j \in 1..Len(sent'[q]) :
                              j <= Len(received[q]) <=> sent'[q][j].id <= r
                        /\ \A j \in 1..Len(received[q]) :
                              received[q][j] = [i \in 1..sent'[q][j].len |-> DataToken(sent'[q][j], i)]
        BY <1>3 DEF ReceivedRight
    <2>1. /\ Len(received[q]) <= Len(sent[q])
          /\ \A j \in 1..Len(sent[q]) : j <= Len(received[q]) <=> sent[q][j].id <= r
          /\ \A j \in 1..Len(received[q]) :
                received[q][j] = [i \in 1..sent[q][j].len |-> DataToken(sent[q][j], i)]
          /\ r \in 0..sentCount /\ Len(received[q]) \in Nat
      <3>1. received[q] \in Seq(Seq(Tokens))
          BY <1>1 DEF LinkInv, LinkType
      <3>2. Len(received[q]) \in Nat
          BY <3>1, LenProperties
      <3> QED
          BY <1>1, <3>2 DEF LinkInv, ReceivedRight, LogRight
    <2>2. CASE q = p
      <3>1. \A j \in 1..Len(received[q]) : j \in 1..Len(sent[q]) /\ sent'[q][j] = sent[q][j]
        <4>1. \A j \in 1..Len(received[q]) : j \in 1..Len(sent[q])
            BY <1>7, <2>1
        <4> QED
            BY <1>7, <4>1
      <3>2. ASSUME NEW j \in 1..Len(sent'[q])
            PROVE  j <= Len(received[q]) <=> sent'[q][j].id <= r
        <4>1. CASE j = Len(sent[q]) + 1
          <5>1. sent'[q][j].id = sentCount + 1
              BY <1>4, <1>6, <2>2, <4>1
          <5> QED
              BY <1>3, <1>6, <2>1, <2>2, <4>1, <5>1
        <4>2. CASE j # Len(sent[q]) + 1
          <5>1. j \in 1..Len(sent[q]) /\ sent'[q][j] = sent[q][j]
              BY <1>6, <2>2, <4>2
          <5> QED
              BY <2>1, <5>1
        <4> QED
            BY <4>1, <4>2
      <3>3. Len(received[q]) <= Len(sent'[q])
          BY <1>6, <2>1, <2>2
      <3> QED
          BY <2>1, <3>1, <3>2, <3>3
    <2>3. CASE q # p
        BY <1>6, <2>1, <2>3
    <2> QED
        BY <2>2, <2>3
  <1>10. TxRight(log2)' /\ tx' \in [Senders -> TxCalls] /\ lock' = s /\ tx_len' \in Nat
    <2>1. PICK t \in TxCalls : /\ t = [NoTx EXCEPT !.pc = "port", !.api = a, !.msg = m]
                               /\ t.pc = "port" /\ t.api = a /\ t.msg = m /\ t.next = 1
      <3> DEFINE t == [NoTx EXCEPT !.pc = "port", !.api = a, !.msg = m]
      <3>1. NoTx \in TxCalls /\ NoTx.next = 1
          BY DEF NoTx, TxCalls, Apis
      <3>2. t \in TxCalls /\ t.pc = "port" /\ t.api = a /\ t.msg = m /\ t.next = 1
          BY <3>1 DEF TxCalls
      <3> QED
          BY <3>2
    <2>2. /\ tx \in [Senders -> TxCalls] /\ tx_len = 0
          /\ \A u \in Senders : tx[u].pc = "idle"
        BY <1>1, <1>3 DEF LinkInv, LinkType, TxRight
    <2>3. /\ tx' \in [Senders -> TxCalls] /\ tx'[s] = t
          /\ \A u \in Senders \ {s} : tx'[u] = tx[u]
        BY <1>2, <2>1, <2>2
    <2>4. tx_len' = (IF t.api = "pieces" THEN t.msg.len ELSE 0) /\ tx_len' \in Nat
        BY <1>2, <1>4, <2>1, <2>2
    <2>5. TxCounts(t)'
        BY <2>1, <2>4 DEF TxCounts
    <2>6. TxCounts(tx[lock])'
        BY <1>3, <2>3, <2>5
    <2>7. \A u \in Senders : tx'[u].pc # "idle" <=> lock' = u
        BY <1>3, <2>1, <2>2, <2>3
    <2>8. sentCount' > 0 /\ tx'[lock'].msg = log2[sentCount'] /\ lock' # None
        BY <1>3, <1>5, <2>1, <2>3
    <2> QED
        BY <1>3, <2>3, <2>4, <2>6, <2>7, <2>8 DEF TxRight
  <1>11. TxPlace' = TxPlace
    <2>1. tx'[s].pc = "port"
        BY <1>1, <1>2 DEF LinkInv, LinkType, NoTx
    <2> QED
        BY <1>3, <2>1 DEF TxPlace, PlaceIn
  <1>12. RxRight(log2, r)' /\ RxPlace(log2, r)' = RxPlace(log, r)
    <2>1. ~ trigger => r < sentCount /\ log2[r + 1] = log[r + 1]
      <3>1. r \in 0..sentCount /\ (~ trigger => r < sentCount)
          BY <1>1 DEF LinkInv, LogRight, RxRight
      <3>2. ~ trigger => r + 1 \in 1..sentCount
          BY <1>3, <3>1
      <3> QED
          BY <1>5, <3>1, <3>2
    <2>2. r \in 0..sentCount
        BY <1>1 DEF LinkInv, LogRight
    <2>3. RxRight(log2, r)'
        BY SMTT(60), <1>1, <1>3, <2>1, <2>2 DEF LinkInv, RxRight, Called, Reading, RxCounts
    <2>4. RxPlace(log2, r)' = RxPlace(log, r)
      <3>1. CASE trigger
          BY <1>3, <3>1 DEF RxPlace
      <3>2. CASE ~ trigger
          BY <1>3, <2>1, <3>2 DEF RxPlace, Reading
      <3> QED
          BY <3>1, <3>2
    <2> QED
        BY <2>3, <2>4
  <1>13. ChannelRight(log2, r)'
    <2>1. ChannelRight(log, r)
        BY <1>1 DEF LinkInv
    <2>2. ASSUME NEW i \in 1..Len(channel)
          PROVE  LET at == Place(channel[i]) IN
                 /\ at[1] \in 1..sentCount' /\ at[2] \in 0..(log2[at[1]].len + 1)
                 /\ channel[i] = TokenAt(log2[at[1]], at[2])
                 /\ NextPlace(log2, at) = IF i = Len(channel) THEN TxPlace' ELSE Place(channel[i + 1])
      <3>1. Place(channel[i])[1] \in 1..sentCount
          BY <2>1 DEF ChannelRight
      <3>2. log2[Place(channel[i])[1]] = log[Place(channel[i])[1]]
          BY <1>5, <3>1
      <3>3. NextPlace(log2, Place(channel[i])) = NextPlace(log, Place(channel[i]))
          BY <3>2 DEF NextPlace
      <3>4. Place(channel[i])[1] \in 1..sentCount'
          BY <1>3, <3>1
      <3> QED
          BY <1>11, <2>1, <3>2, <3>3, <3>4 DEF ChannelRight
    <2> QED
        BY <1>3, <1>11, <1>12, <2>1, <2>2 DEF ChannelRight
  <1>14. LinkType'
      BY <1>1, <1>3, <1>6, <1>10 DEF LinkInv, LinkType
  <1> QED
      BY <1>8, <1>9, <1>10, <1>12, <1>13, <1>14 DEF LinkInv, Inv

\* The port byte, the length word and the bytes of the message.
LEMMA TxOutputInv ==
    ASSUME NEW log, NEW r, LinkInv(log, r), NEW s \in Senders,
           TxPort(s) \/ TxLength(s) \/ TxByte(s)
    PROVE  LinkInv(log, r)'
  <1>1. tx[s].pc # "idle"
      BY DEF TxPort, TxLength, TxByte
  <1>2. /\ tx[s].msg.len \in Nat \ {0} /\ tx[s] \in TxCalls /\ tx \in [Senders -> TxCalls]
        /\ TxCounts(tx[s]) /\ tx_len \in Nat
      BY <1>1, HolderIs
  <1>3. CASE TxPort(s)
    <2>1. PICK t \in TxCalls :
            /\ tx' = [tx EXCEPT ![s] = t]
            /\ t.pc = "len" /\ t.api = tx[s].api /\ t.msg = tx[s].msg /\ t.next = tx[s].next
      <3> DEFINE t == [tx[s] EXCEPT !.pc = "len"]
      <3>1. t \in TxCalls
          BY <1>2 DEF TxCalls
      <3>2. t.pc = "len" /\ t.api = tx[s].api /\ t.msg = tx[s].msg /\ t.next = tx[s].next
          BY <1>2 DEF TxCalls
      <3>3. tx' = [tx EXCEPT ![s] = t]
          BY <1>3 DEF TxPort
      <3> HIDE DEF t
      <3> QED
          BY <3>1, <3>2, <3>3
    <2>2. /\ tx[s].pc = "port"
          /\ UNCHANGED <<sentCount, lock, tx_len, sent>> /\ Output(PortToken(tx[s].msg))
        BY <1>3, <2>1 DEF TxPort
    <2>3. TxCounts(t)
        BY <1>2, <2>1, <2>2 DEF TxCounts
    <2>4. PlaceIn(tx[s]) = <<sentCount, 0>> /\ PlaceIn(t) = <<sentCount, 1>>
        BY <2>1, <2>2 DEF PlaceIn
    <2>5. Output(TokenAt(tx[s].msg, 0))
        BY <2>2 DEF TokenAt
    <2>6. 0 <= tx[s].msg.len /\ 0 <= tx[s].msg.len + 1
        BY <1>2
    <2>7. PlaceIn(t) = IF 0 <= tx[s].msg.len THEN <<sentCount, 0 + 1>> ELSE <<sentCount + 1, 0>>
        BY <2>4, <2>6
    <2>8. t.pc # "idle" /\ t.msg = tx[s].msg
        BY <2>1
    <2> QED
        BY <1>1, <2>1, <2>2, <2>3, <2>4, <2>5, <2>6, <2>7, <2>8, HolderSends
  <1>4. CASE TxLength(s)
    <2>1. PICK t \in TxCalls :
            /\ tx' = [tx EXCEPT ![s] = t]
            /\ t.api = tx[s].api /\ t.msg = tx[s].msg /\ t.next = tx[s].next
            /\ t.api = "whole" => t.pc = "bytes" /\ t.left = tx[s].msg.len
            /\ t.api = "pieces" => t.pc = "caller"
      <3>1. tx[s].api \in {"whole", "pieces"}
          BY <1>2 DEF TxCalls, Apis
      <3>2. CASE tx[s].api = "whole"
        <4> DEFINE t == [tx[s] EXCEPT !.pc = "bytes", !.left = tx[s].msg.len]
        <4>1. /\ t \in TxCalls /\ t.api = tx[s].api /\ t.msg = tx[s].msg /\ t.next = tx[s].next
              /\ t.pc = "bytes" /\ t.left = tx[s].msg.len
            BY <1>2 DEF TxCalls
        <4>2. tx' = [tx EXCEPT ![s] = t]
            BY <1>4, <3>2 DEF TxLength
        <4> HIDE DEF t
        <4> QED
            BY <3>2, <4>1, <4>2
      <3>3. CASE tx[s].api = "pieces"
        <4> DEFINE t == [tx[s] EXCEPT !.pc = "caller"]
        <4>1. /\ t \in TxCalls /\ t.api = tx[s].api /\ t.msg = tx[s].msg /\ t.next = tx[s].next
              /\ t.pc = "caller"
            BY <1>2 DEF TxCalls
        <4>2. tx' = [tx EXCEPT ![s] = t]
            BY <1>4, <3>3 DEF TxLength
        <4> HIDE DEF t
        <4> QED
            BY <3>3, <4>1, <4>2
      <3> QED
          BY <3>1, <3>2, <3>3
    <2>2. /\ tx[s].pc = "len"
          /\ UNCHANGED <<sentCount, lock, tx_len, sent>> /\ Output(LenToken(tx[s].msg))
        BY <1>4 DEF TxLength
    <2>3. t.api \in {"whole", "pieces"} /\ t.next = 1 /\ t.pc \in {"bytes", "caller"}
        BY <1>2, <2>1, <2>2 DEF TxCalls, Apis, TxCounts
    <2>4. TxCounts(t)
        BY <1>2, <2>1, <2>2, <2>3 DEF TxCounts
    <2>5. PlaceIn(tx[s]) = <<sentCount, 1>> /\ PlaceIn(t) = <<sentCount, 2>>
        BY <1>2, <2>1, <2>2, <2>3 DEF PlaceIn
    <2>6. Output(TokenAt(tx[s].msg, 1))
        BY <2>2 DEF TokenAt
    <2>7. 1 <= tx[s].msg.len /\ 1 <= tx[s].msg.len + 1
        BY <1>2
    <2>8. PlaceIn(t) = IF 1 <= tx[s].msg.len THEN <<sentCount, 1 + 1>> ELSE <<sentCount + 1, 0>>
        BY <2>5, <2>7
    <2>9. t.pc # "idle" /\ t.msg = tx[s].msg
        BY <2>1, <2>3
    <2> QED
        BY <1>1, <2>1, <2>2, <2>4, <2>5, <2>6, <2>7, <2>8, <2>9, HolderSends
  <1>5. CASE TxByte(s)
    <2>1. /\ tx[s].pc = "bytes" /\ tx[s].left > 0
          /\ Output(DataToken(tx[s].msg, tx[s].next))
          /\ tx' = [tx EXCEPT ![s] = [@ EXCEPT !.next = tx[s].next + 1, !.left = tx[s].left - 1]]
          /\ UNCHANGED <<sentCount, lock, tx_len, sent>>
        BY <1>5 DEF TxByte
    <2>2. tx[s].left \in Nat \ {0} /\ tx[s].next \in Nat /\ tx[s].api \in {"whole", "pieces"}
          /\ tx[s].piece \in Nat
        BY <1>2, <2>1 DEF TxCalls, Apis
    <2>3. PICK t \in TxCalls :
            /\ tx' = [tx EXCEPT ![s] = t]
            /\ t.api = tx[s].api /\ t.msg = tx[s].msg /\ t.piece = tx[s].piece /\ t.pc = "bytes"
            /\ t.next = tx[s].next + 1 /\ t.left = tx[s].left - 1
      <3> DEFINE t == [tx[s] EXCEPT !.next = tx[s].next + 1, !.left = tx[s].left - 1]
      <3>1. /\ t.api = tx[s].api /\ t.msg = tx[s].msg /\ t.piece = tx[s].piece /\ t.pc = "bytes"
            /\ t.next = tx[s].next + 1 /\ t.left = tx[s].left - 1
          BY <1>2, <2>1 DEF TxCalls
      <3>2. tx[s].next + 1 \in Nat /\ tx[s].left - 1 \in Nat
          BY <2>2
      <3>3. t \in TxCalls
          BY <1>2, <3>2 DEF TxCalls
      <3>4. tx' = [tx EXCEPT ![s] = t]
          BY <2>1
      <3> HIDE DEF t
      <3> QED
          BY <3>1, <3>3, <3>4
    <2>4. tx[s].next <= tx[s].msg.len /\ TxCounts(t) /\ tx[s].next >= 1
        BY <1>2, <2>1, <2>2, <2>3 DEF TxCounts
    <2>5. /\ PlaceIn(tx[s]) = <<sentCount, tx[s].next + 1>>
          /\ PlaceIn(t) = IF tx[s].next + 1 <= tx[s].msg.len THEN <<sentCount, (tx[s].next + 1) + 1>>
                          ELSE <<sentCount + 1, 0>>
        BY <2>1, <2>3, <2>4 DEF PlaceIn
    <2>6. Output(TokenAt(tx[s].msg, tx[s].next + 1))
      <3>1. TokenAt(tx[s].msg, tx[s].next + 1) = DataToken(tx[s].msg, tx[s].next)
          BY <2>2, <2>4 DEF TokenAt
      <3> QED
          BY <2>1, <3>1
    <2>7. PICK n \in Nat : n = tx[s].next + 1 /\ n <= tx[s].msg.len + 1
        BY <1>2, <2>2, <2>4
    <2>8. t.pc # "idle" /\ t.msg = tx[s].msg
        BY <2>3
    <2> QED
        BY <1>1, <2>1, <2>3, <2>4, <2>5, <2>6, <2>7, <2>8, HolderSends
  <1> QED
      BY <1>3, <1>4, <1>5

\* rtos_intertile_tx_data is called for a piece.
LEMMA TxDataInv ==
    ASSUME NEW log, NEW r, LinkInv(log, r), NEW s \in Senders, TxData(s)
    PROVE  LinkInv(log, r)'
  <1>1. tx[s].pc = "caller"
      BY DEF TxData, LinkInv, LinkType, TxCalls
  <1>2. PICK n \in 1..tx[s].msg.len :
          tx' = [tx EXCEPT ![s] = [@ EXCEPT !.pc = "bytes", !.piece = Smaller(n, tx_len),
                                            !.left = Smaller(n, tx_len)]]
      BY <1>1 DEF TxData
  <1>3. UNCHANGED <<sentCount, lock, tx_len, sent, channel, rxVars>>
      BY DEF TxData
  <1>4. /\ tx[s].msg.len \in Nat \ {0} /\ tx[s] \in TxCalls /\ tx \in [Senders -> TxCalls]
        /\ TxCounts(tx[s]) /\ tx_len \in Nat /\ TxPlace = PlaceIn(tx[s])
      BY <1>1, HolderIs
  <1>5. tx[s].api = "pieces" /\ tx_len > 0 /\ tx[s].next + tx_len = tx[s].msg.len + 1
        /\ tx[s].next >= 1 /\ tx[s].next \in Nat
      BY <1>1, <1>4 DEF TxCounts, TxCalls, Apis
  <1>6. Smaller(n, tx_len) \in 1..tx_len /\ Smaller(n, tx_len) \in Nat
      BY <1>4, <1>5 DEF Smaller
  <1>7. PICK t \in TxCalls :
          /\ tx' = [tx EXCEPT ![s] = t]
          /\ t.pc = "bytes" /\ t.api = "pieces" /\ t.msg = tx[s].msg /\ t.next = tx[s].next
          /\ t.piece \in 1..tx_len /\ t.left = t.piece
    <2> DEFINE t == [tx[s] EXCEPT !.pc = "bytes", !.piece = Smaller(n, tx_len),
                                  !.left = Smaller(n, tx_len)]
    <2>1. t \in TxCalls
        BY <1>4, <1>6 DEF TxCalls
    <2>2. /\ t.pc = "bytes" /\ t.api = tx[s].api /\ t.msg = tx[s].msg /\ t.next = tx[s].next
          /\ t.piece = Smaller(n, tx_len) /\ t.left = Smaller(n, tx_len)
        BY <1>4 DEF TxCalls
    <2>3. tx' = [tx EXCEPT ![s] = t]
        BY <1>2
    <2> HIDE DEF t
    <2> QED
        BY <1>5, <1>6, <2>1, <2>2, <2>3
  <1>8. TxCounts(t)
    <2>1. t.next + t.left + (tx_len - t.piece) = t.msg.len + 1
        BY <1>4, <1>5, <1>7
    <2> QED
        BY <1>5, <1>7, <2>1 DEF TxCounts
  <1>9. PlaceIn(t) = PlaceIn(tx[s])
      BY <1>1, <1>7 DEF PlaceIn
  <1>10. /\ TxRight(log)' /\ TxPlace' = TxPlace
         /\ tx' \in [Senders -> TxCalls] /\ lock' \in Senders \cup {None} /\ tx_len' \in Nat
    <2>1. t.pc # "idle" /\ tx[s].pc # "idle" /\ t.msg = tx[s].msg
        BY <1>1, <1>7
    <2> QED
        BY <1>3, <1>4, <1>7, <1>8, <1>9, <2>1, HolderMoves
  <1>11. ChannelRight(log, r)'
      BY <1>3, <1>10, ChannelSame, ReceiverSame DEF LinkInv
  <1> QED
      BY <1>3, <1>10, <1>11, ReceiverSame DEF LinkInv, LinkType

\* The message is sent: the mutex is given back.
LEMMA TxReleased ==
    ASSUME NEW log, NEW r, LinkInv(log, r), NEW s \in Senders, tx[s].pc = "bytes",
           tx[s].next = tx[s].msg.len + 1, lock' = None, tx_len' = 0,
           tx' = [tx EXCEPT ![s] = NoTx], UNCHANGED <<sentCount, sent, channel, rxVars>>
    PROVE  LinkInv(log, r)'
  <1>1. /\ lock = s /\ tx[s].msg.len \in Nat \ {0} /\ tx \in [Senders -> TxCalls]
        /\ TxPlace = PlaceIn(tx[s])
      BY HolderIs
  <1>2. NoTx \in TxCalls /\ NoTx.pc = "idle"
      BY DEF NoTx, TxCalls, Apis
  <1>3. /\ tx' \in [Senders -> TxCalls] /\ tx'[s] = NoTx
        /\ \A u \in Senders \ {s} : tx'[u] = tx[u]
      BY <1>1, <1>2
  <1>4. TxRight(log)'
    <2>1. \A u \in Senders : tx[u].pc # "idle" <=> s = u
        BY <1>1 DEF LinkInv, TxRight
    <2>2. \A u \in Senders : tx'[u].pc = "idle" /\ u # None
        BY <1>2, <1>3, <2>1, IntertileAssumption
    <2> QED
        BY <2>2 DEF TxRight
  <1>5. TxPlace' = TxPlace
    <2>1. PlaceIn(tx[s]) = <<sentCount + 1, 0>>
        BY <1>1 DEF PlaceIn
    <2> QED
        BY <1>1, <2>1 DEF TxPlace
  <1>6. ChannelRight(log, r)'
      BY <1>5, ChannelSame, ReceiverSame DEF LinkInv
  <1> QED
      BY <1>3, <1>4, <1>6, ReceiverSame DEF LinkInv, LinkType

\* rtos_intertile_tx and rtos_intertile_tx_data have sent their piece.
LEMMA TxDoneInv ==
    ASSUME EmptyTails = {}, NEW log, NEW r, LinkInv(log, r), NEW s \in Senders,
           TxUnlock(s) \/ TxDataDone(s)
    PROVE  LinkInv(log, r)'
  <1>1. tx[s].pc = "bytes" /\ tx[s].left = 0
      BY DEF TxUnlock, TxDataDone
  <1>2. /\ tx[s].msg.len \in Nat \ {0} /\ tx[s] \in TxCalls /\ tx \in [Senders -> TxCalls]
        /\ TxCounts(tx[s]) /\ tx_len \in Nat /\ TxPlace = PlaceIn(tx[s]) /\ lock = s
      BY <1>1, HolderIs
  <1>3. tx[s].next \in Nat /\ tx[s].piece \in Nat
      BY <1>2 DEF TxCalls
  <1>4. CASE TxUnlock(s)
    <2>1. tx[s].api = "whole" /\ lock' = None /\ tx' = [tx EXCEPT ![s] = NoTx]
          /\ tx_len' = tx_len /\ UNCHANGED <<sentCount, sent, channel, rxVars>>
        BY <1>4 DEF TxUnlock
    <2>2. tx_len' = 0 /\ tx[s].next = tx[s].msg.len + 1
        BY <1>1, <1>2, <1>3, <2>1 DEF TxCounts
    <2> QED
        BY <1>1, <2>1, <2>2, TxReleased
  <1>5. CASE TxDataDone(s)
    <2>1. /\ tx[s].api = "pieces" /\ tx_len' = tx_len - tx[s].piece
          /\ lock' = IF tx_len' = 0 THEN None ELSE lock
          /\ tx' = [tx EXCEPT ![s] =
                       IF tx[s].piece > 0 /\ tx_len' > 0 THEN [@ EXCEPT !.pc = "caller"]
                       ELSE IF tx[s].piece > 0 /\ s \in EmptyTails THEN EmptyTail
                       ELSE NoTx]
          /\ UNCHANGED <<sentCount, sent, channel, rxVars>>
        BY <1>5 DEF TxDataDone
    <2>2. /\ tx[s].piece \in 1..tx_len /\ tx_len' \in Nat
          /\ tx[s].next + tx_len' = tx[s].msg.len + 1 /\ tx[s].next >= 1
        BY <1>1, <1>2, <1>3, <2>1 DEF TxCounts
    <2>3. CASE tx_len' = 0
      <3>1. tx' = [tx EXCEPT ![s] = NoTx] /\ lock' = None
        <4>1. ~ (tx[s].piece > 0 /\ tx_len' > 0) /\ s \notin EmptyTails
            BY <2>3
        <4> QED
            BY <2>1, <2>3, <4>1, Zenon
      <3>2. tx[s].next = tx[s].msg.len + 1
          BY <1>2, <1>3, <2>2, <2>3
      <3> QED
          BY <1>1, <2>1, <2>3, <3>1, <3>2, TxReleased
    <2>4. CASE tx_len' # 0
      <3> DEFINE new == [tx[s] EXCEPT !.pc = "caller"]
      <3>1. /\ new \in TxCalls /\ new.pc = "caller" /\ new.api = "pieces" /\ new.msg = tx[s].msg
            /\ new.next = tx[s].next
          BY <1>2, <2>1 DEF TxCalls
      <3>2. tx_len' > 0 /\ tx[s].piece > 0 /\ lock' = lock
          BY <2>1, <2>2, <2>4
      <3>3. tx' = [tx EXCEPT ![s] = new]
          BY <2>1, <3>2
      <3> HIDE DEF new
      <3>4. /\ tx' \in [Senders -> TxCalls] /\ tx'[s] = new
            /\ \A u \in Senders \ {s} : tx'[u] = tx[u]
          BY <1>2, <3>1, <3>3
      <3>5. TxCounts(tx[s])'
          BY <2>2, <3>1, <3>2, <3>4 DEF TxCounts
      <3>6. TxRight(log)'
        <4>1. \A u \in Senders : tx'[u].pc # "idle" <=> lock' = u
            BY <1>1, <1>2, <3>1, <3>2, <3>4 DEF LinkInv, TxRight
        <4>2. lock' = s /\ s # None /\ sentCount > 0 /\ tx[s].msg = log[sentCount]
            BY <1>1, <1>2, <3>2, HolderIs
        <4> QED
            BY <2>1, <3>1, <3>4, <3>5, <4>1, <4>2 DEF TxRight
      <3>7. TxPlace' = TxPlace
        <4>1. PlaceIn(tx[s])' = PlaceIn(tx[s])
            BY <1>1, <2>1, <3>1, <3>4 DEF PlaceIn
        <4> QED
            BY <1>1, <1>2, <3>2, <4>1, HolderIs DEF TxPlace
      <3>8. ChannelRight(log, r)'
          BY <2>1, <3>7, ChannelSame, ReceiverSame DEF LinkInv
      <3>9. lock' \in Senders \cup {None}
          BY <1>2, <3>2
      <3> QED
          BY <2>1, <2>2, <3>4, <3>6, <3>8, <3>9, ReceiverSame DEF LinkInv, LinkType
    <2> QED
        BY <2>3, <2>4
  <1> QED
      BY <1>4, <1>5

-----------------------------------------------------------------------------
(***************************************************************************)
(* The receiving tile.                                                     *)
(***************************************************************************)

\* A step of the receiving tile leaves the sending tile where it is.
LEMMA SenderSame ==
    ASSUME NEW log, NEW r, LinkInv(log, r), UNCHANGED txVars
    PROVE  /\ LogRight(log, r)' /\ TxRight(log)' /\ TxPlace' = TxPlace /\ sentCount' = sentCount
           /\ sentCount' \in 0..MaxMessages /\ sent' = sent
           /\ lock' \in Senders \cup {None} /\ tx_len' \in Nat /\ tx' \in [Senders -> TxCalls]
           /\ sent' \in [Ports -> Seq(Messages)]
  <1>1. UNCHANGED <<sentCount, lock, tx_len, tx, sent>>
      BY DEF txVars
  <1>2. LogRight(log, r)'
      BY <1>1 DEF LinkInv, LogRight
  <1>3. TxRight(log)' /\ TxPlace' = TxPlace
      BY <1>1 DEF LinkInv, TxRight, TxCounts, TxPlace, PlaceIn
  <1> QED
      BY <1>1, <1>2, <1>3 DEF LinkInv, LinkType

\* The message that is being received.
LEMMA MessageIs ==
    ASSUME NEW log, NEW r, LinkInv(log, r), ~ trigger \/ r < sentCount
    PROVE  /\ r \in Nat /\ r + 1 \in 1..sentCount /\ log[r + 1] \in Messages
           /\ log[r + 1].id = r + 1 /\ log[r + 1].port \in Ports
           /\ log[r + 1].len \in Nat \ {0}
  <1>1. r \in Nat /\ r + 1 \in 1..sentCount
      BY DEF LinkInv, LinkType, LogRight, RxRight
  <1>2. log[r + 1] \in Messages /\ log[r + 1].id = r + 1
      BY <1>1 DEF LinkInv, LogRight
  <1> QED
      BY <1>1, <1>2, IntertileAssumption DEF Messages

\* The interrupt: the next token is the port byte of the next message.
LEMMA IsrInv ==
    ASSUME NEW log, NEW r, LinkInv(log, r), Isr
    PROVE  LinkInv(log, r)'
  <1>1. /\ trigger = TRUE /\ channel # <<>> /\ trigger' = FALSE
        /\ deferred' = Head(channel).value /\ channel' = Tail(channel)
        /\ UNCHANGED <<flags, rx_len, rx, received>> /\ UNCHANGED txVars
      BY DEF Isr, LinkInv, LinkType
  <1>2. RxPlace(log, r) = <<r + 1, 0>>
      BY <1>1 DEF RxPlace
  <1>3. r + 1 \in 1..sentCount /\ Head(channel) = TokenAt(log[r + 1], 0)
      BY <1>1, <1>2, ChannelHead
  <1>4. r \in 0..sentCount /\ sentCount \in Nat
      BY DEF LinkInv, LogRight, LinkType
  <1>5. r < sentCount
      BY <1>3, <1>4
  <1>6. /\ log[r + 1].port \in Ports /\ log[r + 1].len \in Nat \ {0}
      BY <1>5, MessageIs
  <1>7. deferred' = log[r + 1].port
      BY <1>1, <1>3 DEF TokenAt, PortToken
  <1>8. /\ flags = {} /\ rx_len = 0
        /\ \A p \in Ports : rx[p].pc \in {"idle", "wait"}
        /\ \A p \in Ports : rx[p].pc \in {"wait", "len"} => rx[p].data = <<>>
      BY <1>1 DEF LinkInv, RxRight
  <1>9. RxRight(log, r)'
    <2>1. Called(log[r + 1].port)' /\ ~ Reading(log[r + 1].port)'
        BY <1>1, <1>6, <1>7, <1>8 DEF Called, Reading
    <2>2. sentCount' = sentCount
        BY <1>1, SenderSame
    <2> QED
        BY <1>1, <1>5, <1>6, <1>7, <1>8, <2>1, <2>2 DEF RxRight
  <1>10. RxPlace(log, r)' = NextPlace(log, RxPlace(log, r))
    <2>1. RxPlace(log, r)' = <<r + 1, 1>>
        BY <1>1, <1>6, <1>8 DEF RxPlace, Reading
    <2>2. NextPlace(log, <<r + 1, 0>>) = <<r + 1, 1>>
        BY <1>6 DEF NextPlace
    <2> QED
        BY <1>2, <2>1, <2>2
  <1>11. ChannelRight(log, r)' /\ channel' \in Seq(Tokens)
      BY <1>1, <1>10, ChannelShrinks, SenderSame
  <1>12. ReceivedRight(r)'
    <2>1. sent' = sent /\ received' = received
        BY <1>1, SenderSame
    <2> QED
        BY <2>1 DEF LinkInv, ReceivedRight
  <1>13. LinkType'
      BY <1>1, <1>6, <1>7, <1>11, SenderSame DEF LinkInv, LinkType
  <1> QED
      BY <1>1, <1>9, <1>11, <1>12, <1>13, SenderSame DEF LinkInv

\* The daemon task, a call that waits and one whose wait is over: no token moves.
LEMMA WaitingInv ==
    ASSUME NEW log, NEW r, LinkInv(log, r),
           SetBits \/ \E p \in Ports : RxCall(p) \/ RxTimeout(p)
    PROVE  LinkInv(log, r)'
  <1>1. UNCHANGED <<channel, trigger, rx_len, received>> /\ UNCHANGED txVars
      BY DEF SetBits, RxCall, RxTimeout
  <1>2. /\ NoRx \in RxCalls /\ NoRx.pc = "idle" /\ NoRx.data = <<>>
        /\ \A a \in Apis : \A pc \in {"wait", "len"} :
              LET c == [NoRx EXCEPT !.api = a, !.pc = pc] IN
              c \in RxCalls /\ c.pc = pc /\ c.data = <<>>
    <2>1. NoRx \in RxCalls /\ NoRx.pc = "idle" /\ NoRx.data = <<>>
        BY EmptySeq DEF NoRx, RxCalls, Apis
    <2> QED
        BY <2>1 DEF RxCalls
  <1>3. sentCount' = sentCount
      BY <1>1, SenderSame
  <1>4. rx \in [Ports -> RxCalls]
      BY DEF LinkInv, LinkType
  <1>5. /\ RxRight(log, r)' /\ rx' \in [Ports -> RxCalls]
        /\ deferred' \in Ports \cup {None} /\ flags' \subseteq Ports
        /\ \A p \in Ports : Reading(p)' = Reading(p) /\ (Reading(p) => rx'[p] = rx[p])
    <2>1. CASE SetBits
      <3>1. deferred # None /\ deferred' = None /\ deferred \in Ports
          BY <2>1 DEF SetBits, LinkInv, LinkType
      <3>2. trigger = FALSE /\ deferred = log[r + 1].port
          BY <3>1 DEF LinkInv, RxRight, LinkType
      <3>3. ~ Reading(deferred) /\ flags = {} /\ rx_len = 0 /\ rx[deferred].pc # "len"
            /\ rx[deferred].pc \in {"idle", "wait"}
          BY <1>4, <3>1, <3>2 DEF LinkInv, RxRight, Reading, RxCalls
      <3>4. CASE rx[deferred].pc = "wait"
        <4> DEFINE new == [rx[deferred] EXCEPT !.pc = "len"]
        <4>1. rx[deferred].data = <<>>
            BY <3>1, <3>4 DEF LinkInv, RxRight
        <4>2. new \in RxCalls /\ new.pc = "len" /\ new.data = <<>>
            BY <1>4, <3>1, <4>1 DEF RxCalls
        <4>3. rx' = [rx EXCEPT ![deferred] = new] /\ flags' = flags
            BY <2>1, <3>4 DEF SetBits
        <4> HIDE DEF new
        <4>4. /\ rx' \in [Ports -> RxCalls] /\ rx'[deferred] = new
              /\ \A p \in Ports \ {deferred} : rx'[p] = rx[p]
            BY <1>4, <3>1, <4>2, <4>3
        <4>5. \A p \in Ports : Reading(p)' = Reading(p) /\ (Reading(p) => rx'[p] = rx[p])
            BY <3>3, <4>2, <4>4 DEF Reading
        <4>6. RxRight(log, r)'
            BY <1>1, <1>3, <3>1, <3>2, <3>3, <4>2, <4>3, <4>4 DEF LinkInv, RxRight, Called, Reading
        <4> QED
            BY <3>1, <3>3, <4>3, <4>4, <4>5, <4>6
      <3>5. CASE rx[deferred].pc # "wait"
        <4>1. rx' = rx /\ flags' = flags \cup {deferred}
            BY <2>1, <3>5 DEF SetBits
        <4>2. RxRight(log, r)'
            BY <1>1, <1>3, <3>1, <3>2, <3>3, <4>1 DEF LinkInv, RxRight, Called, Reading
        <4> QED
            BY <1>4, <3>1, <3>3, <4>1, <4>2 DEF Reading
      <3> QED
          BY <3>4, <3>5
    <2>2. ASSUME NEW p \in Ports, RxCall(p) \/ RxTimeout(p)
          PROVE  /\ RxRight(log, r)' /\ rx' \in [Ports -> RxCalls]
                 /\ deferred' \in Ports \cup {None} /\ flags' \subseteq Ports
                 /\ \A q \in Ports : Reading(q)' = Reading(q) /\ (Reading(q) => rx'[q] = rx[q])
      <3>1. PICK c \in RxCalls :
              /\ rx' = [rx EXCEPT ![p] = c] /\ c.data = <<>>
              /\ \/ c.pc = "wait" /\ p \notin flags
                 \/ c.pc = "len" /\ p \in flags
                 \/ c.pc = "idle" /\ p \notin flags' \ flags
        <4>1. CASE RxCall(p)
          <5>1. PICK a \in Apis : rx' = [rx EXCEPT ![p] = [NoRx EXCEPT !.api = a,
                                           !.pc = IF p \in flags THEN "len" ELSE "wait"]]
              BY <4>1 DEF RxCall
          <5>2. CASE p \in flags
            <6>1. rx' = [rx EXCEPT ![p] = [NoRx EXCEPT !.api = a, !.pc = "len"]]
                BY <5>1, <5>2
            <6> QED
                BY <1>2, <5>2, <6>1
          <5>3. CASE p \notin flags
            <6>1. rx' = [rx EXCEPT ![p] = [NoRx EXCEPT !.api = a, !.pc = "wait"]]
                BY <5>1, <5>3
            <6> QED
                BY <1>2, <5>3, <6>1
          <5> QED
              BY <5>2, <5>3
        <4>2. CASE RxTimeout(p)
            BY <1>2, <4>2 DEF RxTimeout
        <4> QED
            BY <2>2, <4>1, <4>2
      <3>2. /\ deferred' = deferred /\ rx[p].pc \in {"idle", "wait"}
            /\ flags' = IF c.pc = "idle" THEN flags ELSE flags \ {p}
        <4>1. CASE RxCall(p)
          <5>1. rx'[p].pc # "idle"
              BY <1>2, <1>4, <4>1 DEF RxCall
          <5>2. c.pc # "idle"
              BY <1>4, <3>1, <5>1
          <5> QED
              BY <4>1, <5>2 DEF RxCall
        <4>2. CASE RxTimeout(p)
          <5>1. rx'[p].pc = "idle"
              BY <1>2, <1>4, <4>2 DEF RxTimeout
          <5>2. c.pc = "idle"
              BY <1>4, <3>1, <5>1
          <5> QED
              BY <4>2, <5>2 DEF RxTimeout
        <4> QED
            BY <2>2, <4>1, <4>2
      <3>3. /\ rx' \in [Ports -> RxCalls] /\ rx'[p] = c
            /\ \A q \in Ports \ {p} : rx'[q] = rx[q]
          BY <1>4, <3>1
      <3>4. \A q \in Ports : Reading(q)' = Reading(q) /\ (Reading(q) => rx'[q] = rx[q])
          BY <3>1, <3>2, <3>3 DEF Reading
      <3>5. \A q \in Ports : rx'[q].pc \in {"wait", "len"} => rx'[q].data = <<>>
          BY <3>1, <3>3 DEF LinkInv, RxRight
      <3>6. CASE trigger
        <4>1. deferred = None /\ flags = {} /\ rx_len = 0
              /\ \A q \in Ports : rx[q].pc \in {"idle", "wait"}
            BY <3>6 DEF LinkInv, RxRight
        <4>2. c.pc \in {"idle", "wait"} /\ flags' = {}
            BY <3>1, <3>2, <4>1
        <4>3. \A q \in Ports : rx'[q].pc \in {"idle", "wait"}
            BY <3>3, <4>1, <4>2
        <4>4. RxRight(log, r)'
            BY <1>1, <3>2, <3>5, <3>6, <4>1, <4>2, <4>3 DEF RxRight
        <4> QED
            BY <3>2, <3>3, <3>4, <4>1, <4>2, <4>4
      <3>7. CASE ~ trigger
        <4> DEFINE m == log[r + 1]
        <4>1. /\ deferred \in {m.port, None} /\ flags \subseteq {m.port} /\ r < sentCount
              /\ \A q \in Ports \ {m.port} : rx[q].pc \in {"idle", "wait"}
              /\ m.port \in Ports
            BY <3>7, MessageIs DEF LinkInv, RxRight
        <4>2. flags' \subseteq {m.port} /\ flags' \subseteq flags
            BY <3>2, <4>1
        <4>3. \A q \in Ports \ {m.port} : rx'[q].pc \in {"idle", "wait"}
            BY <3>1, <3>3, <4>1
        <4>4. CASE Reading(m.port)
          <5>1. /\ deferred = None /\ flags = {} /\ RxCounts(rx[m.port], m) /\ p # m.port
              BY <3>2, <3>7, <4>4 DEF LinkInv, RxRight, Reading
          <5>2. Reading(m.port)' /\ rx'[m.port] = rx[m.port] /\ flags' = {}
              BY <3>4, <4>1, <4>2, <4>4, <5>1
          <5>3. RxCounts(rx[m.port], m)'
              BY <1>1, <5>1, <5>2 DEF RxCounts
          <5>4. RxRight(log, r)'
              BY <1>1, <1>3, <3>2, <3>5, <3>7, <4>1, <4>2, <4>3, <5>1, <5>2, <5>3 DEF RxRight
          <5> QED
              BY <3>2, <3>3, <3>4, <4>1, <4>2, <5>4
        <4>5. CASE ~ Reading(m.port)
          <5>1. /\ Called(m.port) /\ rx_len = 0 /\ ~ (deferred # None /\ flags # {})
                /\ (rx[m.port].pc = "len" => deferred = None /\ flags = {})
              BY <3>7, <4>5 DEF LinkInv, RxRight
          <5>2. ~ Reading(m.port)' /\ ~ (deferred' # None /\ flags' # {})
              BY <3>2, <3>4, <4>1, <4>2, <4>5, <5>1
          <5>3. Called(m.port)' /\ (rx'[m.port].pc = "len" => deferred' = None /\ flags' = {})
            <6>1. CASE p = m.port
              <7>1. CASE c.pc = "len"
                <8>1. p \in flags
                    BY <3>1, <7>1
                <8>2. deferred = None /\ flags' = {} /\ rx'[p].pc = "len"
                    BY <3>2, <3>3, <4>1, <5>1, <6>1, <7>1, <8>1
                <8> QED
                    BY <3>2, <6>1, <8>2 DEF Called
              <7>2. CASE c.pc # "len"
                <8>1. deferred = m.port \/ m.port \in flags
                    BY <3>2, <5>1, <6>1 DEF Called
                <8>2. deferred' = m.port \/ m.port \in flags'
                    BY <3>1, <3>2, <6>1, <7>2, <8>1
                <8> QED
                    BY <3>3, <6>1, <7>2, <8>2 DEF Called
              <7> QED
                  BY <7>1, <7>2
            <6>2. CASE p # m.port
              <7>1. rx'[m.port] = rx[m.port] /\ flags' = flags
                  BY <3>2, <3>3, <4>1, <6>2
              <7> QED
                  BY <3>2, <5>1, <7>1 DEF Called
            <6> QED
                BY <6>1, <6>2
          <5>4. RxRight(log, r)'
              BY <1>1, <1>3, <3>2, <3>5, <3>7, <4>1, <4>2, <4>3, <5>1, <5>2, <5>3 DEF RxRight
          <5> QED
              BY <3>2, <3>3, <3>4, <4>1, <4>2, <5>4
        <4> QED
            BY <4>4, <4>5
      <3> QED
          BY <3>6, <3>7
    <2> QED
        BY <2>1, <2>2
  <1>6. RxPlace(log, r)' = RxPlace(log, r)
    <2>1. CASE trigger
        BY <1>1, <2>1 DEF RxPlace
    <2>2. CASE ~ trigger
      <3>1. log[r + 1].port \in Ports
          BY <2>2, MessageIs
      <3> QED
          BY <1>1, <1>5, <2>2, <3>1 DEF RxPlace
    <2> QED
        BY <2>1, <2>2
  <1>7. ChannelRight(log, r)'
      BY <1>1, <1>6, ChannelSame, SenderSame DEF LinkInv
  <1>8. ReceivedRight(r)'
      BY <1>1, SenderSame DEF LinkInv, ReceivedRight
  <1>9. LinkType'
      BY <1>1, <1>5, SenderSame DEF LinkInv, LinkType
  <1> QED
      BY <1>1, <1>5, <1>7, <1>8, <1>9, SenderSame DEF LinkInv

\* What is known of the listener that reads message m.
LEMMA ListenerIs ==
    ASSUME NEW log, NEW r, LinkInv(log, r), NEW p \in Ports, rx[p].pc \in {"len", "caller", "bytes"}
    PROVE  /\ trigger = FALSE /\ r < sentCount /\ p = log[r + 1].port
           /\ deferred = None /\ flags = {}
           /\ log[r + 1].len \in Nat \ {0} /\ log[r + 1] \in Messages /\ log[r + 1].id = r + 1
           /\ rx[p] \in RxCalls /\ rx \in [Ports -> RxCalls] /\ rx_len \in Nat
           /\ rx[p].data \in Seq(Tokens) /\ Len(rx[p].data) \in Nat
           /\ rx[p].pc = "len" => rx[p].data = <<>> /\ rx_len = 0
           /\ rx[p].pc # "len" => RxCounts(rx[p], log[r + 1])
  <1>1. trigger = FALSE
      BY DEF LinkInv, LinkType, RxRight
  <1>2. /\ r < sentCount /\ p = log[r + 1].port
        /\ rx[p].pc = "len" => rx[p].data = <<>>
      BY <1>1 DEF LinkInv, RxRight
  <1>3. /\ log[r + 1].len \in Nat \ {0} /\ log[r + 1] \in Messages /\ log[r + 1].id = r + 1
      BY <1>1, MessageIs
  <1>4. rx[p] \in RxCalls /\ rx \in [Ports -> RxCalls] /\ rx_len \in Nat
      BY DEF LinkInv, LinkType
  <1>5. rx[p].data \in Seq(Tokens) /\ Len(rx[p].data) \in Nat
    <2>1. rx[p].data \in Seq(Tokens)
        BY <1>4 DEF RxCalls
    <2> QED
        BY <2>1, LenProperties
  <1>6. CASE rx[p].pc = "len"
    <2>1. ~ Reading(p)
        BY <1>6 DEF Reading
    <2>2. deferred = None /\ flags = {} /\ rx_len = 0
        BY <1>1, <1>2, <1>6, <2>1 DEF LinkInv, RxRight
    <2> QED
        BY <1>1, <1>2, <1>3, <1>4, <1>5, <1>6, <2>2
  <1>7. CASE rx[p].pc # "len"
    <2>1. Reading(p)
        BY <1>7 DEF Reading
    <2>2. deferred = None /\ flags = {} /\ RxCounts(rx[p], log[r + 1])
        BY <1>1, <1>2, <2>1 DEF LinkInv, RxRight
    <2> QED
        BY <1>1, <1>2, <1>3, <1>4, <1>5, <1>7, <2>2
  <1> QED
      BY <1>6, <1>7

\* The listener goes on reading its message, as c.
LEMMA ListenerMoves ==
    ASSUME NEW log, NEW r, LinkInv(log, r), NEW p \in Ports,
           rx[p].pc \in {"len", "caller", "bytes"},
           NEW c \in RxCalls, rx' = [rx EXCEPT ![p] = c], c.pc \in {"caller", "bytes"},
           rx_len' \in Nat, RxCounts(c, log[r + 1])',
           UNCHANGED <<trigger, deferred, flags, received>>, UNCHANGED txVars,
           channel' \in Seq(Tokens)
    PROVE  /\ LinkType' /\ LogRight(log, r)' /\ ReceivedRight(r)' /\ TxRight(log)' /\ RxRight(log, r)'
           /\ RxPlace(log, r)' = IF Len(c.data) < log[r + 1].len THEN <<r + 1, Len(c.data) + 2>>
                                 ELSE <<r + 2, 0>>
  <1>1. /\ trigger = FALSE /\ r < sentCount /\ p = log[r + 1].port
        /\ deferred = None /\ flags = {} /\ rx \in [Ports -> RxCalls]
      BY ListenerIs
  <1>2. /\ rx' \in [Ports -> RxCalls] /\ rx'[p] = c
        /\ \A q \in Ports \ {p} : rx'[q] = rx[q]
      BY <1>1
  <1>3. sentCount' = sentCount /\ sent' = sent
      BY SenderSame
  <1>4. Reading(p)'
      BY <1>2 DEF Reading
  <1>5. \A q \in Ports \ {p} : rx'[q].pc \in {"idle", "wait"}
      BY <1>1, <1>2 DEF LinkInv, RxRight
  <1>6. \A q \in Ports : rx'[q].pc \in {"wait", "len"} => rx'[q].data = <<>>
      BY <1>2 DEF LinkInv, RxRight
  <1>7. RxCounts(rx[p], log[r + 1])'
      BY <1>2 DEF RxCounts
  <1>8. RxRight(log, r)'
      BY <1>1, <1>3, <1>4, <1>5, <1>6, <1>7 DEF RxRight
  <1>9. RxPlace(log, r)' = IF Len(c.data) < log[r + 1].len THEN <<r + 1, Len(c.data) + 2>>
                           ELSE <<r + 2, 0>>
      BY <1>1, <1>2, <1>4 DEF RxPlace
  <1>10. ReceivedRight(r)'
      BY <1>3 DEF LinkInv, ReceivedRight
  <1>11. LinkType'
      BY <1>2, SenderSame DEF LinkInv, LinkType
  <1> QED
      BY <1>8, <1>9, <1>10, <1>11, SenderSame

\* Both: the length word of the message.
LEMMA RxLengthInv ==
    ASSUME NEW log, NEW r, LinkInv(log, r), NEW p \in Ports, RxLength(p)
    PROVE  LinkInv(log, r)'
  <1> DEFINE m == log[r + 1]
  <1>1. /\ rx[p].pc = "len" /\ channel # <<>> /\ channel' = Tail(channel)
        /\ UNCHANGED <<trigger, deferred, flags, received>> /\ UNCHANGED txVars
      BY DEF RxLength
  <1>2. /\ trigger = FALSE /\ p = m.port /\ m.len \in Nat \ {0} /\ m \in Messages
        /\ rx[p] \in RxCalls /\ rx \in [Ports -> RxCalls]
        /\ rx[p].data = <<>> /\ rx_len = 0
      BY <1>1, ListenerIs
  <1>3. RxPlace(log, r) = <<r + 1, 1>>
      BY <1>1, <1>2 DEF RxPlace, Reading
  <1>4. Head(channel) = TokenAt(m, 1)
      BY <1>1, <1>3, ChannelHead
  <1>5. Head(channel).value = m.len
      BY <1>4 DEF TokenAt, LenToken
  <1>6. rx[p].api \in {"whole", "pieces"}
      BY <1>2 DEF RxCalls, Apis
  <1>7. PICK c \in RxCalls :
          /\ rx' = [rx EXCEPT ![p] = c] /\ c.data = <<>>
          /\ \/ c.api = "whole" /\ c.pc = "bytes" /\ c.left = m.len /\ rx_len' = 0
             \/ c.api = "pieces" /\ c.pc = "caller" /\ rx_len' = m.len
    <2>1. CASE rx[p].api = "whole"
      <3> DEFINE c == [rx[p] EXCEPT !.pc = "bytes", !.left = m.len]
      <3>1. c \in RxCalls /\ c.data = <<>> /\ c.api = "whole" /\ c.pc = "bytes" /\ c.left = m.len
          BY <1>2, <2>1 DEF RxCalls
      <3>2. rx' = [rx EXCEPT ![p] = c] /\ rx_len' = 0
          BY <1>2, <1>5, <2>1 DEF RxLength
      <3> HIDE DEF c
      <3> QED
          BY <3>1, <3>2
    <2>2. CASE rx[p].api = "pieces"
      <3> DEFINE c == [rx[p] EXCEPT !.pc = "caller"]
      <3>1. c \in RxCalls /\ c.data = <<>> /\ c.api = "pieces" /\ c.pc = "caller"
          BY <1>2, <2>2 DEF RxCalls
      <3>2. rx' = [rx EXCEPT ![p] = c] /\ rx_len' = m.len
          BY <1>2, <1>5, <2>2 DEF RxLength
      <3> HIDE DEF c
      <3> QED
          BY <3>1, <3>2
    <2> QED
        BY <1>6, <2>1, <2>2
  <1>8. Len(c.data) = 0 /\ rx_len' \in Nat
      BY <1>2, <1>7
  <1>9. RxCounts(c, m)'
      BY <1>2, <1>7, <1>8 DEF RxCounts
  <1>10. channel' \in Seq(Tokens)
      BY <1>1, SeqTaken DEF LinkInv, LinkType
  <1>11. /\ LinkType' /\ LogRight(log, r)' /\ ReceivedRight(r)' /\ TxRight(log)' /\ RxRight(log, r)'
         /\ RxPlace(log, r)' = IF Len(c.data) < m.len THEN <<r + 1, Len(c.data) + 2>>
                               ELSE <<r + 2, 0>>
      BY <1>1, <1>7, <1>8, <1>9, <1>10, ListenerMoves
  <1>12. RxPlace(log, r)' = NextPlace(log, RxPlace(log, r))
    <2>1. RxPlace(log, r)' = <<r + 1, 2>>
        BY <1>2, <1>8, <1>11
    <2>2. NextPlace(log, <<r + 1, 1>>) = <<r + 1, 2>>
        BY <1>2 DEF NextPlace
    <2> QED
        BY <1>3, <2>1, <2>2
  <1>13. ChannelRight(log, r)'
      BY <1>1, <1>12, ChannelShrinks, SenderSame
  <1> QED
      BY <1>11, <1>13 DEF LinkInv

\* rtos_intertile_rx_data is called for a piece of the message.
LEMMA RxDataInv ==
    ASSUME NEW log, NEW r, LinkInv(log, r), NEW p \in Ports, RxData(p)
    PROVE  LinkInv(log, r)'
  <1> DEFINE m == log[r + 1]
  <1>1. /\ rx[p].pc = "caller" /\ rx_len' = rx_len /\ channel' = channel
        /\ UNCHANGED <<trigger, deferred, flags, received>> /\ UNCHANGED txVars
      BY DEF RxData
  <1>2. /\ trigger = FALSE /\ p = m.port /\ m.len \in Nat \ {0}
        /\ rx[p] \in RxCalls /\ rx \in [Ports -> RxCalls] /\ rx_len \in Nat
        /\ RxCounts(rx[p], m) /\ Len(rx[p].data) \in Nat
      BY <1>1, ListenerIs
  <1>3. /\ rx[p].api = "pieces" /\ rx_len > 0 /\ Len(rx[p].data) + rx_len = m.len
        /\ \A i \in 1..Len(rx[p].data) : rx[p].data[i] = DataToken(m, i)
      BY <1>1, <1>2 DEF RxCounts, RxCalls, Apis
  <1>4. PICK n \in 1..(rx_len + 1) :
          rx' = [rx EXCEPT ![p] = [@ EXCEPT !.pc = "bytes", !.piece = Smaller(n, rx_len),
                                            !.left = Smaller(n, rx_len)]]
      BY DEF RxData
  <1>5. Smaller(n, rx_len) \in 1..rx_len /\ Smaller(n, rx_len) \in Nat
      BY <1>2, <1>3 DEF Smaller
  <1>6. PICK c \in RxCalls :
          /\ rx' = [rx EXCEPT ![p] = c]
          /\ c.pc = "bytes" /\ c.api = "pieces" /\ c.data = rx[p].data
          /\ c.piece \in 1..rx_len /\ c.left = c.piece
    <2> DEFINE c == [rx[p] EXCEPT !.pc = "bytes", !.piece = Smaller(n, rx_len),
                                  !.left = Smaller(n, rx_len)]
    <2>1. c \in RxCalls
        BY <1>2, <1>5 DEF RxCalls
    <2>2. /\ c.pc = "bytes" /\ c.api = rx[p].api /\ c.data = rx[p].data
          /\ c.piece = Smaller(n, rx_len) /\ c.left = Smaller(n, rx_len)
        BY <1>2 DEF RxCalls
    <2>3. rx' = [rx EXCEPT ![p] = c]
        BY <1>4
    <2> HIDE DEF c
    <2> QED
        BY <1>3, <1>5, <2>1, <2>2, <2>3
  <1>7. RxCounts(c, m)'
    <2>1. Len(c.data) = Len(rx[p].data)
        BY <1>6
    <2>2. Len(c.data) <= m.len /\ Len(c.data) + c.left + (rx_len - c.piece) = m.len
        BY <1>2, <1>3, <1>6, <2>1
    <2>3. \A i \in 1..Len(c.data) : c.data[i] = DataToken(m, i)
        BY <1>3, <1>6
    <2> QED
        BY <1>1, <1>6, <2>2, <2>3 DEF RxCounts
  <1>8. channel' \in Seq(Tokens) /\ rx_len' \in Nat
      BY <1>1, <1>2 DEF LinkInv, LinkType
  <1>9. /\ LinkType' /\ LogRight(log, r)' /\ ReceivedRight(r)' /\ TxRight(log)' /\ RxRight(log, r)'
        /\ RxPlace(log, r)' = IF Len(c.data) < m.len THEN <<r + 1, Len(c.data) + 2>>
                              ELSE <<r + 2, 0>>
      BY <1>1, <1>6, <1>7, <1>8, ListenerMoves
  <1>10. RxPlace(log, r)' = RxPlace(log, r)
      BY <1>1, <1>2, <1>6, <1>9 DEF RxPlace, Reading
  <1>11. ChannelRight(log, r)
      BY DEF LinkInv
  <1>12. ChannelRight(log, r)'
      BY <1>1, <1>10, <1>11, ChannelSame, SenderSame
  <1> QED
      BY <1>9, <1>12 DEF LinkInv

\* A data byte of the message.
LEMMA RxByteInv ==
    ASSUME NEW log, NEW r, LinkInv(log, r), NEW p \in Ports, RxByte(p)
    PROVE  LinkInv(log, r)'
  <1> DEFINE m == log[r + 1]
             k == Len(rx[p].data)
  <1>1. /\ rx[p].pc = "bytes" /\ rx[p].left > 0 /\ rx_len' = rx_len
        /\ channel # <<>> /\ channel' = Tail(channel)
        /\ UNCHANGED <<trigger, deferred, flags, received>> /\ UNCHANGED txVars
      BY DEF RxByte
  <1>2. /\ trigger = FALSE /\ p = m.port /\ m.len \in Nat \ {0} /\ m \in Messages
        /\ rx[p] \in RxCalls /\ rx \in [Ports -> RxCalls] /\ rx_len \in Nat
        /\ rx[p].data \in Seq(Tokens) /\ RxCounts(rx[p], m) /\ k \in Nat
      BY <1>1, ListenerIs
  <1>3. rx[p].left \in Nat \ {0} /\ rx[p].api \in Apis /\ rx[p].piece \in Nat
      BY <1>1, <1>2 DEF RxCalls
  <1>0. k \in Int /\ rx[p].left \in Int /\ rx[p].piece \in Int /\ rx_len \in Int /\ m.len \in Int
      BY <1>2, <1>3
  <1>4. k < m.len
    <2>1. CASE rx[p].api = "whole"
      <3>1. k + rx[p].left = m.len
          BY <1>1, <1>2, <2>1 DEF RxCounts
      <3> QED
          BY <1>2, <1>3, <3>1
    <2>2. CASE rx[p].api = "pieces"
      <3>1. rx[p].piece \in 1..rx_len /\ k + rx[p].left + (rx_len - rx[p].piece) = m.len
          BY <1>1, <1>2, <2>2 DEF RxCounts
      <3> QED
          BY SMTT(60), <1>2, <1>3, <3>1
    <2> QED
        BY <1>3, <2>1, <2>2 DEF Apis
  <1>5. RxPlace(log, r) = <<r + 1, k + 2>>
      BY <1>1, <1>2, <1>4 DEF RxPlace, Reading
  <1>6. Head(channel) = DataToken(m, k + 1) /\ Head(channel) \in Tokens
    <2>1. Head(channel) = TokenAt(m, k + 2) /\ Head(channel) \in Tokens
        BY <1>1, <1>5, ChannelHead
    <2>2. k + 2 \in Nat /\ k + 2 >= 2 /\ (k + 2) - 1 = k + 1
        BY <1>2
    <2>3. TokenAt(m, k + 2) = DataToken(m, (k + 2) - 1)
        BY <1>2, <2>2, KindTellsPlace
    <2> QED
        BY <2>1, <2>2, <2>3
  <1>7. PICK d \in Seq(Tokens) :
          d = Append(rx[p].data, Head(channel))
      BY <1>2, <1>6, SeqAppended
  <1>8. /\ Len(d) = k + 1 /\ \A i \in 1..k : d[i] = rx[p].data[i]
        /\ d[k + 1] = Head(channel)
    <2>1. PICK q \in Seq(Tokens), e \in Tokens :
            q = rx[p].data /\ e = Head(channel)
        BY <1>2, <1>6
    <2>2. /\ Len(Append(q, e)) = Len(q) + 1
          /\ \A i \in 1..Len(q) : Append(q, e)[i] = q[i]
          /\ Append(q, e)[Len(q) + 1] = e
        BY SeqAppended
    <2> QED
        BY <1>7, <2>1, <2>2
  <1>9. PICK c \in RxCalls :
          /\ rx' = [rx EXCEPT ![p] = c]
          /\ c.pc = "bytes" /\ c.api = rx[p].api /\ c.data = d
          /\ c.piece = rx[p].piece /\ c.left = rx[p].left - 1
    <2> DEFINE c == [rx[p] EXCEPT !.left = rx[p].left - 1, !.data = d]
    <2>1. c \in RxCalls
      <3>1. rx[p].left - 1 \in Nat
          BY <1>3
      <3> QED
          BY <1>2, <1>7, <3>1 DEF RxCalls
    <2>2. /\ c.pc = "bytes" /\ c.api = rx[p].api /\ c.data = d
          /\ c.piece = rx[p].piece /\ c.left = rx[p].left - 1
        BY <1>1, <1>2 DEF RxCalls
    <2>3. rx' = [rx EXCEPT ![p] = c]
        BY <1>7 DEF RxByte
    <2> HIDE DEF c
    <2> QED
        BY <2>1, <2>2, <2>3
  <1>10. RxCounts(c, m)'
    <2>1. \A i \in 1..Len(c.data) : c.data[i] = DataToken(m, i)
      <3>1. \A i \in 1..k : rx[p].data[i] = DataToken(m, i)
          BY <1>2 DEF RxCounts
      <3>2. \A i \in 1..(k + 1) : i \in 1..k \/ i = k + 1
          BY SMTT(60), <1>2
      <3> QED
          BY <1>6, <1>8, <1>9, <3>1, <3>2
    <2>2. Len(c.data) <= m.len
        BY <1>2, <1>4, <1>8, <1>9
    <2>3. CASE rx[p].api = "whole"
      <3>1. rx_len = 0 /\ k + rx[p].left = m.len
          BY <1>1, <1>2, <2>3 DEF RxCounts
      <3>2. Len(c.data) = k + 1 /\ c.left = rx[p].left - 1
          BY <1>8, <1>9
      <3>3. Len(c.data) + c.left = m.len
          BY SMTT(60), <1>0, <3>1, <3>2
      <3> QED
          BY <1>1, <1>9, <2>1, <2>2, <2>3, <3>1, <3>3 DEF RxCounts
    <2>4. CASE rx[p].api = "pieces"
      <3>1. rx[p].piece \in 1..rx_len /\ k + rx[p].left + (rx_len - rx[p].piece) = m.len
          BY <1>1, <1>2, <2>4 DEF RxCounts
      <3>2. Len(c.data) = k + 1 /\ c.left = rx[p].left - 1 /\ c.piece = rx[p].piece
          BY <1>8, <1>9
      <3>3. PICK e \in Int : e = rx_len - rx[p].piece
          BY <1>0
      <3>4. (k + 1) + (rx[p].left - 1) + e = m.len
        <4>1. k + rx[p].left + e = m.len
            BY <3>1, <3>3
        <4> QED
            BY SMTT(60), <1>0, <4>1
      <3>5. Len(c.data) + c.left + (rx_len - c.piece) = m.len
          BY <3>2, <3>3, <3>4
      <3> QED
          BY <1>1, <1>9, <2>1, <2>2, <2>4, <3>1, <3>5 DEF RxCounts
    <2> QED
        BY <1>3, <2>3, <2>4 DEF Apis
  <1>11. channel' \in Seq(Tokens) /\ rx_len' \in Nat
      BY <1>1, <1>2, SeqTaken DEF LinkInv, LinkType
  <1>12. /\ LinkType' /\ LogRight(log, r)' /\ ReceivedRight(r)' /\ TxRight(log)' /\ RxRight(log, r)'
         /\ RxPlace(log, r)' = IF Len(c.data) < m.len THEN <<r + 1, Len(c.data) + 2>>
                               ELSE <<r + 2, 0>>
      BY <1>1, <1>9, <1>10, <1>11, ListenerMoves
  <1>13. RxPlace(log, r)' = NextPlace(log, RxPlace(log, r))
    <2>1. RxPlace(log, r)' = IF k + 1 < m.len THEN <<r + 1, k + 3>> ELSE <<r + 2, 0>>
        BY <1>2, <1>8, <1>9, <1>12
    <2>2. NextPlace(log, <<r + 1, k + 2>>) =
             IF k + 2 <= m.len THEN <<r + 1, k + 3>> ELSE <<r + 2, 0>>
      <3>1. r \in Nat
          BY <1>2, MessageIs
      <3> QED
          BY <1>2, <3>1 DEF NextPlace
    <2>3. k + 1 < m.len <=> k + 2 <= m.len
        BY SMTT(60), <1>2
    <2> QED
        BY <1>5, <2>1, <2>2, <2>3
  <1>14. ChannelRight(log, r)'
      BY <1>1, <1>13, ChannelShrinks, SenderSame
  <1> QED
      BY <1>12, <1>14 DEF LinkInv

\* The messages to a port are received in the order in which they were sent: the
\* one that is being read is the first that has not been received.
LEMMA MessageIsNext ==
    ASSUME NEW log, NEW r, LinkInv(log, r), NEW p \in Ports, rx[p].pc \in {"len", "caller", "bytes"}
    PROVE  /\ Len(received[p]) \in Nat /\ Len(sent[p]) \in Nat /\ Len(received[p]) < Len(sent[p])
           /\ sent[p][Len(received[p]) + 1] = log[r + 1]
  <1> DEFINE m == log[r + 1]
             n == Len(received[p])
  <1>1. trigger = FALSE /\ p = m.port /\ m.id = r + 1
      BY ListenerIs
  <1>2. r \in Nat /\ r + 1 \in 1..sentCount
      BY <1>1, MessageIs
  <1>3. n \in Nat /\ Len(sent[p]) \in Nat
      BY LenProperties DEF LinkInv, LinkType
  <1>4. PICK j \in 1..Len(sent[p]) : sent[p][j] = m
      BY <1>1, <1>2 DEF LinkInv, LogRight
  <1>5. \A i \in 1..Len(sent[p]) : i <= n <=> sent[p][i].id <= r
      BY DEF LinkInv, ReceivedRight
  <1>6. ~ (j <= n)
      BY <1>1, <1>2, <1>4, <1>5
  <1>7. n + 1 \in 1..Len(sent[p]) /\ ~ (n + 1 <= n)
      BY <1>3, <1>6
  <1>8. ~ (sent[p][n + 1].id <= r)
      BY <1>5, <1>7
  <1>9. n + 1 \notin 1..(j - 1)
    <2>1. SUFFICES ASSUME n + 1 \in 1..(j - 1) PROVE FALSE
        OBVIOUS
    <2>2. sent[p][n + 1].id < sent[p][j].id
        BY <2>1 DEF LinkInv, LogRight
    <2>3. sent[p][n + 1].id \in Int
        BY <1>7 DEF LinkInv, LogRight
    <2> QED
        BY <1>1, <1>2, <1>4, <1>8, <2>2, <2>3
  <1>10. j = n + 1
      BY <1>3, <1>6, <1>9
  <1> QED
      BY <1>3, <1>4, <1>7, <1>10

\* The message is complete: the receiving tile waits for the next one.
LEMMA Completed ==
    ASSUME NEW log, NEW r, LinkInv(log, r), NEW p \in Ports, rx[p].pc = "bytes",
           Len(rx[p].data) = log[r + 1].len, Complete(p), rx_len' = 0,
           UNCHANGED <<txVars, channel, deferred, flags>>
    PROVE  Inv'
  <1> DEFINE m == log[r + 1]
             n == Len(received[p])
  <1>1. /\ trigger' = TRUE /\ received' = [received EXCEPT ![p] = Append(@, rx[p].data)]
        /\ rx' = [rx EXCEPT ![p] = NoRx] /\ UNCHANGED txVars
        /\ channel' = channel /\ deferred' = deferred /\ flags' = flags
      BY DEF Complete
  <1>2. /\ trigger = FALSE /\ r < sentCount /\ p = m.port /\ deferred = None /\ flags = {}
        /\ m.len \in Nat \ {0} /\ m.id = r + 1
        /\ rx \in [Ports -> RxCalls] /\ rx[p].data \in Seq(Tokens) /\ RxCounts(rx[p], m)
      BY ListenerIs
  <1>3. r \in Nat /\ r + 1 \in 0..sentCount
      BY <1>2, MessageIs
  <1>4. /\ n \in Nat /\ Len(sent[p]) \in Nat /\ n < Len(sent[p]) /\ sent[p][n + 1] = m
      BY MessageIsNext
  <1>5. PICK r2 \in Nat : r2 = r + 1
      BY <1>3
  <1>6. sentCount' = sentCount /\ sent' = sent
      BY <1>1, SenderSame
  <1>7. LogRight(log, r2)'
    <2>1. LogRight(log, r)'
        BY <1>1, SenderSame
    <2>2. r2 \in 0..sentCount'
        BY <1>3, <1>5, <1>6
    <2> QED
        BY <2>1, <2>2 DEF LogRight
  <1>8. /\ rx' \in [Ports -> RxCalls] /\ rx'[p] = NoRx
        /\ \A q \in Ports \ {p} : rx'[q] = rx[q]
    <2>1. NoRx \in RxCalls
        BY EmptySeq DEF NoRx, RxCalls, Apis
    <2> QED
        BY <1>1, <1>2, <2>1
  <1>9. RxRight(log, r2)'
    <2>1. \A q \in Ports \ {p} : rx[q].pc \in {"idle", "wait"} /\ (rx[q].pc = "wait" => rx[q].data = <<>>)
        BY <1>2 DEF LinkInv, RxRight
    <2>2. \A q \in Ports : rx'[q].pc \in {"idle", "wait"} /\ (rx'[q].pc = "wait" => rx'[q].data = <<>>)
        BY <1>8, <2>1 DEF NoRx
    <2> QED
        BY <1>1, <1>2, <2>2 DEF RxRight
  <1>10. /\ received' \in [Ports -> Seq(Seq(Tokens))]
         /\ received'[p] = Append(received[p], rx[p].data)
         /\ \A q \in Ports \ {p} : received'[q] = received[q]
    <2>1. received \in [Ports -> Seq(Seq(Tokens))]
        BY DEF LinkInv, LinkType
    <2>2. received[p] \in Seq(Seq(Tokens))
        BY <2>1
    <2>3. Append(received[p], rx[p].data) \in Seq(Seq(Tokens))
        BY <1>2, <2>2, SeqAppended
    <2> QED
        BY <1>1, <2>1, <2>3
  <1>11. /\ Len(received'[p]) = n + 1 /\ received'[p][n + 1] = rx[p].data
         /\ \A i \in 1..n : received'[p][i] = received[p][i]
    <2>1. received[p] \in Seq(Seq(Tokens))
        BY DEF LinkInv, LinkType
    <2> QED
        BY <1>2, <1>10, <2>1, SeqAppended
  <1>12. rx[p].data = [i \in 1..m.len |-> DataToken(m, i)]
    <2>1. rx[p].data = [i \in 1..m.len |-> rx[p].data[i]]
      <3>1. rx[p].data \in [1..m.len -> Tokens]
          BY <1>2, LenProperties
      <3> QED
          BY <3>1
    <2>2. \A i \in 1..m.len : rx[p].data[i] = DataToken(m, i)
        BY <1>2 DEF RxCounts
    <2> QED
        BY <2>1, <2>2
  <1>13. ReceivedRight(r2)'
    <2>1. SUFFICES ASSUME NEW q \in Ports
          PROVE  /\ Len(received'[q]) <= Len(sent[q])
                 /\ \A j \in 1..Len(sent[q]) : j <= Len(received'[q]) <=> sent[q][j].id <= r + 1
                 /\ \A j \in 1..Len(received'[q]) :
                       received'[q][j] = [i \in 1..sent[q][j].len |-> DataToken(sent[q][j], i)]
        BY <1>5, <1>6 DEF ReceivedRight
    <2>2. /\ \A j \in 1..Len(sent[q]) : sent[q][j].id \in Nat
          /\ \A j \in 1..Len(sent[q]) : j <= Len(received[q]) <=> sent[q][j].id <= r
          /\ \A j \in 1..Len(received[q]) :
                received[q][j] = [i \in 1..sent[q][j].len |-> DataToken(sent[q][j], i)]
        BY DEF LinkInv, LogRight, ReceivedRight
    <2>3. CASE q # p
      <3>1. received'[q] = received[q] /\ Len(received[q]) <= Len(sent[q])
          BY <1>10, <2>3 DEF LinkInv, ReceivedRight
      <3>2. \A j \in 1..Len(sent[q]) : sent[q][j].id # r + 1
          BY <1>2, <2>3 DEF LinkInv, LogRight
      <3>3. \A j \in 1..Len(sent[q]) : sent[q][j].id <= r <=> sent[q][j].id <= r + 1
          BY <1>3, <2>2, <3>2
      <3> QED
          BY <2>2, <3>1, <3>3
    <2>4. CASE q = p
      <3>1. ASSUME NEW j \in 1..Len(sent[p])
            PROVE  j <= n + 1 <=> sent[p][j].id <= r + 1
        <4>1. CASE j <= n
            BY <1>3, <1>4, <2>2, <2>4, <4>1
        <4>2. CASE j = n + 1
            BY <1>2, <1>3, <1>4, <4>2
        <4>3. CASE j > n + 1
          <5>1. n + 1 \in 1..(j - 1)
              BY <1>4, <4>3
          <5>2. sent[p][n + 1].id < sent[p][j].id
              BY <5>1 DEF LinkInv, LogRight
          <5>3. r + 1 < sent[p][j].id
              BY <1>2, <1>4, <5>2
          <5> QED
              BY <1>3, <1>4, <2>2, <2>4, <4>3, <5>3
        <4> QED
            BY <1>4, <4>1, <4>2, <4>3
      <3>2. ASSUME NEW j \in 1..(n + 1)
            PROVE  received'[p][j] = [i \in 1..sent[p][j].len |-> DataToken(sent[p][j], i)]
        <4>1. CASE j = n + 1
            BY <1>4, <1>11, <1>12, <4>1
        <4>2. CASE j # n + 1
          <5>1. j \in 1..n
              BY <1>4, <4>2
          <5> QED
              BY <1>11, <2>2, <2>4, <5>1
        <4> QED
            BY <4>1, <4>2
      <3>3. n + 1 <= Len(sent[p])
          BY <1>4
      <3> QED
          BY <1>11, <2>4, <3>1, <3>2, <3>3
    <2> QED
        BY <2>3, <2>4
  <1>14. RxPlace(log, r2)' = RxPlace(log, r)
    <2>1. RxPlace(log, r) = <<r + 2, 0>>
        BY <1>2 DEF RxPlace, Reading
    <2>2. RxPlace(log, r2)' = <<r2 + 1, 0>>
        BY <1>1 DEF RxPlace
    <2> QED
        BY <1>3, <1>5, <2>1, <2>2
  <1>15. ChannelRight(log, r2)'
    <2>1. ChannelRight(log, r)
        BY DEF LinkInv
    <2> QED
        BY <1>1, <1>14, <2>1, ChannelSame, SenderSame
  <1>16. LinkType'
      BY <1>1, <1>8, <1>10, SenderSame DEF LinkInv, LinkType
  <1>17. TxRight(log)'
      BY <1>1, SenderSame
  <1>18. LinkInv(log, r2)'
      BY <1>7, <1>9, <1>13, <1>15, <1>16, <1>17 DEF LinkInv
  <1> QED
      BY <1>18 DEF Inv

\* A call is done with its bytes: the message is complete, or another piece of it
\* follows.
LEMMA RxDoneInv ==
    ASSUME NEW log, NEW r, LinkInv(log, r), NEW p \in Ports, RxDone(p) \/ RxDataDone(p)
    PROVE  Inv'
  <1> DEFINE m == log[r + 1]
  <1>1. /\ rx[p].pc = "bytes" /\ rx[p].left = 0 /\ channel' = channel
        /\ deferred' = deferred /\ flags' = flags /\ UNCHANGED txVars
      BY DEF RxDone, RxDataDone
  <1>2. /\ trigger = FALSE /\ p = m.port /\ m.len \in Nat \ {0} /\ rx_len \in Nat
        /\ rx[p] \in RxCalls /\ rx \in [Ports -> RxCalls] /\ rx[p].data \in Seq(Tokens)
        /\ RxCounts(rx[p], m) /\ Len(rx[p].data) \in Nat
      BY ZenonT(60), <1>1, ListenerIs
  <1>3. CASE RxDone(p)
    <2>1. rx[p].api = "whole" /\ Complete(p) /\ rx_len' = rx_len
        BY <1>3 DEF RxDone
    <2>2. rx_len = 0 /\ Len(rx[p].data) + rx[p].left = m.len
        BY <1>1, <1>2, <2>1 DEF RxCounts
    <2>3. Len(rx[p].data) = m.len
        BY <1>1, <1>2, <2>2
    <2> QED
        BY <1>1, <2>1, <2>2, <2>3, Completed
  <1>4. CASE RxDataDone(p)
    <2>1. /\ rx[p].api = "pieces" /\ rx_len' = rx_len - rx[p].piece
          /\ rx_len' = 0 => Complete(p)
          /\ rx_len' # 0 => /\ rx' = [rx EXCEPT ![p].pc = "caller"]
                            /\ UNCHANGED <<trigger, received>>
        BY <1>4 DEF RxDataDone
    <2>2. /\ rx[p].piece \in 1..rx_len
          /\ Len(rx[p].data) + rx[p].left + (rx_len - rx[p].piece) = m.len
        BY <1>1, <1>2, <2>1 DEF RxCounts
    <2>3. rx_len' \in Nat /\ Len(rx[p].data) + rx_len' = m.len
      <3>1. rx[p].piece \in Int /\ rx[p].piece <= rx_len
          BY <1>2, <2>2
      <3>2. Len(rx[p].data) + 0 + rx_len' = m.len
          BY <1>1, <2>1, <2>2
      <3> QED
          BY <1>2, <2>1, <3>1, <3>2
    <2>4. CASE rx_len' = 0
      <3>1. Len(rx[p].data) = m.len
          BY <1>2, <2>3, <2>4
      <3> QED
          BY <1>1, <2>1, <2>4, <3>1, Completed
    <2>5. CASE rx_len' # 0
      <3>1. PICK c \in RxCalls :
              /\ rx' = [rx EXCEPT ![p] = c]
              /\ c.pc = "caller" /\ c.api = "pieces" /\ c.data = rx[p].data
        <4> DEFINE c == [rx[p] EXCEPT !.pc = "caller"]
        <4>1. c \in RxCalls /\ c.pc = "caller" /\ c.api = "pieces" /\ c.data = rx[p].data
            BY <1>2, <2>1 DEF RxCalls
        <4>2. rx' = [rx EXCEPT ![p] = c]
            BY <2>1, <2>5
        <4> HIDE DEF c
        <4> QED
            BY <4>1, <4>2
      <3>2. Len(c.data) = Len(rx[p].data) /\ Len(c.data) <= m.len
          BY <1>2, <2>3, <3>1
      <3>3. \A i \in 1..Len(c.data) : c.data[i] = DataToken(m, i)
          BY <1>2, <3>1 DEF RxCounts
      <3>4. RxCounts(c, m)'
          BY <2>3, <2>5, <3>1, <3>2, <3>3 DEF RxCounts
      <3>5. channel' \in Seq(Tokens)
          BY <1>1 DEF LinkInv, LinkType
      <3>6. /\ LinkType' /\ LogRight(log, r)' /\ ReceivedRight(r)' /\ TxRight(log)' /\ RxRight(log, r)'
            /\ RxPlace(log, r)' = IF Len(c.data) < m.len THEN <<r + 1, Len(c.data) + 2>>
                                  ELSE <<r + 2, 0>>
          BY <1>1, <2>1, <2>3, <2>5, <3>1, <3>4, <3>5, ListenerMoves
      <3>7. RxPlace(log, r)' = RxPlace(log, r)
          BY <1>1, <1>2, <3>1, <3>6 DEF RxPlace, Reading
      <3>8. ChannelRight(log, r)
          BY DEF LinkInv
      <3>9. ChannelRight(log, r)'
          BY <1>1, <3>7, <3>8, ChannelSame, SenderSame
      <3>10. LinkInv(log, r)'
          BY <3>6, <3>9 DEF LinkInv
      <3> QED
          BY <3>10 DEF Inv
    <2> QED
        BY <2>4, <2>5
  <1> QED
      BY <1>3, <1>4

-----------------------------------------------------------------------------
(***************************************************************************)
(* The link.                                                               *)
(***************************************************************************)

\* rtos_intertile_init and rtos_intertile_start: nothing has been sent.
LEMMA LinkStarts ==
    Init => Inv
  <1> SUFFICES ASSUME Init PROVE Inv
      OBVIOUS
  <1> USE IntertileAssumption
  <1>1. PICK log \in [1..0 -> Messages] : TRUE
    <2>1. [k \in 1..0 |-> NoTx] \in [1..0 -> Messages]
        OBVIOUS
    <2> QED
        BY <2>1
  <1>2. NoTx \in TxCalls /\ NoTx.pc = "idle"
      BY DEF NoTx, TxCalls, Apis
  <1>3. NoRx \in RxCalls /\ NoRx.pc = "idle"
      BY EmptySeq DEF NoRx, RxCalls, Apis
  <1>4. LinkType
      BY <1>2, <1>3, EmptySeq DEF Init, LinkType
  <1>5. LogRight(log, 0)
      BY EmptySeq DEF Init, LogRight
  <1>6. ReceivedRight(0)
      BY EmptySeq DEF Init, ReceivedRight
  <1>7. TxRight(log)
      BY <1>2 DEF Init, TxRight
  <1>8. RxRight(log, 0)
      BY <1>3 DEF Init, RxRight
  <1>9. ChannelRight(log, 0)
      BY EmptySeq DEF Init, ChannelRight, RxPlace, TxPlace
  <1>10. LinkInv(log, 0)
      BY <1>4, <1>5, <1>6, <1>7, <1>8, <1>9 DEF LinkInv
  <1> QED
      BY <1>10 DEF Inv

\* What no step changes is left as it is.
LEMMA LinkStutters ==
    ASSUME Inv, UNCHANGED vars
    PROVE  Inv'
  <1>1. PICK log, r : LinkInv(log, r)
      BY DEF Inv
  <1>2. UNCHANGED <<sentCount, sent, rxVars>> /\ UNCHANGED txVars /\ channel' = channel
      BY DEF vars, txVars
  <1>3. ChannelRight(log, r)
      BY <1>1 DEF LinkInv
  <1>4. ChannelRight(log, r)'
      BY <1>1, <1>2, <1>3, ChannelSame, ReceiverSame, SenderSame
  <1>5. LinkType'
      BY <1>1, <1>2, ReceiverSame, SenderSame DEF LinkInv, LinkType
  <1>6. LinkInv(log, r)'
      BY <1>1, <1>2, <1>4, <1>5, ReceiverSame, SenderSame DEF LinkInv
  <1> QED
      BY <1>6 DEF Inv

\* Every step of the link keeps the invariant, if no sender ends with an empty
\* rtos_intertile_tx_data.
LEMMA LinkStep ==
    ASSUME EmptyTails = {}, Inv, [Next]_vars
    PROVE  Inv'
  <1>1. PICK log, r : LinkInv(log, r)
      BY DEF Inv
  <1>2. ASSUME NEW s \in Senders, TxLock(s) PROVE Inv'
      BY <1>2, TxLockInv
  <1>3. ASSUME NEW s \in Senders, TxCode(s) PROVE Inv'
    <2>1. LinkInv(log, r)'
        BY <1>1, <1>3, TxOutputInv, TxDataInv, TxDoneInv DEF TxCode
    <2> QED
        BY <2>1 DEF Inv
  <1>4. CASE Isr \/ SetBits \/ \E p \in Ports : RxCall(p) \/ RxTimeout(p)
    <2>1. LinkInv(log, r)'
        BY <1>1, <1>4, IsrInv, WaitingInv
    <2> QED
        BY <2>1 DEF Inv
  <1>5. ASSUME NEW p \in Ports, RxLength(p) \/ RxData(p) \/ RxByte(p) PROVE Inv'
    <2>1. LinkInv(log, r)'
        BY <1>1, <1>5, RxLengthInv, RxDataInv, RxByteInv
    <2> QED
        BY <2>1 DEF Inv
  <1>6. ASSUME NEW p \in Ports, RxDone(p) \/ RxDataDone(p) PROVE Inv'
      BY <1>1, <1>6, RxDoneInv
  <1>7. CASE UNCHANGED vars
      BY <1>7, LinkStutters
  <1> QED
      BY <1>2, <1>3, <1>4, <1>5, <1>6, <1>7 DEF Next, RxCode

\* Nothing in the channel is taken for what it is not.
LEMMA LinkFramed ==
    Inv => Framing
  <1> SUFFICES ASSUME Inv, channel # <<>>
      PROVE  /\ trigger => Head(channel).kind = "port"
             /\ \A p \in Ports :
                 /\ rx[p].pc = "len" =>
                     \E m \in Messages : m.port = p /\ Head(channel) = LenToken(m)
                 /\ rx[p].pc = "bytes" /\ rx[p].left > 0 =>
                     \E m \in Messages :
                         /\ m.port = p
                         /\ Head(channel) = DataToken(m, Len(rx[p].data) + 1)
      BY DEF Framing
  <1>1. PICK log, r : LinkInv(log, r)
      BY DEF Inv
  <1>2. ASSUME trigger PROVE Head(channel).kind = "port"
    <2>1. RxPlace(log, r) = <<r + 1, 0>>
        BY <1>2 DEF RxPlace
    <2>2. Head(channel) = TokenAt(log[r + 1], 0)
        BY <1>1, <2>1, ChannelHead
    <2> QED
        BY <2>2 DEF TokenAt, PortToken
  <1>3. ASSUME NEW p \in Ports, rx[p].pc = "len"
        PROVE  \E m \in Messages : m.port = p /\ Head(channel) = LenToken(m)
    <2>1. /\ trigger = FALSE /\ p = log[r + 1].port /\ log[r + 1] \in Messages
        BY <1>1, <1>3, ListenerIs
    <2>2. RxPlace(log, r) = <<r + 1, 1>>
        BY <1>3, <2>1 DEF RxPlace, Reading
    <2>3. Head(channel) = TokenAt(log[r + 1], 1)
        BY <1>1, <2>2, ChannelHead
    <2> QED
        BY <2>1, <2>3 DEF TokenAt
  <1>4. ASSUME NEW p \in Ports, rx[p].pc = "bytes", rx[p].left > 0
        PROVE  \E m \in Messages :
                   m.port = p /\ Head(channel) = DataToken(m, Len(rx[p].data) + 1)
    <2> DEFINE m == log[r + 1]
               k == Len(rx[p].data)
    <2>1. /\ trigger = FALSE /\ p = m.port /\ m \in Messages /\ m.len \in Nat \ {0} /\ k \in Nat
          /\ RxCounts(rx[p], m) /\ rx_len \in Nat /\ rx[p] \in RxCalls
        BY <1>1, <1>4, ListenerIs
    <2>2. /\ rx[p].left \in Int /\ rx[p].api \in {"whole", "pieces"} /\ rx[p].piece \in Int
        BY <2>1 DEF RxCalls, Apis
    <2>3. k < m.len
      <3>1. CASE rx[p].api = "whole"
        <4>1. k + rx[p].left = m.len
            BY <1>4, <2>1, <3>1 DEF RxCounts
        <4> QED
            BY <1>4, <2>1, <2>2, <4>1
      <3>2. CASE rx[p].api = "pieces"
        <4>1. rx[p].piece \in 1..rx_len /\ k + rx[p].left + (rx_len - rx[p].piece) = m.len
            BY <1>4, <2>1, <3>2 DEF RxCounts
        <4> QED
            BY SMTT(60), <1>4, <2>1, <2>2, <4>1
      <3> QED
          BY <2>2, <3>1, <3>2
    <2>4. RxPlace(log, r) = <<r + 1, k + 2>>
        BY <1>4, <2>1, <2>3 DEF RxPlace, Reading
    <2>5. Head(channel) = TokenAt(m, k + 2)
        BY <1>1, <2>4, ChannelHead
    <2>6. k + 2 \in Nat /\ k + 2 >= 2 /\ (k + 2) - 1 = k + 1
        BY <2>1
    <2>7. TokenAt(m, k + 2) = DataToken(m, (k + 2) - 1)
        BY <2>1, <2>6, KindTellsPlace
    <2> QED
        BY <2>1, <2>5, <2>6, <2>7
  <1> QED
      BY <1>2, <1>3, <1>4

\* What a listener has been given is what was sent to its port, whole and in order,
\* and no token is taken for another, with any number of senders and ports: the
\* framing of rtos_intertile_tx*, rtos_intertile_rx* and rtos_intertile_isr needs
\* nothing in the channel to tell its tokens apart, as long as no sender ends with
\* an empty rtos_intertile_tx_data.
THEOREM LinkDelivers ==
    ASSUME EmptyTails = {}
    PROVE  Spec => []PortsDeliver
  <1>1. Inv => PortsDeliver
    <2> SUFFICES ASSUME Inv PROVE PortsDeliver
        OBVIOUS
    <2>1. PICK log, r : LinkInv(log, r)
        BY DEF Inv
    <2>2. ReceivedRight(r)
        BY <2>1 DEF LinkInv
    <2> QED
        BY <2>2, LinkFramed DEF PortsDeliver, ReceivedRight
  <1>2. Inv /\ [Next]_vars => Inv'
      BY LinkStep
  <1> QED
      BY <1>1, <1>2, LinkStarts, PTL DEF Spec

\* The xasserts of rtos_intertile_tx_len and rtos_intertile_rx_len never fail: the
\* length in the context is zero whenever a length is about to be stored.
THEOREM LinkLengthsFree ==
    ASSUME EmptyTails = {}
    PROVE  Spec => []LengthsFree
  <1>1. Inv => LengthsFree
    <2> SUFFICES ASSUME Inv PROVE LengthsFree
        OBVIOUS
    <2>1. PICK log, r : LinkInv(log, r)
        BY DEF Inv
    <2>2. ASSUME NEW s \in Senders, tx[s].pc # "idle", tx[s].api = "whole" PROVE tx_len = 0
      <3>1. lock = s /\ lock # None
          BY <2>1, <2>2, IntertileAssumption DEF LinkInv, TxRight
      <3>2. TxCounts(tx[s])
          BY <2>1, <3>1 DEF LinkInv, TxRight
      <3> QED
          BY <2>2, <3>2 DEF TxCounts
    <2>3. lock = None => tx_len = 0
        BY <2>1 DEF LinkInv, TxRight
    <2>4. ASSUME NEW p \in Ports, rx[p].pc = "len" PROVE rx_len = 0
        BY <2>1, <2>4, ListenerIs
    <2> QED
        BY <2>2, <2>3, <2>4 DEF LengthsFree
  <1>2. Inv /\ [Next]_vars => Inv'
      BY LinkStep
  <1> QED
      BY <1>1, <1>2, LinkStarts, PTL DEF Spec

-----------------------------------------------------------------------------
(***************************************************************************)
(* The link is a FIFO for every port.                                      *)
(***************************************************************************)

\* What is sent later comes after what is in flight.
LEMMA InFlightGrows ==
    ASSUME NEW S, NEW q \in Seq(S), NEW e \in S, NEW n \in 0..Len(q)
    PROVE  /\ SubSeq(Append(q, e), n + 1, Len(Append(q, e))) = Append(SubSeq(q, n + 1, Len(q)), e)
           /\ SubSeq(Append(q, e), 1, n) = SubSeq(q, 1, n)
  <1>1. PICK l \in Nat : Len(q) = l
      BY LenProperties
  <1>2. PICK qe \in Seq(S) : qe = Append(q, e)
      BY SeqAppended
  <1>3. /\ Len(qe) = l + 1 /\ qe[l + 1] = e /\ \A i \in 1..l : qe[i] = q[i]
      BY <1>1, <1>2, SeqAppended
  <1>4. n \in Int /\ 0 <= n /\ n <= l
      BY <1>1
  <1>5. \A i \in 1..l : q[i] \in S
      BY <1>1, ElementOfSeq
  <1>6. \A i \in 1..(l + 1) : qe[i] \in S
      BY <1>3, ElementOfSeq
  <1>7. SubSeq(qe, 1, n) = SubSeq(q, 1, n)
    <2>1. /\ \A i \in 1..n : q[i] \in S /\ qe[i] \in S /\ qe[i] = q[i]
        BY <1>3, <1>4, <1>5, <1>6
    <2>2. /\ SubSeq(q, 1, n) \in Seq(S) /\ Len(SubSeq(q, 1, n)) = IF 1 <= n THEN n - 1 + 1 ELSE 0
          /\ \A i \in 1..(n - 1 + 1) : SubSeq(q, 1, n)[i] = q[1 + i - 1]
        BY <1>4, <2>1, SubSeqProperties
    <2>3. /\ SubSeq(qe, 1, n) \in Seq(S) /\ Len(SubSeq(qe, 1, n)) = IF 1 <= n THEN n - 1 + 1 ELSE 0
          /\ \A i \in 1..(n - 1 + 1) : SubSeq(qe, 1, n)[i] = qe[1 + i - 1]
        BY <1>4, <2>1, SubSeqProperties
    <2>4. n - 1 + 1 = n /\ \A i \in 1..n : 1 + i - 1 = i
        BY <1>4
    <2>5. Len(SubSeq(q, 1, n)) = n /\ \A i \in 1..n : SubSeq(q, 1, n)[i] = q[i]
        BY <1>4, <2>2, <2>4
    <2>6. Len(SubSeq(qe, 1, n)) = n /\ \A i \in 1..n : SubSeq(qe, 1, n)[i] = qe[i]
        BY <1>4, <2>3, <2>4
    <2> QED
        BY <2>1, <2>2, <2>3, <2>5, <2>6, SeqEqual
  <1>8. SubSeq(qe, n + 1, l + 1) = Append(SubSeq(q, n + 1, l), e)
    <2> DEFINE a == SubSeq(qe, n + 1, l + 1)
               b == SubSeq(q, n + 1, l)
               k == l - n
    <2>1. k \in Nat /\ n + 1 \in Int /\ l + 1 \in Int
        BY <1>4
    <2>2. a \in Seq(S) /\ Len(a) = k + 1 /\ \A i \in 1..(k + 1) : a[i] = qe[n + i]
      <3>1. \A i \in (n + 1)..(l + 1) : qe[i] \in S
          BY <1>4, <1>6
      <3>2. /\ a \in Seq(S) /\ Len(a) = IF n + 1 <= l + 1 THEN (l + 1) - (n + 1) + 1 ELSE 0
            /\ \A i \in 1..((l + 1) - (n + 1) + 1) : a[i] = qe[(n + 1) + i - 1]
          BY <2>1, <3>1, SubSeqProperties
      <3>3. (l + 1) - (n + 1) + 1 = k + 1 /\ \A i \in 1..(k + 1) : (n + 1) + i - 1 = n + i
          BY <1>4
      <3>4. n + 1 <= l + 1
          BY <1>4
      <3> HIDE DEF a, k
      <3> QED
          BY <3>2, <3>3, <3>4
    <2>3. b \in Seq(S) /\ Len(b) = k /\ \A i \in 1..k : b[i] = q[n + i]
      <3>1. \A i \in (n + 1)..l : q[i] \in S
          BY <1>4, <1>5
      <3>2. /\ b \in Seq(S) /\ Len(b) = IF n + 1 <= l THEN l - (n + 1) + 1 ELSE 0
            /\ \A i \in 1..(l - (n + 1) + 1) : b[i] = q[(n + 1) + i - 1]
          BY <2>1, <3>1, SubSeqProperties
      <3>3. l - (n + 1) + 1 = k /\ \A i \in 1..k : (n + 1) + i - 1 = n + i
          BY <1>4
      <3>4. n + 1 <= l \/ k = 0
          BY <1>4
      <3>5. Len(b) = k
          BY <1>4, <3>2, <3>3, <3>4
      <3> HIDE DEF b, k
      <3> QED
          BY <3>2, <3>3, <3>5
    <2> HIDE DEF a, b, k
    <2>4. /\ Append(b, e) \in Seq(S) /\ Len(Append(b, e)) = k + 1 /\ Append(b, e)[k + 1] = e
          /\ \A i \in 1..k : Append(b, e)[i] = b[i]
        BY <2>3, SeqAppended
    <2>5. \A i \in 1..(k + 1) : a[i] = Append(b, e)[i]
      <3>1. ASSUME NEW i \in 1..(k + 1) PROVE a[i] = Append(b, e)[i]
        <4>1. CASE i = k + 1
          <5>1. n + i = l + 1
              BY <1>4, <4>1 DEF k
          <5> QED
              BY <1>3, <2>2, <2>4, <4>1, <5>1
        <4>2. CASE i # k + 1
          <5>1. i \in 1..k
              BY <2>1, <4>2
          <5>2. n + i \in 1..l
              BY <1>4, <5>1 DEF k
          <5> QED
              BY <1>3, <2>2, <2>3, <2>4, <5>1, <5>2
        <4> QED
            BY <4>1, <4>2
      <3> QED
          BY <3>1
    <2>6. a = Append(b, e)
        BY <2>2, <2>4, <2>5, SeqEqual
    <2> QED
        BY <2>6 DEF a, b
  <1> QED
      BY <1>1, <1>2, <1>3, <1>7, <1>8

\* What is received is the first of what is in flight.
LEMMA InFlightShrinks ==
    ASSUME NEW S, NEW q \in Seq(S), NEW n \in Nat, n < Len(q)
    PROVE  /\ SubSeq(q, n + 1, Len(q)) # <<>>
           /\ SubSeq(q, n + 2, Len(q)) = Tail(SubSeq(q, n + 1, Len(q)))
           /\ SubSeq(q, 1, n + 1) = Append(SubSeq(q, 1, n), Head(SubSeq(q, n + 1, Len(q))))
  <1>1. PICK l \in Nat : Len(q) = l
      BY LenProperties
  <1>2. n + 1 \in 1..l /\ l \in (n + 1)..l /\ n \in 0..l /\ (n + 1) + 1 = n + 2
      BY <1>1
  <1>3. \A i \in 1..l : q[i] \in S
      BY <1>1, ElementOfSeq
  <1>4. /\ Head(SubSeq(q, n + 1, l)) = q[n + 1]
        /\ Tail(SubSeq(q, n + 1, l)) = SubSeq(q, n + 2, l)
    <2>1. /\ Head(SubSeq(q, n + 1, l)) = q[n + 1]
          /\ Tail(SubSeq(q, n + 1, l)) = SubSeq(q, (n + 1) + 1, l)
        BY <1>1, <1>2, HeadTailOfSubSeq
    <2> QED
        BY <1>2, <2>1
  <1>5. SubSeq(q, n + 1, l) # <<>>
    <2>1. \A i \in (n + 1)..l : q[i] \in S
        BY <1>2, <1>3
    <2>2. Len(SubSeq(q, n + 1, l)) = IF n + 1 <= l THEN l - (n + 1) + 1 ELSE 0
        BY <1>2, <2>1, SubSeqProperties
    <2> QED
        BY <1>2, <2>2, EmptySeq
  <1>6. SubSeq(q, 1, n + 1) = Append(SubSeq(q, 1, n), q[n + 1])
    <2> DEFINE a == SubSeq(q, 1, n + 1)
               b == SubSeq(q, 1, n)
               e == q[n + 1]
    <2>1. e \in S
        BY <1>2, <1>3
    <2>2. a \in Seq(S) /\ Len(a) = n + 1 /\ \A i \in 1..(n + 1) : a[i] = q[i]
      <3>1. \A i \in 1..(n + 1) : q[i] \in S
          BY <1>2, <1>3
      <3>2. /\ a \in Seq(S) /\ Len(a) = IF 1 <= n + 1 THEN (n + 1) - 1 + 1 ELSE 0
            /\ \A i \in 1..((n + 1) - 1 + 1) : a[i] = q[1 + i - 1]
          BY <3>1, SubSeqProperties
      <3>3. (n + 1) - 1 + 1 = n + 1 /\ \A i \in 1..(n + 1) : 1 + i - 1 = i
          OBVIOUS
      <3> HIDE DEF a
      <3> QED
          BY <3>2, <3>3
    <2>3. b \in Seq(S) /\ Len(b) = n /\ \A i \in 1..n : b[i] = q[i]
      <3>1. \A i \in 1..n : q[i] \in S
          BY <1>2, <1>3
      <3>2. /\ b \in Seq(S) /\ Len(b) = IF 1 <= n THEN n - 1 + 1 ELSE 0
            /\ \A i \in 1..(n - 1 + 1) : b[i] = q[1 + i - 1]
          BY <3>1, SubSeqProperties
      <3>3. n - 1 + 1 = n /\ \A i \in 1..n : 1 + i - 1 = i
          OBVIOUS
      <3> HIDE DEF b
      <3> QED
          BY <3>2, <3>3
    <2> HIDE DEF a, b, e
    <2>4. /\ Append(b, e) \in Seq(S) /\ Len(Append(b, e)) = n + 1 /\ Append(b, e)[n + 1] = e
          /\ \A i \in 1..n : Append(b, e)[i] = b[i]
        BY <2>1, <2>3, SeqAppended
    <2>5. \A i \in 1..(n + 1) : a[i] = Append(b, e)[i]
      <3>1. \A i \in 1..(n + 1) : i \in 1..n \/ i = n + 1
          OBVIOUS
      <3>2. a[n + 1] = e
          BY <2>2 DEF e
      <3> QED
          BY <2>2, <2>3, <2>4, <3>1, <3>2
    <2>6. a = Append(b, e)
        BY <2>2, <2>4, <2>5, SeqEqual
    <2> QED
        BY <2>6 DEF a, b, e
  <1> QED
      BY <1>1, <1>4, <1>5, <1>6

\* Every step of the link is one of the FIFOs: the mutex is taken (Send), a message
\* is complete at its listener (Deliver), or nothing that the users see.
LEMMA FifoStep ==
    ASSUME Inv, [Next]_vars
    PROVE  [Service!Next]_(Service!pcVars)
  <1>1. PICK log, r : LinkInv(log, r)
      BY DEF Inv
  <1>2. /\ sent \in [Ports -> Seq(Messages)] /\ received \in [Ports -> Seq(Seq(Tokens))]
        /\ \A p \in Ports : Len(received[p]) \in 0..Len(sent[p])
    <2>1. sent \in [Ports -> Seq(Messages)] /\ received \in [Ports -> Seq(Seq(Tokens))]
        BY <1>1 DEF LinkInv, LinkType
    <2>2. \A p \in Ports : Len(received[p]) <= Len(sent[p])
        BY <1>1 DEF LinkInv, ReceivedRight
    <2>3. \A p \in Ports : Len(received[p]) \in Nat /\ Len(sent[p]) \in Nat
        BY <2>1, LenProperties
    <2> QED
        BY <2>1, <2>2, <2>3
  <1>3. CASE sent' = sent /\ received' = received
      BY <1>3 DEF Service!pcVars, InFlight, Delivered
  <1>4. ASSUME NEW s \in Senders, TxLock(s) PROVE Service!Next
    <2>1. PICK p \in Ports, m \in Messages : sent' = [sent EXCEPT ![p] = Append(@, m)]
      <3>1. PICK p \in Ports, n \in Lengths :
              sent' = [sent EXCEPT ![p] = Append(@, [id |-> sentCount + 1, port |-> p, len |-> n])]
          BY <1>4 DEF TxLock
      <3>2. sentCount + 1 \in 1..MaxMessages
          BY <1>1, <1>4, IntertileAssumption DEF TxLock, LinkInv, LinkType
      <3>3. [id |-> sentCount + 1, port |-> p, len |-> n] \in Messages
          BY <3>2 DEF Messages
      <3> QED
          BY <3>1, <3>3
    <2>2. received' = received
        BY <1>4 DEF TxLock, rxVars
    <2>3. /\ sent'[p] = Append(sent[p], m)
          /\ \A q \in Ports \ {p} : sent'[q] = sent[q]
        BY <1>2, <2>1
    <2>4. /\ SubSeq(sent'[p], Len(received[p]) + 1, Len(sent'[p]))
               = Append(SubSeq(sent[p], Len(received[p]) + 1, Len(sent[p])), m)
          /\ SubSeq(sent'[p], 1, Len(received[p])) = SubSeq(sent[p], 1, Len(received[p]))
      <3>1. sent[p] \in Seq(Messages) /\ Len(received[p]) \in 0..Len(sent[p])
          BY <1>2
      <3>2. \A q \in Seq(Messages), n \in Nat : n \in 0..Len(q) =>
              /\ SubSeq(Append(q, m), n + 1, Len(Append(q, m))) = Append(SubSeq(q, n + 1, Len(q)), m)
              /\ SubSeq(Append(q, m), 1, n) = SubSeq(q, 1, n)
          BY InFlightGrows
      <3>3. Len(received[p]) \in Nat
          BY <3>1
      <3> QED
          BY <2>3, <3>1, <3>2, <3>3, Zenon
    <2>5. InFlight' = [InFlight EXCEPT ![p] = Append(@, m)]
        BY <2>2, <2>3, <2>4 DEF InFlight
    <2>6. Delivered' = Delivered
        BY <2>2, <2>3, <2>4 DEF Delivered
    <2>7. Service!Send(p, m)
        BY <2>5, <2>6 DEF Service!Send
    <2> QED
        BY <2>7 DEF Service!Next
  <1>5. ASSUME NEW p \in Ports, rx[p].pc = "bytes", Complete(p), sent' = sent PROVE Service!Next
    <2>1. /\ Len(received[p]) \in Nat /\ Len(received[p]) < Len(sent[p])
        BY <1>1, <1>5, MessageIsNext
    <2>2. received' = [received EXCEPT ![p] = Append(@, rx[p].data)]
        BY <1>5 DEF Complete
    <2>3. /\ Len(received'[p]) = Len(received[p]) + 1
          /\ \A q \in Ports \ {p} : received'[q] = received[q]
      <3>1. rx[p].data \in Seq(Tokens)
          BY <1>1, <1>5, ListenerIs
      <3>2. received'[p] = Append(received[p], rx[p].data)
          BY <1>2, <2>2
      <3>3. Len(received'[p]) = Len(received[p]) + 1
          BY <1>2, <3>1, <3>2, SeqAppended
      <3> QED
          BY <1>2, <2>2, <3>3
    <2>4. /\ SubSeq(sent[p], Len(received[p]) + 1, Len(sent[p])) # <<>>
          /\ SubSeq(sent[p], Len(received[p]) + 2, Len(sent[p]))
               = Tail(SubSeq(sent[p], Len(received[p]) + 1, Len(sent[p])))
          /\ SubSeq(sent[p], 1, Len(received[p]) + 1)
               = Append(SubSeq(sent[p], 1, Len(received[p])),
                        Head(SubSeq(sent[p], Len(received[p]) + 1, Len(sent[p]))))
        BY <1>2, <2>1, InFlightShrinks
    <2>5. Len(received'[p]) + 1 = Len(received[p]) + 2
        BY <2>1, <2>3
    <2>6. InFlight[p] # <<>>
        BY <2>4 DEF InFlight
    <2>7. Delivered' = [Delivered EXCEPT ![p] = Append(@, Head(InFlight[p]))]
        BY <1>5, <2>3, <2>4 DEF InFlight, Delivered
    <2>8. InFlight' = [InFlight EXCEPT ![p] = Tail(@)]
        BY <1>5, <2>3, <2>4, <2>5 DEF InFlight
    <2>9. Service!Deliver(p)
        BY <2>6, <2>7, <2>8 DEF Service!Deliver
    <2> QED
        BY <2>9 DEF Service!Next
  <1>6. ASSUME NEW s \in Senders, TxCode(s) PROVE sent' = sent /\ received' = received
      BY <1>6 DEF TxCode, TxPort, TxLength, TxData, TxByte, TxUnlock, TxDataDone, Output, rxVars
  <1>7. CASE Isr \/ SetBits \/ UNCHANGED vars
      BY <1>3, <1>7 DEF Isr, SetBits, txVars, vars, rxVars
  <1>8. ASSUME NEW p \in Ports, RxCode(p) \/ RxTimeout(p)
        PROVE  [Service!Next]_(Service!pcVars)
    <2>1. CASE RxCall(p) \/ RxTimeout(p) \/ RxLength(p) \/ RxData(p) \/ RxByte(p)
        BY <1>3, <2>1 DEF RxCall, RxTimeout, RxLength, RxData, RxByte, txVars
    <2>2. CASE RxDone(p)
        BY <1>5, <2>2 DEF RxDone, txVars
    <2>3. CASE RxDataDone(p)
        BY <1>3, <1>5, <2>3 DEF RxDataDone, txVars
    <2> QED
        BY <1>8, <2>1, <2>2, <2>3 DEF RxCode
  <1> QED
      BY <1>3, <1>4, <1>6, <1>7, <1>8 DEF Next

\* One direction of the link is a FIFO of messages for every port (PortChannel): the
\* initial states and every step are those of the FIFOs.  (That nothing stays in
\* flight, the rest of ImplementsPortChannel, rests on fairness.)
THEOREM LinkIsFifo ==
    ASSUME EmptyTails = {}
    PROVE  Spec => Service!Init /\ [][Service!Next]_(Service!pcVars)
  <1>1. Init => Service!Init
    <2> SUFFICES ASSUME Init PROVE Service!Init
        OBVIOUS
    <2>1. Len(<<>>) = 0
        BY EmptySeq
    <2>2. SubSeq(<<>>, 0 + 1, 0) = <<>> /\ SubSeq(<<>>, 1, 0) = <<>>
        BY SubSeqEmpty
    <2> QED
        BY <2>1, <2>2 DEF Init, Service!Init, InFlight, Delivered
  <1>2. Inv /\ [Next]_vars => Inv'
      BY LinkStep
  <1>3. Inv /\ [Next]_vars => [Service!Next]_(Service!pcVars)
      BY FifoStep
  <1> QED
      BY <1>1, <1>2, <1>3, LinkStarts, PTL DEF Spec
=============================================================================
