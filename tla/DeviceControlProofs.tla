------------------------ MODULE DeviceControlProofs ------------------------
(***************************************************************************)
(* The device control service, for every number of gateways, servicers and *)
(* resources and every placement of the servicers on the two tiles.        *)
(*                                                                         *)
(* A servicer registers with a gateway once: it has yet to, or it has      *)
(* announced itself, or it is registered.  When all are registered nothing *)
(* is on its way to the gateway, and from then on a command is in one      *)
(* place at a time: on its way to the tile, with the client thread, in the *)
(* servicer's queue or with the servicer; then its answer is in the queue  *)
(* or the port that the gateway reads.                                     *)
(***************************************************************************)
EXTENDS DeviceControl, SequenceTheorems, FiniteSetTheorems, TLAPS

\* A servicer is not given the same instance twice.
OrderOnce == \A s \in Servicers : \A i, j \in 1..Len(Order[s]) :
                 Order[s][i] = Order[s][j] => i = j

AtMostOne(S) == {<<>>} \cup {<<e>> : e \in S}

GwTypes ==
    /\ gpc \in [Gateways -> {"registering", "failed", "idle", "data", "send", "wait"}]
    /\ table \in [Gateways -> [Resources -> Nat \cup {None}]]
    /\ servicers \in [Gateways -> Seq(Servicers)]
    /\ req \in [Gateways -> [resid : Resources, cmd : Cmds]]
    /\ status \in [Gateways -> CallbackCodes \cup LibraryCodes]
    /\ xfer \in [Gateways -> {None, "write", "read", "bidir"}]
    /\ ret \in [Gateways -> CallbackCodes \cup {None}]
    /\ answer \in [Gateways -> Answers \cup {None}]

WayTypes ==
    /\ gwQueue \in [Gateways -> AtMostOne(Messages)]
    /\ fromTile \in [Gateways -> Seq(Messages)]
    /\ toTile \in [Gateways -> AtMostOne(Commands)]
    /\ client \in [Gateways -> Commands \cup {None}]
    /\ left \in [Servicers -> Seq(Gateways)]
    /\ queue \in [Servicers -> AtMostOne(Commands)]
    /\ cur \in [Servicers -> Commands \cup {None}]

DcTypes == setup \in SetupType /\ GwTypes /\ WayTypes

\* Where the registration of a servicer with a gateway is.
Active(g) == gpc[g] \in {"idle", "data", "send", "wait"}
Registers(s, g) == \E i \in 1..Len(left[s]) : left[s][i] = g
Announced(s, g) == \/ gwQueue[g] = <<InitMsg(s)>>
                   \/ \E i \in 1..Len(fromTile[g]) : fromTile[g][i] = InitMsg(s)
Registered(s, g) == \E i \in 1..Len(servicers[g]) : servicers[g][i] = s

LeftOnce == \A s \in Servicers : \A i, j \in 1..Len(left[s]) : left[s][i] = left[s][j] => i = j

RegisteredOnce(g) ==
    /\ \A i, j \in 1..Len(servicers[g]) : servicers[g][i] = servicers[g][j] => i = j
    /\ \A s \in Servicers :
          /\ Registered(s, g) => ~ Announced(s, g) /\ ~ Registers(s, g)
          /\ Announced(s, g) => ~ Registers(s, g)
          /\ \A i, j \in 1..Len(fromTile[g]) :
                fromTile[g][i] = InitMsg(s) /\ fromTile[g][j] = InitMsg(s) => i = j
          /\ gwQueue[g] = <<InitMsg(s)>> => s \notin OffTile
          /\ (\E i \in 1..Len(fromTile[g]) : fromTile[g][i] = InitMsg(s)) => s \in OffTile
    /\ Active(g) => Len(servicers[g]) = Cardinality(Servicers)

\* The table leads from every resource to the one servicer that claims it.
TableRight(g) ==
    /\ \A r \in Resources : table[g][r] \in (1..Len(servicers[g])) \cup {None}
    /\ gpc[g] # "failed" =>
          /\ table[g][Special] = None
          /\ \A r \in Resources :
                table[g][r] # None
                    <=> \E i \in 1..Len(servicers[g]) : r \in RangeOf(claims[servicers[g][i]])
          /\ \A i \in 1..Len(servicers[g]) :
                \A r \in RangeOf(claims[servicers[g][i]]) : table[g][r] = i

\* Where the command of a gateway is.
Queued(g) == {s \in Servicers : queue[s] # <<>> /\ queue[s][1].gw = g}
Running(g) == {s \in Servicers : cur[s] # None /\ cur[s].gw = g}

NoCommand(g) == toTile[g] = <<>> /\ client[g] = None /\ Queued(g) = {} /\ Running(g) = {}
NoMessage(g) == gwQueue[g] = <<>> /\ fromTile[g] = <<>>

OnItsWay(g) ==
    LET c == Command(g) IN
    /\ NoMessage(g) /\ answer[g] = None
    /\ \/ /\ c.to \in OffTile /\ toTile[g] = <<c>>
          /\ client[g] = None /\ Queued(g) = {} /\ Running(g) = {}
       \/ /\ c.to \in OffTile /\ toTile[g] = <<>>
          /\ client[g] = c /\ Queued(g) = {} /\ Running(g) = {}
       \/ /\ toTile[g] = <<>> /\ client[g] = None
          /\ Queued(g) = {c.to} /\ queue[c.to] = <<c>> /\ Running(g) = {}
       \/ /\ toTile[g] = <<>> /\ client[g] = None
          /\ Queued(g) = {} /\ Running(g) = {c.to} /\ cur[c.to] = c

Replied(g) ==
    LET c == Command(g) IN
    /\ NoCommand(g) /\ answer[g] # None
    /\ answer[g].by = c.to /\ answer[g].resid = c.resid /\ answer[g].cmd = c.cmd
    /\ IF c.to \in OffTile
       THEN gwQueue[g] = <<>> /\ fromTile[g] = <<RetMsg(answer[g].code)>>
       ELSE gwQueue[g] = <<RetMsg(answer[g].code)>> /\ fromTile[g] = <<>>

OnePlace(g) ==
    /\ gpc[g] \in {"registering", "failed"} =>
          /\ NoCommand(g)
          /\ \A i \in 1..Len(gwQueue[g]) : gwQueue[g][i].kind = "init"
          /\ \A i \in 1..Len(fromTile[g]) : fromTile[g][i].kind = "init"
    /\ gpc[g] \in {"idle", "data", "send"} => NoCommand(g) /\ NoMessage(g)
    /\ gpc[g] = "wait" => OnItsWay(g) \/ Replied(g)

\* What is known of the transfer that a gateway is in, and of the last one.
TransferRight(g) ==
    /\ gpc[g] \in {"send", "wait"} =>
          /\ table[g][req[g].resid] # None
          /\ xfer[g] \in {"write", "read", "bidir"}
          /\ req[g].cmd = "write" \/ transport[g] = "spi" => xfer[g] # "read"
    /\ gpc[g] # "idle" => ret[g] = None
    /\ gpc[g] \notin {"idle", "wait"} => answer[g] = None
    /\ gpc[g] = "idle" =>
          /\ ret[g] # None <=> answer[g] # None
          /\ answer[g] # None =>
                /\ answer[g].code = ret[g]
                /\ answer[g].resid = req[g].resid /\ answer[g].cmd = req[g].cmd
                /\ table[g][req[g].resid] # None /\ answer[g].by = Servicer(g, req[g].resid)
                /\ answer[g].cmd = "write" \/ transport[g] = "spi" => status[g] = ret[g]

\* The inductive invariant.
GwInv(g) == RegisteredOnce(g) /\ TableRight(g) /\ OnePlace(g) /\ TransferRight(g)
DcInv == DcTypes /\ LeftOnce /\ \A g \in Gateways : GwInv(g)

-----------------------------------------------------------------------------
(***************************************************************************)
(* Sequences and places.                                                   *)
(***************************************************************************)

\* A queue or a port with one message.
LEMMA OneElement ==
    ASSUME NEW S, NEW e \in S
    PROVE  /\ Append(<<>>, e) = <<e>> /\ <<e>> \in Seq(S) /\ <<>> \in Seq(S)
           /\ Head(<<e>>) = e /\ Tail(<<e>>) = <<>> /\ <<e>> # <<>> /\ <<e>>[1] = e
           /\ Len(<<e>>) = 1 /\ Len(<<>>) = 0 /\ <<e>> \in AtMostOne(S) /\ <<>> \in AtMostOne(S)
  BY DEF AtMostOne

\* A queue that has room is empty, one that has none holds one message.
LEMMA OneOrNone ==
    ASSUME NEW S, NEW q \in AtMostOne(S)
    PROVE  /\ Len(q) < QueueSize => q = <<>>
           /\ q # <<>> => Head(q) \in S /\ q = <<Head(q)>> /\ Tail(q) = <<>> /\ q[1] = Head(q)
           /\ Len(q) <= QueueSize /\ q \in Seq(S)
  <1>1. CASE q = <<>>
      BY <1>1, EmptySeq DEF QueueSize
  <1>2. CASE q # <<>>
    <2>1. PICK e \in S : q = <<e>>
        BY <1>2 DEF AtMostOne
    <2> QED
        BY <1>2, <2>1, OneElement DEF QueueSize
  <1> QED
      BY <1>1, <1>2

\* A sequence without repetitions of all the elements that there are.
LEMMA AllTaken ==
    ASSUME NEW S, IsFiniteSet(S), NEW q \in Seq(S),
           \A i, j \in 1..Len(q) : q[i] = q[j] => i = j
    PROVE  /\ Len(q) \in Nat /\ Len(q) <= Cardinality(S)
           /\ Len(q) = Cardinality(S) => \A s \in S : \E i \in 1..Len(q) : q[i] = s
  <1>1. Len(q) \in Nat /\ q \in [1..Len(q) -> S]
      BY LenProperties
  <1>2. q \in Injection(1..Len(q), S)
      BY <1>1 DEF Injection, IsInjective
  <1>3. IsFiniteSet(1..Len(q)) /\ Cardinality(1..Len(q)) = Len(q)
      BY <1>1, FS_Interval
  <1>4. /\ Len(q) <= Cardinality(S)
        /\ Len(q) = Cardinality(S) <=> q \in Surjection(1..Len(q), S)
      BY <1>2, <1>3, FS_Injection
  <1> QED
      BY <1>1, <1>4 DEF Surjection

\* What the messages are.
LEMMA MessagesDiffer ==
    /\ \A s \in Servicers : InitMsg(s) \in Messages /\ InitMsg(s).kind = "init"
                            /\ InitMsg(s).servicer = s
    /\ \A c \in CallbackCodes : RetMsg(c) \in Messages /\ RetMsg(c).kind = "ret"
                                /\ RetMsg(c).code = c
    /\ \A m \in Messages : m.kind = "init" => m.servicer \in Servicers /\ m = InitMsg(m.servicer)
  BY DEF InitMsg, RetMsg, Messages

\* A gateway that serves commands has all its servicers.
LEMMA AllRegistered ==
    ASSUME DcInv, NEW g \in Gateways, Active(g), NEW s \in Servicers
    PROVE  Registered(s, g) /\ ~ Announced(s, g) /\ ~ Registers(s, g)
  <1>1. RegisteredOnce(g) /\ servicers[g] \in Seq(Servicers)
      BY DEF DcInv, GwInv, DcTypes, GwTypes
  <1>2. Registered(s, g)
      BY <1>1, AllTaken, DeviceControlAssumption DEF RegisteredOnce, Registered
  <1> QED
      BY <1>1, <1>2 DEF RegisteredOnce

\* The command of a gateway that is about to forward it.
LEMMA CommandIs ==
    ASSUME DcInv, NEW g \in Gateways, gpc[g] \in {"send", "wait"}
    PROVE  /\ Command(g) \in Commands /\ Command(g) # None /\ Command(g).gw = g
           /\ Command(g).to \in Servicers /\ Command(g).to = Servicer(g, req[g].resid)
           /\ Command(g).resid = req[g].resid /\ Command(g).cmd = req[g].cmd
  <1>1. /\ req[g] \in [resid : Resources, cmd : Cmds] /\ servicers[g] \in Seq(Servicers)
        /\ table[g][req[g].resid] \in 1..Len(servicers[g])
      BY DEF DcInv, DcTypes, GwTypes, GwInv, TransferRight, TableRight
  <1>2. Servicer(g, req[g].resid) \in Servicers
      BY <1>1, ElementOfSeq DEF Servicer
  <1> QED
      BY <1>1, <1>2, DeviceControlAssumption DEF Command, Commands

\* A step that leaves all that is known of a gateway alone keeps its part of the
\* invariant: it moves no command of that gateway.
LEMMA GwSame ==
    ASSUME DcInv, NEW g \in Gateways, setup' = setup,
           gpc'[g] = gpc[g], table'[g] = table[g], servicers'[g] = servicers[g],
           req'[g] = req[g], status'[g] = status[g], xfer'[g] = xfer[g],
           ret'[g] = ret[g], answer'[g] = answer[g],
           gwQueue'[g] = gwQueue[g], fromTile'[g] = fromTile[g],
           toTile'[g] = toTile[g], client'[g] = client[g],
           \A s \in Servicers : Registers(s, g)' => Registers(s, g),
           Queued(g)' = Queued(g), \A s \in Queued(g) : queue'[s] = queue[s],
           Running(g)' = Running(g), \A s \in Running(g) : cur'[s] = cur[s]
    PROVE  GwInv(g)'
  <1>1. Command(g)' = Command(g) /\ OffTile' = OffTile /\ claims' = claims /\ transport' = transport
      BY DEF Command, Servicer, OffTile, claims, transport
  <1>2. Active(g)' = Active(g) /\ Servicer(g, req[g].resid)' = Servicer(g, req[g].resid)
      BY DEF Active, Servicer
  <1>3. \A s \in Servicers : Announced(s, g)' = Announced(s, g) /\ Registered(s, g)' = Registered(s, g)
      BY DEF Announced, Registered
  <1>4. RegisteredOnce(g)'
    <2>1. RegisteredOnce(g)
        BY DEF DcInv, GwInv
    <2> QED
        BY <1>1, <1>2, <1>3, <2>1 DEF RegisteredOnce
  <1>5. TableRight(g)'
    <2>1. TableRight(g)
        BY DEF DcInv, GwInv
    <2> QED
        BY <1>1, <2>1 DEF TableRight
  <1>6. TransferRight(g)'
    <2>1. TransferRight(g)
        BY DEF DcInv, GwInv
    <2> QED
        BY <1>1, <1>2, <2>1 DEF TransferRight
  <1>7. OnePlace(g)'
    <2>1. OnePlace(g)
        BY DEF DcInv, GwInv
    <2>2. NoCommand(g)' = NoCommand(g) /\ NoMessage(g)' = NoMessage(g)
        BY DEF NoCommand, NoMessage
    <2>3. OnItsWay(g) => OnItsWay(g)'
        BY <1>1, <2>2 DEF OnItsWay
    <2>4. Replied(g) => Replied(g)'
        BY <1>1, <2>2 DEF Replied
    <2> QED
        BY <2>1, <2>2, <2>3, <2>4 DEF OnePlace
  <1> QED
      BY <1>4, <1>5, <1>6, <1>7 DEF GwInv

-----------------------------------------------------------------------------
(***************************************************************************)
(* The transfers of the host.                                              *)
(***************************************************************************)

\* How the first half of a transfer with q may come out: it is over, its data are
\* yet to come, or its command is to be sent.
Outcome(g, q) ==
    \E p \in {"idle", "data", "send"}, st \in CallbackCodes \cup LibraryCodes,
       x \in {None, "write", "read", "bidir"} :
        /\ gpc' = [gpc EXCEPT ![g] = p]
        /\ status' = [status EXCEPT ![g] = st]
        /\ xfer' = [xfer EXCEPT ![g] = x]
        /\ p = "send" => /\ table[g][q.resid] # None
                         /\ x \in {"write", "read", "bidir"}
                         /\ q.cmd = "write" \/ transport[g] = "spi" => x # "read"

\* The four ways in which the functions of the transports go on.
LEMMA Outcomes ==
    ASSUME DcInv, NEW g \in Gateways, NEW q
    PROVE  /\ \A st \in CallbackCodes \cup LibraryCodes : End(g, st) => Outcome(g, q)
           /\ \A how \in {"write", "read", "bidir"} :
                 /\ Forward(g, q, how) /\ Found(g, q.resid)
                 /\ (q.cmd = "write" \/ transport[g] = "spi" => how # "read")
                 => Outcome(g, q)
           /\ \A p \in {"idle", "data"} :
                 gpc' = [gpc EXCEPT ![g] = p] /\ UNCHANGED <<status, xfer>> => Outcome(g, q)
           /\ status[g] \in CallbackCodes \cup LibraryCodes
  <1>1. /\ status \in [Gateways -> CallbackCodes \cup LibraryCodes]
        /\ xfer \in [Gateways -> {None, "write", "read", "bidir"}]
      BY DEF DcInv, DcTypes, GwTypes
  <1>2. /\ status = [status EXCEPT ![g] = status[g]] /\ xfer = [xfer EXCEPT ![g] = xfer[g]]
        /\ status[g] \in CallbackCodes \cup LibraryCodes
        /\ xfer[g] \in {None, "write", "read", "bidir"}
      BY <1>1
  <1>3. ASSUME NEW st \in CallbackCodes \cup LibraryCodes, End(g, st) PROVE Outcome(g, q)
    <2>1. /\ gpc' = [gpc EXCEPT ![g] = "idle"] /\ status' = [status EXCEPT ![g] = st]
          /\ xfer' = [xfer EXCEPT ![g] = xfer[g]]
        BY <1>2, <1>3 DEF End
    <2> QED
        BY <1>2, <2>1 DEF Outcome
  <1>4. ASSUME NEW how \in {"write", "read", "bidir"}, Forward(g, q, how), Found(g, q.resid),
               q.cmd = "write" \/ transport[g] = "spi" => how # "read"
        PROVE  Outcome(g, q)
    <2>1. /\ gpc' = [gpc EXCEPT ![g] = "send"] /\ status' = [status EXCEPT ![g] = status[g]]
          /\ xfer' = [xfer EXCEPT ![g] = how] /\ table[g][q.resid] # None
        BY <1>2, <1>4 DEF Forward, Found
    <2> QED
        BY <1>2, <1>4, <2>1 DEF Outcome
  <1>5. ASSUME NEW p \in {"idle", "data"}, gpc' = [gpc EXCEPT ![g] = p], UNCHANGED <<status, xfer>>
        PROVE  Outcome(g, q)
    <2>1. status' = [status EXCEPT ![g] = status[g]] /\ xfer' = [xfer EXCEPT ![g] = xfer[g]]
        BY <1>2, <1>5
    <2> QED
        BY <1>2, <1>5, <2>1 DEF Outcome
  <1> QED
      BY <1>2, <1>3, <1>4, <1>5

\* payload_transfer, its inverse and the bidirectional transfer.
LEMMA TransferOutcomes ==
    ASSUME DcInv, NEW g \in Gateways, NEW q, q.cmd \in Cmds, NEW fits \in BOOLEAN
    PROVE  /\ HostToDevice(g, q, fits) => Outcome(g, q)
           /\ DeviceToHost(g, q) /\ transport[g] # "spi" => Outcome(g, q)
           /\ Bidir(g, q, fits) => Outcome(g, q)
  <1>1. \A sized \in BOOLEAN : SpecialCode(q, sized) \in CallbackCodes \cup LibraryCodes
      BY DEF SpecialCode, CallbackCodes, LibraryCodes
  <1>2. {"BAD_RESOURCE", "DATA_LENGTH_ERROR", "SUCCESS"} \subseteq CallbackCodes \cup LibraryCodes
      BY DEF CallbackCodes, LibraryCodes
  <1>3. ASSUME HostToDevice(g, q, fits) PROVE Outcome(g, q)
      BY <1>1, <1>2, <1>3, Outcomes DEF HostToDevice
  <1>4. ASSUME DeviceToHost(g, q), transport[g] # "spi" PROVE Outcome(g, q)
      BY <1>1, <1>2, <1>4, Outcomes DEF DeviceToHost
  <1>5. ASSUME Bidir(g, q, fits) PROVE Outcome(g, q)
      BY <1>1, <1>2, <1>5, Outcomes DEF Bidir
  <1> QED
      BY <1>3, <1>4, <1>5

\* Every transfer that a host starts begins and comes out in one of these ways.
LEMMA HostStarts ==
    ASSUME DcInv, NEW g \in Gateways, Host(g)
    PROVE  \E q \in [resid : Resources, cmd : Cmds] :
               gpc[g] \in {"idle", "data"} /\ Begin(g, q) /\ Outcome(g, q)
  <1>1. req[g] \in [resid : Resources, cmd : Cmds] /\ req[g].cmd \in Cmds
      BY DEF DcInv, DcTypes, GwTypes
  <1>2. ASSUME NEW resid \in Resources, NEW cmd \in Cmds
        PROVE  /\ Request(g, resid, cmd) \in [resid : Resources, cmd : Cmds]
               /\ Request(g, resid, cmd).cmd \in Cmds /\ Request(g, resid, cmd).resid = resid
      BY <1>1 DEF Request
  <1>3. ASSUME NEW resid \in Resources, NEW cmd \in Cmds, I2cRx(g, resid, cmd)
        PROVE  \E q \in [resid : Resources, cmd : Cmds] :
                   gpc[g] \in {"idle", "data"} /\ Begin(g, q) /\ Outcome(g, q)
    <2>1. PICK fits \in BOOLEAN : HostToDevice(g, Request(g, resid, cmd), fits)
        BY <1>3 DEF I2cRx
    <2> QED
        BY <1>2, <1>3, <2>1, TransferOutcomes DEF I2cRx
  <1>4. ASSUME NEW resid \in Resources, NEW cmd \in Cmds, SpiXferDone(g, resid, cmd)
        PROVE  \E q \in [resid : Resources, cmd : Cmds] :
                   gpc[g] \in {"idle", "data"} /\ Begin(g, q) /\ Outcome(g, q)
    <2>1. PICK fits \in BOOLEAN : Bidir(g, Request(g, resid, cmd), fits)
        BY <1>4 DEF SpiXferDone
    <2> QED
        BY <1>2, <1>4, <2>1, TransferOutcomes DEF SpiXferDone
  <1>5. ASSUME NEW resid \in Resources, NEW cmd \in Cmds, UsbSetup(g, resid, cmd)
        PROVE  \E q \in [resid : Resources, cmd : Cmds] :
                   gpc[g] \in {"idle", "data"} /\ Begin(g, q) /\ Outcome(g, q)
    <2>1. /\ transport[g] # "spi" /\ gpc[g] \in {"idle", "data"}
          /\ Begin(g, Request(g, resid, cmd))
        BY <1>5 DEF UsbSetup
    <2>2. Outcome(g, Request(g, resid, cmd))
        BY <1>2, <1>5, <2>1, Outcomes, TransferOutcomes DEF UsbSetup
    <2> QED
        BY <1>2, <2>1, <2>2
  <1>6. ASSUME I2cRxShort(g) \/ I2cTxStart(g) \/ UsbData(g)
        PROVE  \E q \in [resid : Resources, cmd : Cmds] :
                   gpc[g] \in {"idle", "data"} /\ Begin(g, q) /\ Outcome(g, q)
    <2>1. "MALFORMED_PACKET" \in CallbackCodes \cup LibraryCodes
        BY DEF LibraryCodes
    <2>2. gpc[g] \in {"idle", "data"} /\ Begin(g, req[g])
        BY <1>6 DEF I2cRxShort, I2cTxStart, UsbData
    <2>3. Outcome(g, req[g])
        BY <1>1, <1>6, <2>1, Outcomes, TransferOutcomes DEF I2cRxShort, I2cTxStart, UsbData
    <2> QED
        BY <1>1, <2>2, <2>3
  <1> QED
      BY <1>3, <1>4, <1>5, <1>6 DEF Host

\* The first half of a transfer.
LEMMA HostInv ==
    ASSUME DcInv, NEW g \in Gateways, Host(g)
    PROVE  DcInv'
  <1>1. PICK q \in [resid : Resources, cmd : Cmds] :
          gpc[g] \in {"idle", "data"} /\ Begin(g, q) /\ Outcome(g, q)
      BY HostStarts
  <1>2. PICK p \in {"idle", "data", "send"}, st \in CallbackCodes \cup LibraryCodes,
             x \in {None, "write", "read", "bidir"} :
          /\ gpc' = [gpc EXCEPT ![g] = p]
          /\ status' = [status EXCEPT ![g] = st]
          /\ xfer' = [xfer EXCEPT ![g] = x]
          /\ p = "send" => /\ table[g][q.resid] # None
                           /\ x \in {"write", "read", "bidir"}
                           /\ q.cmd = "write" \/ transport[g] = "spi" => x # "read"
      BY <1>1 DEF Outcome
  <1>3. /\ req' = [req EXCEPT ![g] = q] /\ ret' = [ret EXCEPT ![g] = None]
        /\ answer' = [answer EXCEPT ![g] = None]
        /\ UNCHANGED <<setup, table, servicers, gwQueue, toTile, fromTile, client, left, queue, cur>>
      BY <1>1 DEF Begin, gwVars
  <1>4. DcTypes
      BY DEF DcInv
  <1>5. DcTypes'
    <2>1. GwTypes'
        BY <1>2, <1>3, <1>4 DEF DcTypes, GwTypes
    <2>2. WayTypes'
        BY <1>3, <1>4 DEF DcTypes, WayTypes
    <2> QED
        BY <1>3, <1>4, <2>1, <2>2 DEF DcTypes
  <1>6. LeftOnce'
      BY <1>3 DEF DcInv, LeftOnce
  <1>7. /\ gpc'[g] = p /\ status'[g] = st /\ xfer'[g] = x /\ req'[g] = q
        /\ ret'[g] = None /\ answer'[g] = None
      BY <1>2, <1>3, <1>4 DEF DcTypes, GwTypes
  <1>8. GwInv(g)'
    <2>1. RegisteredOnce(g) /\ TableRight(g) /\ OnePlace(g) /\ Active(g) /\ Active(g)'
        BY <1>1, <1>7 DEF DcInv, GwInv, Active
    <2>2. OffTile' = OffTile /\ claims' = claims /\ transport' = transport
        BY <1>3 DEF OffTile, claims, transport
    <2>3. RegisteredOnce(g)'
        BY <1>3, <2>1, <2>2 DEF RegisteredOnce, Announced, Registers, Registered
    <2>4. TableRight(g)'
        BY <1>1, <1>3, <1>7, <2>1, <2>2 DEF TableRight
    <2>5. OnePlace(g)'
      <3>1. NoCommand(g) /\ NoMessage(g)
          BY <1>1, <2>1 DEF OnePlace
      <3>2. NoCommand(g)' /\ NoMessage(g)'
          BY <1>3, <3>1 DEF NoCommand, NoMessage, Queued, Running
      <3> QED
          BY <1>7, <3>2 DEF OnePlace
    <2>6. TransferRight(g)'
        BY <1>2, <1>3, <1>7, <2>2 DEF TransferRight
    <2> QED
        BY <2>3, <2>4, <2>5, <2>6 DEF GwInv
  <1>9. ASSUME NEW h \in Gateways \ {g} PROVE GwInv(h)'
    <2>1. /\ gpc'[h] = gpc[h] /\ status'[h] = status[h] /\ xfer'[h] = xfer[h]
          /\ req'[h] = req[h] /\ ret'[h] = ret[h] /\ answer'[h] = answer[h]
        BY <1>2, <1>3, <1>4 DEF DcTypes, GwTypes
    <2>2. Queued(h)' = Queued(h) /\ Running(h)' = Running(h)
        BY <1>3 DEF Queued, Running
    <2>3. \A s \in Servicers : Registers(s, h)' = Registers(s, h)
        BY <1>3 DEF Registers
    <2> QED
        BY <1>3, <2>1, <2>2, <2>3, GwSame
  <1> QED
      BY <1>5, <1>6, <1>8, <1>9 DEF DcInv

-----------------------------------------------------------------------------
(***************************************************************************)
(* The way of a command to its servicer and of the answer back.            *)
(***************************************************************************)

\* A command is put into the queue of a servicer, which has room.
LEMMA QueueFilled ==
    ASSUME DcInv, NEW s \in Servicers, NEW c \in Commands,
           queue[s] = <<>>, queue' = [queue EXCEPT ![s] = <<c>>]
    PROVE  /\ queue' \in [Servicers -> AtMostOne(Commands)] /\ queue'[s] = <<c>>
           /\ Queued(c.gw)' = Queued(c.gw) \cup {s}
           /\ \A h \in Gateways \ {c.gw} :
                 Queued(h)' = Queued(h) /\ \A t \in Queued(h) : queue'[t] = queue[t]
  <1>1. queue \in [Servicers -> AtMostOne(Commands)]
      BY DEF DcInv, DcTypes, WayTypes
  <1>2. <<c>> \in AtMostOne(Commands) /\ <<c>> # <<>> /\ <<c>>[1] = c
      BY OneElement
  <1> QED
      BY <1>1, <1>2 DEF Queued

\* The command in the queue of a servicer is taken from it.
LEMMA QueueTaken ==
    ASSUME DcInv, NEW s \in Servicers, NEW c \in Commands,
           queue[s] = <<c>>, queue' = [queue EXCEPT ![s] = <<>>]
    PROVE  /\ queue' \in [Servicers -> AtMostOne(Commands)] /\ s \in Queued(c.gw)
           /\ Queued(c.gw)' = Queued(c.gw) \ {s}
           /\ \A h \in Gateways \ {c.gw} :
                 Queued(h)' = Queued(h) /\ \A t \in Queued(h) : queue'[t] = queue[t]
  <1>1. queue \in [Servicers -> AtMostOne(Commands)]
      BY DEF DcInv, DcTypes, WayTypes
  <1>2. <<>> \in AtMostOne(Commands) /\ <<c>> # <<>> /\ <<c>>[1] = c
      BY OneElement
  <1> QED
      BY <1>1, <1>2 DEF Queued

\* A servicer begins to execute a command.
LEMMA ServicerStarts ==
    ASSUME DcInv, NEW s \in Servicers, NEW c \in Commands,
           cur[s] = None, cur' = [cur EXCEPT ![s] = c]
    PROVE  /\ cur' \in [Servicers -> Commands \cup {None}] /\ cur'[s] = c
           /\ Running(c.gw)' = Running(c.gw) \cup {s}
           /\ \A h \in Gateways \ {c.gw} :
                 Running(h)' = Running(h) /\ \A t \in Running(h) : cur'[t] = cur[t]
  <1>1. cur \in [Servicers -> Commands \cup {None}]
      BY DEF DcInv, DcTypes, WayTypes
  <1> QED
      BY <1>1, DeviceControlAssumption DEF Running

\* A servicer is done with its command.
LEMMA ServicerEnds ==
    ASSUME DcInv, NEW s \in Servicers, NEW c \in Commands,
           cur[s] = c, cur' = [cur EXCEPT ![s] = None]
    PROVE  /\ cur' \in [Servicers -> Commands \cup {None}] /\ s \in Running(c.gw)
           /\ Running(c.gw)' = Running(c.gw) \ {s}
           /\ \A h \in Gateways \ {c.gw} :
                 Running(h)' = Running(h) /\ \A t \in Running(h) : cur'[t] = cur[t]
  <1>1. cur \in [Servicers -> Commands \cup {None}]
      BY DEF DcInv, DcTypes, WayTypes
  <1> QED
      BY <1>1, DeviceControlAssumption DEF Running

\* The command of a gateway, or its answer, goes from one place to the next.
LEMMA CommandMoves ==
    ASSUME DcInv, NEW g \in Gateways, gpc[g] \in {"send", "wait"},
           gpc' = [gpc EXCEPT ![g] = "wait"],
           UNCHANGED <<setup, table, servicers, req, status, xfer, left, ret>>, WayTypes',
           answer' \in [Gateways -> Answers \cup {None}],
           OnItsWay(g)' \/ Replied(g)',
           \A h \in Gateways \ {g} :
              /\ gwQueue'[h] = gwQueue[h] /\ fromTile'[h] = fromTile[h]
              /\ toTile'[h] = toTile[h] /\ client'[h] = client[h] /\ answer'[h] = answer[h]
              /\ Queued(h)' = Queued(h) /\ \A s \in Queued(h) : queue'[s] = queue[s]
              /\ Running(h)' = Running(h) /\ \A s \in Running(h) : cur'[s] = cur[s]
    PROVE  DcInv'
  <1>1. DcTypes
      BY DEF DcInv
  <1>2. gpc' \in [Gateways -> {"registering", "failed", "idle", "data", "send", "wait"}]
        /\ gpc'[g] = "wait" /\ \A h \in Gateways \ {g} : gpc'[h] = gpc[h]
      BY <1>1 DEF DcTypes, GwTypes
  <1>3. DcTypes'
    <2>1. GwTypes'
        BY <1>1, <1>2 DEF DcTypes, GwTypes
    <2> QED
        BY <1>1, <2>1 DEF DcTypes
  <1>4. LeftOnce'
      BY DEF DcInv, LeftOnce
  <1>5. OffTile' = OffTile /\ claims' = claims /\ transport' = transport
      BY DEF OffTile, claims, transport
  <1>6. RegisteredOnce(g) /\ TableRight(g) /\ TransferRight(g) /\ Active(g)
      BY DEF DcInv, GwInv, Active
  <1>7. \A s \in Servicers : ~ Announced(s, g)'
    <2>1. CASE NoMessage(g)'
      <3>1. \A m : <<>> # <<m>>
          OBVIOUS
      <3>2. gwQueue'[g] = <<>> /\ Len(fromTile'[g]) = 0
          BY <2>1, EmptySeq DEF NoMessage
      <3> QED
          BY <3>1, <3>2 DEF Announced
    <2>2. CASE Replied(g)'
      <3>1. PICK code : \/ gwQueue'[g] = <<RetMsg(code)>> /\ fromTile'[g] = <<>>
                        \/ gwQueue'[g] = <<>> /\ fromTile'[g] = <<RetMsg(code)>>
          BY <2>2 DEF Replied
      <3>2. \A s \in Servicers : InitMsg(s) # RetMsg(code)
          BY DEF InitMsg, RetMsg
      <3>3. \A m, n : <<>> # <<m>> /\ (<<m>> = <<n>> => m = n) /\ <<m>>[1] = m
          OBVIOUS
      <3>4. Len(<<>>) = 0 /\ Len(<<RetMsg(code)>>) = 1
          BY EmptySeq
      <3>5. \A s \in Servicers : gwQueue'[g] # <<InitMsg(s)>>
          BY <3>1, <3>2, <3>3
      <3>6. \A i \in 1..Len(fromTile'[g]) : fromTile'[g][i] = RetMsg(code)
          BY <3>1, <3>3, <3>4
      <3> QED
          BY <3>2, <3>5, <3>6 DEF Announced
    <2> QED
        BY <2>1, <2>2 DEF OnItsWay
  <1>8. GwInv(g)'
    <2>1. RegisteredOnce(g)'
      <3>1. \A s \in Servicers : /\ Registered(s, g)' = Registered(s, g)
                                 /\ Registers(s, g)' = Registers(s, g)
          BY DEF Registered, Registers
      <3>2. \A s \in Servicers : \A i \in 1..Len(fromTile'[g]) : fromTile'[g][i] # InitMsg(s)
          BY <1>7 DEF Announced
      <3>3. \A s \in Servicers : gwQueue'[g] # <<InitMsg(s)>>
          BY <1>7 DEF Announced
      <3> QED
          BY <1>6, <1>7, <3>1, <3>2, <3>3 DEF RegisteredOnce
    <2>2. TableRight(g)'
        BY <1>2, <1>5, <1>6 DEF TableRight, Active
    <2>3. OnePlace(g)'
        BY <1>2 DEF OnePlace
    <2>4. TransferRight(g)'
        BY <1>2, <1>5, <1>6 DEF TransferRight
    <2> QED
        BY <2>1, <2>2, <2>3, <2>4 DEF GwInv
  <1>9. ASSUME NEW h \in Gateways \ {g} PROVE GwInv(h)'
    <2>1. \A s \in Servicers : Registers(s, h)' = Registers(s, h)
        BY DEF Registers
    <2> QED
        BY <1>2, <2>1, GwSame
  <1> QED
      BY <1>3, <1>4, <1>8, <1>9 DEF DcInv

\* do_command sends the command, to the tile of the servicer or to its queue.
LEMMA GatewaySendInv ==
    ASSUME DcInv, NEW g \in Gateways, GatewaySend(g)
    PROVE  DcInv'
  <1>1. /\ gpc[g] = "send" /\ gpc' = [gpc EXCEPT ![g] = "wait"]
        /\ UNCHANGED <<setup, table, servicers, req, status, xfer, left, ret>>
        /\ UNCHANGED <<gwQueue, fromTile, client, cur, answer>>
      BY DEF GatewaySend, gwVars
  <1>2. PICK c \in Commands : c = Command(g)
      BY <1>1, CommandIs
  <1>3. /\ c.gw = g /\ c.to \in Servicers
        /\ (c.to \in OffTile => toTile' = [toTile EXCEPT ![g] = Append(@, c)] /\ queue' = queue)
        /\ (c.to \notin OffTile => /\ Len(queue[c.to]) < QueueSize /\ toTile' = toTile
                                   /\ queue' = [queue EXCEPT ![c.to] = Append(@, c)])
      BY <1>1, <1>2, CommandIs DEF GatewaySend
  <1>4. NoCommand(g) /\ NoMessage(g) /\ answer[g] = None
      BY <1>1 DEF DcInv, GwInv, OnePlace, TransferRight
  <1>5. Command(g)' = c /\ OffTile' = OffTile
      BY <1>1, <1>2 DEF Command, Servicer, OffTile
  <1>6. WayTypes /\ answer \in [Gateways -> Answers \cup {None}]
      BY DEF DcInv, DcTypes, GwTypes
  <1>7. NoMessage(g)' /\ Running(g)' = {} /\ client'[g] = None
        /\ \A h \in Gateways : Running(h)' = Running(h)
      BY <1>1, <1>4 DEF NoMessage, NoCommand, Running
  <1>8. CASE c.to \in OffTile
    <2>1. toTile' = [toTile EXCEPT ![g] = <<c>>] /\ queue' = queue
        BY <1>3, <1>4, <1>8, OneElement DEF NoCommand
    <2>2. WayTypes' /\ toTile'[g] = <<c>> /\ \A h \in Gateways \ {g} : toTile'[h] = toTile[h]
        BY <1>1, <1>6, <2>1, OneElement DEF WayTypes
    <2>3. \A h \in Gateways : Queued(h)' = Queued(h)
        BY <2>1 DEF Queued
    <2>4. OnItsWay(g)'
        BY <1>1, <1>4, <1>5, <1>7, <1>8, <2>2, <2>3 DEF OnItsWay, NoCommand
    <2> QED
        BY <1>1, <1>6, <1>7, <2>1, <2>2, <2>3, <2>4, CommandMoves
  <1>9. CASE c.to \notin OffTile
    <2>1. queue[c.to] = <<>> /\ queue' = [queue EXCEPT ![c.to] = <<c>>] /\ toTile' = toTile
        BY <1>3, <1>6, <1>9, OneElement, OneOrNone DEF WayTypes
    <2>2. /\ queue' \in [Servicers -> AtMostOne(Commands)] /\ queue'[c.to] = <<c>>
          /\ Queued(g)' = Queued(g) \cup {c.to}
          /\ \A h \in Gateways \ {g} :
                Queued(h)' = Queued(h) /\ \A t \in Queued(h) : queue'[t] = queue[t]
        BY <1>3, <2>1, QueueFilled
    <2>3. WayTypes'
        BY <1>1, <1>6, <2>1, <2>2 DEF WayTypes
    <2>4. OnItsWay(g)'
        BY <1>1, <1>4, <1>5, <1>7, <2>1, <2>2 DEF OnItsWay, NoCommand
    <2> QED
        BY <1>1, <1>6, <1>7, <2>1, <2>2, <2>3, <2>4, CommandMoves
  <1> QED
      BY <1>8, <1>9

\* A gateway whose command is somewhere waits for it.
LEMMA WaitsFor ==
    ASSUME DcInv, NEW g \in Gateways,
           toTile[g] # <<>> \/ client[g] # None \/ Queued(g) # {} \/ Running(g) # {}
    PROVE  /\ gpc[g] = "wait" /\ OnItsWay(g) /\ NoMessage(g) /\ answer[g] = None
           /\ Command(g) \in Commands /\ Command(g).gw = g /\ Command(g).to \in Servicers
           /\ Command(g) # None /\ gpc = [gpc EXCEPT ![g] = "wait"]
  <1>1. ~ NoCommand(g)
      BY DEF NoCommand
  <1>2. gpc[g] = "wait" /\ OnItsWay(g)
      BY <1>1 DEF DcInv, DcTypes, GwTypes, GwInv, OnePlace, Replied
  <1>3. gpc = [gpc EXCEPT ![g] = "wait"]
      BY <1>2 DEF DcInv, DcTypes, GwTypes
  <1> QED
      BY <1>2, <1>3, CommandIs DEF OnItsWay

\* The client thread takes the command from the port.
LEMMA ClientReceiveInv ==
    ASSUME DcInv, NEW g \in Gateways, ClientReceive(g)
    PROVE  DcInv'
  <1>1. /\ toTile[g] # <<>> /\ client' = [client EXCEPT ![g] = Head(toTile[g])]
        /\ toTile' = [toTile EXCEPT ![g] = Tail(@)]
        /\ UNCHANGED <<setup, table, servicers, req, status, xfer, left, ret>>
        /\ UNCHANGED <<gpc, gwQueue, fromTile, queue, cur, answer>>
      BY DEF ClientReceive, gwVars
  <1>2. /\ gpc[g] = "wait" /\ OnItsWay(g) /\ NoMessage(g) /\ answer[g] = None
        /\ Command(g) \in Commands /\ Command(g) # None /\ gpc = [gpc EXCEPT ![g] = "wait"]
      BY <1>1, WaitsFor
  <1>3. PICK c \in Commands : c = Command(g)
      BY <1>2
  <1>4. /\ c.to \in OffTile /\ toTile[g] = <<c>> /\ Queued(g) = {} /\ Running(g) = {}
      BY <1>1, <1>2, <1>3 DEF OnItsWay
  <1>5. /\ client' = [client EXCEPT ![g] = c] /\ toTile' = [toTile EXCEPT ![g] = <<>>]
      BY <1>1, <1>4, OneElement
  <1>6. WayTypes /\ answer \in [Gateways -> Answers \cup {None}]
      BY DEF DcInv, DcTypes, GwTypes
  <1>7. /\ WayTypes' /\ client'[g] = c /\ toTile'[g] = <<>>
        /\ \A h \in Gateways \ {g} : client'[h] = client[h] /\ toTile'[h] = toTile[h]
    <2>1. <<>> \in AtMostOne(Commands)
        BY OneElement
    <2>2. /\ client' \in [Gateways -> Commands \cup {None}] /\ client'[g] = c
          /\ \A h \in Gateways \ {g} : client'[h] = client[h]
        BY <1>5, <1>6 DEF WayTypes
    <2>3. /\ toTile' \in [Gateways -> AtMostOne(Commands)] /\ toTile'[g] = <<>>
          /\ \A h \in Gateways \ {g} : toTile'[h] = toTile[h]
        BY <1>5, <1>6, <2>1 DEF WayTypes
    <2> QED
        BY <1>1, <1>6, <2>2, <2>3 DEF WayTypes
  <1>8. Command(g)' = c /\ OffTile' = OffTile
      BY <1>1, <1>3 DEF Command, Servicer, OffTile
  <1>9. /\ \A h \in Gateways : Queued(h)' = Queued(h) /\ Running(h)' = Running(h)
        /\ NoMessage(g)'
      BY <1>1, <1>2 DEF Queued, Running, NoMessage
  <1>10. OnItsWay(g)'
      BY <1>1, <1>2, <1>4, <1>7, <1>8, <1>9 DEF OnItsWay
  <1>11. gpc' = [gpc EXCEPT ![g] = "wait"]
      BY <1>1, <1>2
  <1> QED
      BY <1>1, <1>2, <1>6, <1>7, <1>9, <1>10, <1>11, CommandMoves

\* The client thread puts the command into the queue of its servicer.
LEMMA ClientForwardInv ==
    ASSUME DcInv, NEW g \in Gateways, ClientForward(g)
    PROVE  DcInv'
  <1>1. /\ client[g] # None /\ client' = [client EXCEPT ![g] = None]
        /\ Len(queue[client[g].to]) < QueueSize
        /\ queue' = [queue EXCEPT ![client[g].to] = Append(@, client[g])]
        /\ UNCHANGED <<setup, table, servicers, req, status, xfer, left, ret>>
        /\ UNCHANGED <<gpc, gwQueue, fromTile, toTile, cur, answer>>
      BY DEF ClientForward, gwVars
  <1>2. /\ gpc[g] = "wait" /\ OnItsWay(g) /\ NoMessage(g) /\ answer[g] = None
        /\ Command(g) \in Commands /\ Command(g).gw = g /\ Command(g).to \in Servicers
        /\ gpc = [gpc EXCEPT ![g] = "wait"]
      BY <1>1, WaitsFor
  <1>3. PICK c \in Commands : c = Command(g) /\ c.gw = g /\ c.to \in Servicers
      BY <1>2
  <1>4. /\ client[g] = c /\ toTile[g] = <<>> /\ Queued(g) = {} /\ Running(g) = {}
      BY <1>1, <1>2, <1>3 DEF OnItsWay
  <1>5. WayTypes /\ answer \in [Gateways -> Answers \cup {None}]
      BY DEF DcInv, DcTypes, GwTypes
  <1>6. queue[c.to] = <<>> /\ queue' = [queue EXCEPT ![c.to] = <<c>>]
    <2>1. Len(queue[c.to]) < QueueSize /\ queue' = [queue EXCEPT ![c.to] = Append(@, c)]
        BY <1>1, <1>4
    <2>2. queue[c.to] \in AtMostOne(Commands)
        BY <1>3, <1>5 DEF WayTypes
    <2>3. queue[c.to] = <<>>
        BY <2>1, <2>2, OneOrNone
    <2> QED
        BY <2>1, <2>3, OneElement
  <1>7. /\ queue' \in [Servicers -> AtMostOne(Commands)] /\ queue'[c.to] = <<c>>
        /\ Queued(g)' = Queued(g) \cup {c.to}
        /\ \A h \in Gateways \ {g} :
              Queued(h)' = Queued(h) /\ \A t \in Queued(h) : queue'[t] = queue[t]
      BY ZenonT(60), <1>3, <1>6, QueueFilled
  <1>8. /\ WayTypes' /\ client'[g] = None
        /\ \A h \in Gateways \ {g} : client'[h] = client[h]
      BY <1>1, <1>5, <1>7 DEF WayTypes
  <1>9. Command(g)' = c /\ OffTile' = OffTile
      BY <1>1, <1>3 DEF Command, Servicer, OffTile
  <1>10. NoMessage(g)' /\ \A h \in Gateways : Running(h)' = Running(h)
      BY <1>1, <1>2 DEF Running, NoMessage
  <1>11. OnItsWay(g)'
      BY <1>1, <1>2, <1>4, <1>7, <1>8, <1>9, <1>10 DEF OnItsWay
  <1>12. gpc' = [gpc EXCEPT ![g] = "wait"]
      BY <1>1, <1>2
  <1> QED
      BY <1>1, <1>2, <1>5, <1>7, <1>8, <1>10, <1>11, <1>12, CommandMoves

\* A servicer takes the command from its queue.
LEMMA ServicerReceiveInv ==
    ASSUME DcInv, NEW s \in Servicers, ServicerReceive(s)
    PROVE  DcInv'
  <1>1. /\ cur[s] = None /\ queue[s] # <<>> /\ cur' = [cur EXCEPT ![s] = Head(queue[s])]
        /\ queue' = [queue EXCEPT ![s] = Tail(@)]
        /\ UNCHANGED <<setup, table, servicers, req, status, xfer, left, ret>>
        /\ UNCHANGED <<gpc, gwQueue, fromTile, toTile, client, answer>>
      BY DEF ServicerReceive, gwVars
  <1>2. WayTypes /\ answer \in [Gateways -> Answers \cup {None}]
      BY DEF DcInv, DcTypes, GwTypes
  <1>3. queue[s] \in AtMostOne(Commands)
      BY <1>2 DEF WayTypes
  <1>4. PICK c \in Commands : c = Head(queue[s]) /\ queue[s] = <<c>> /\ Tail(queue[s]) = <<>>
      BY <1>1, <1>3, OneOrNone
  <1>5. PICK g \in Gateways : c.gw = g
      BY DEF Commands
  <1>6. queue' = [queue EXCEPT ![s] = <<>>] /\ cur' = [cur EXCEPT ![s] = c]
      BY <1>1, <1>4
  <1>7. /\ queue' \in [Servicers -> AtMostOne(Commands)] /\ s \in Queued(g)
        /\ Queued(g)' = Queued(g) \ {s}
        /\ \A h \in Gateways \ {g} :
              Queued(h)' = Queued(h) /\ \A t \in Queued(h) : queue'[t] = queue[t]
      BY <1>4, <1>5, <1>6, QueueTaken
  <1>8. /\ cur' \in [Servicers -> Commands \cup {None}] /\ cur'[s] = c
        /\ Running(g)' = Running(g) \cup {s}
        /\ \A h \in Gateways \ {g} :
              Running(h)' = Running(h) /\ \A t \in Running(h) : cur'[t] = cur[t]
      BY <1>1, <1>5, <1>6, ServicerStarts
  <1>9. /\ gpc[g] = "wait" /\ OnItsWay(g) /\ NoMessage(g) /\ answer[g] = None
        /\ gpc = [gpc EXCEPT ![g] = "wait"]
    <2>1. Queued(g) # {}
        BY <1>7
    <2> QED
        BY <2>1, WaitsFor
  <1>10. /\ toTile[g] = <<>> /\ client[g] = None /\ Running(g) = {}
         /\ Queued(g) = {s} /\ Command(g) = c /\ c.to = s
    <2>1. /\ toTile[g] = <<>> /\ client[g] = None /\ Running(g) = {}
          /\ Queued(g) = {Command(g).to} /\ queue[Command(g).to] = <<Command(g)>>
        BY <1>7, <1>9 DEF OnItsWay
    <2>2. Command(g).to = s
        BY <1>7, <2>1
    <2>3. <<Command(g)>> = <<c>>
        BY <1>4, <2>1, <2>2
    <2> QED
        BY <2>1, <2>2, <2>3
  <1>11. WayTypes'
      BY <1>1, <1>2, <1>7, <1>8 DEF WayTypes
  <1>12. Command(g)' = c /\ OffTile' = OffTile /\ NoMessage(g)'
      BY <1>1, <1>9, <1>10 DEF Command, Servicer, OffTile, NoMessage
  <1>13. OnItsWay(g)'
    <2>1. Queued(g)' = {} /\ Running(g)' = {s}
        BY <1>7, <1>8, <1>10
    <2> QED
        BY <1>1, <1>8, <1>9, <1>10, <1>12, <2>1 DEF OnItsWay
  <1>14. gpc' = [gpc EXCEPT ![g] = "wait"]
      BY <1>1, <1>9
  <1> QED
      BY <1>1, <1>2, <1>7, <1>8, <1>9, <1>11, <1>13, <1>14, CommandMoves

\* The callback of a servicer returns and its answer is sent to the gateway of the
\* command.
LEMMA ServicerReplyInv ==
    ASSUME DcInv, NEW s \in Servicers, NEW code \in CallbackCodes, ServicerReply(s, code)
    PROVE  DcInv'
  <1>1. /\ cur[s] # None /\ cur' = [cur EXCEPT ![s] = None]
        /\ UNCHANGED <<setup, table, servicers, req, status, xfer, left, ret>>
        /\ UNCHANGED <<gpc, queue, toTile, client>>
      BY DEF ServicerReply, gwVars
  <1>2. WayTypes /\ answer \in [Gateways -> Answers \cup {None}]
      BY DEF DcInv, DcTypes, GwTypes
  <1>3. PICK c \in Commands : cur[s] = c
      BY <1>1, <1>2 DEF WayTypes
  <1>4. PICK g \in Gateways : c.gw = g
      BY DEF Commands
  <1>5. /\ cur' \in [Servicers -> Commands \cup {None}] /\ s \in Running(g)
        /\ Running(g)' = Running(g) \ {s}
        /\ \A h \in Gateways \ {g} :
              Running(h)' = Running(h) /\ \A t \in Running(h) : cur'[t] = cur[t]
      BY <1>1, <1>3, <1>4, ServicerEnds
  <1>6. /\ gpc[g] = "wait" /\ OnItsWay(g) /\ NoMessage(g)
        /\ gpc = [gpc EXCEPT ![g] = "wait"]
    <2>1. Running(g) # {}
        BY <1>5
    <2> QED
        BY <2>1, WaitsFor
  <1>7. /\ toTile[g] = <<>> /\ client[g] = None /\ Queued(g) = {}
        /\ Running(g) = {s} /\ Command(g) = c /\ c.to = s
      BY <1>3, <1>5, <1>6 DEF OnItsWay
  <1>8. PICK a \in Answers : a = [by |-> s, resid |-> c.resid, cmd |-> c.cmd, code |-> code]
      BY DEF Answers, Commands
  <1>9. /\ answer' = [answer EXCEPT ![g] = a] /\ a # None
        /\ a.by = s /\ a.resid = c.resid /\ a.cmd = c.cmd /\ a.code = code
      BY <1>3, <1>4, <1>8, DeviceControlAssumption DEF ServicerReply
  <1>10. PICK m \in Messages : m = RetMsg(code)
      BY MessagesDiffer
  <1>11. /\ s \in OffTile => fromTile' = [fromTile EXCEPT ![g] = Append(@, m)] /\ gwQueue' = gwQueue
         /\ s \notin OffTile => gwQueue' = [gwQueue EXCEPT ![g] = Append(@, m)] /\ fromTile' = fromTile
      BY <1>3, <1>4, <1>10 DEF ServicerReply
  <1>12. /\ fromTile' \in [Gateways -> Seq(Messages)] /\ gwQueue' \in [Gateways -> AtMostOne(Messages)]
         /\ s \in OffTile => fromTile'[g] = <<m>> /\ gwQueue'[g] = <<>>
         /\ s \notin OffTile => fromTile'[g] = <<>> /\ gwQueue'[g] = <<m>>
         /\ \A h \in Gateways \ {g} : fromTile'[h] = fromTile[h] /\ gwQueue'[h] = gwQueue[h]
    <2>1. /\ fromTile[g] = <<>> /\ gwQueue[g] = <<>> /\ Append(<<>>, m) = <<m>>
          /\ <<m>> \in Seq(Messages) /\ <<m>> \in AtMostOne(Messages)
        BY <1>6, OneElement DEF NoMessage
    <2>2. CASE s \in OffTile
      <3>1. fromTile' = [fromTile EXCEPT ![g] = <<m>>] /\ gwQueue' = gwQueue
          BY <1>11, <2>1, <2>2
      <3> QED
          BY <1>2, <2>1, <2>2, <3>1 DEF WayTypes
    <2>3. CASE s \notin OffTile
      <3>1. gwQueue' = [gwQueue EXCEPT ![g] = <<m>>] /\ fromTile' = fromTile
          BY <1>11, <2>1, <2>3
      <3> QED
          BY <1>2, <2>1, <2>3, <3>1 DEF WayTypes
    <2> QED
        BY <2>2, <2>3
  <1>13. /\ answer' \in [Gateways -> Answers \cup {None}] /\ answer'[g] = a
         /\ \A h \in Gateways \ {g} : answer'[h] = answer[h]
      BY <1>2, <1>9
  <1>14. WayTypes'
      BY <1>1, <1>2, <1>5, <1>12 DEF WayTypes
  <1>15. Command(g)' = c /\ OffTile' = OffTile
      BY <1>1, <1>7 DEF Command, Servicer, OffTile
  <1>16. \A h \in Gateways : Queued(h)' = Queued(h)
      BY <1>1 DEF Queued
  <1>17. Replied(g)'
    <2>1. NoCommand(g)'
        BY <1>1, <1>5, <1>7, <1>16 DEF NoCommand
    <2> QED
        BY <1>7, <1>9, <1>10, <1>12, <1>13, <1>15, <2>1 DEF Replied
  <1>18. gpc' = [gpc EXCEPT ![g] = "wait"]
      BY <1>1, <1>6
  <1> QED
      BY <1>1, <1>5, <1>6, <1>12, <1>13, <1>14, <1>16, <1>17, <1>18, CommandMoves

\* do_command has the answer: the transfer is over.
LEMMA GatewayReceiveInv ==
    ASSUME DcInv, NEW g \in Gateways, GatewayReceive(g)
    PROVE  DcInv'
  <1>1. gpc[g] = "wait"
      BY DEF GatewayReceive
  <1>2. DcTypes
      BY DEF DcInv
  <1>3. Command(g).to = Servicer(g, req[g].resid)
        /\ Command(g).resid = req[g].resid /\ Command(g).cmd = req[g].cmd
      BY <1>1, CommandIs
  <1>4. Replied(g)
    <2>1. gwQueue[g] # <<>> \/ fromTile[g] # <<>>
        BY DEF GatewayReceive
    <2>2. ~ NoMessage(g)
        BY <2>1 DEF NoMessage
    <2> QED
        BY <1>1, <2>2 DEF DcInv, GwInv, OnePlace, OnItsWay
  <1>5. PICK a \in Answers : answer[g] = a /\ a.code \in CallbackCodes
      BY <1>2, <1>4 DEF Replied, DcTypes, GwTypes, Answers
  <1>6. PICK m \in Messages : m = RetMsg(a.code) /\ m.code = a.code
      BY <1>5, MessagesDiffer
  <1>7. /\ a.by = Command(g).to /\ a.resid = req[g].resid /\ a.cmd = req[g].cmd
        /\ NoCommand(g) /\ a # None
        /\ Command(g).to \in OffTile => gwQueue[g] = <<>> /\ fromTile[g] = <<m>>
        /\ Command(g).to \notin OffTile => gwQueue[g] = <<m>> /\ fromTile[g] = <<>>
      BY <1>3, <1>4, <1>5, <1>6 DEF Replied
  <1>8. /\ Finish(g, a.code)
        /\ gwQueue' = [gwQueue EXCEPT ![g] = <<>>] /\ fromTile' = [fromTile EXCEPT ![g] = <<>>]
    <2>1. Head(<<m>>) = m /\ Tail(<<m>>) = <<>>
        BY OneElement
    <2>2. gwQueue \in [Gateways -> AtMostOne(Messages)] /\ fromTile \in [Gateways -> Seq(Messages)]
        BY <1>2 DEF DcTypes, WayTypes
    <2>3. CASE Command(g).to \in OffTile
        BY <1>6, <1>7, <2>1, <2>2, <2>3 DEF GatewayReceive
    <2>4. CASE Command(g).to \notin OffTile
        BY <1>6, <1>7, <2>1, <2>2, <2>4 DEF GatewayReceive
    <2> QED
        BY <2>3, <2>4
  <1>9. /\ gpc' = [gpc EXCEPT ![g] = "idle"] /\ ret' = [ret EXCEPT ![g] = a.code]
        /\ xfer' = [xfer EXCEPT ![g] = None]
        /\ status' = [status EXCEPT ![g] = IF xfer[g] = "read" THEN status[g] ELSE a.code]
        /\ UNCHANGED <<setup, table, servicers, req, toTile, client, left, queue, cur, answer>>
      BY <1>8 DEF Finish, gwVars
  <1>10. /\ gpc'[g] = "idle" /\ ret'[g] = a.code /\ answer'[g] = a
         /\ status'[g] = IF xfer[g] = "read" THEN status[g] ELSE a.code
         /\ status'[g] \in CallbackCodes \cup LibraryCodes
      BY <1>2, <1>5, <1>9 DEF DcTypes, GwTypes
  <1>11. GwTypes'
      BY <1>2, <1>5, <1>9, <1>10 DEF DcTypes, GwTypes
  <1>12. /\ WayTypes' /\ gwQueue'[g] = <<>> /\ fromTile'[g] = <<>>
         /\ \A h \in Gateways \ {g} : gwQueue'[h] = gwQueue[h] /\ fromTile'[h] = fromTile[h]
    <2>1. <<>> \in AtMostOne(Messages) /\ <<>> \in Seq(Messages)
        BY OneElement
    <2> QED
        BY <1>2, <1>8, <1>9, <2>1 DEF DcTypes, WayTypes
  <1>13. DcTypes' /\ LeftOnce'
      BY <1>2, <1>9, <1>11, <1>12 DEF DcInv, DcTypes, LeftOnce
  <1>14. OffTile' = OffTile /\ claims' = claims /\ transport' = transport
         /\ Servicer(g, req[g].resid)' = Servicer(g, req[g].resid)
      BY <1>9 DEF OffTile, claims, transport, Servicer
  <1>15. GwInv(g)'
    <2>1. RegisteredOnce(g) /\ TableRight(g) /\ TransferRight(g) /\ Active(g)
        BY <1>1 DEF DcInv, GwInv, Active
    <2>2. RegisteredOnce(g)'
      <3>1. \A s \in Servicers : gwQueue'[g] # <<InitMsg(s)>>
          BY <1>12
      <3>2. Len(fromTile'[g]) = 0
          BY <1>12, EmptySeq
      <3>3. \A s \in Servicers : /\ Registered(s, g)' = Registered(s, g)
                                 /\ Registers(s, g)' = Registers(s, g) /\ ~ Announced(s, g)'
          BY <1>9, <3>1, <3>2 DEF Registered, Registers, Announced
      <3> QED
          BY <1>9, <1>14, <2>1, <3>1, <3>2, <3>3 DEF RegisteredOnce
    <2>3. TableRight(g)'
        BY <1>9, <1>10, <1>14, <2>1 DEF TableRight, Active
    <2>4. OnePlace(g)'
      <3>1. NoCommand(g)' /\ NoMessage(g)'
          BY <1>7, <1>9, <1>12 DEF NoCommand, NoMessage, Queued, Running
      <3> QED
          BY <1>10, <3>1 DEF OnePlace
    <2>5. TransferRight(g)'
      <3>1. a.code # None
          BY <1>5, DeviceControlAssumption
      <3>2. /\ table[g][req[g].resid] # None
            /\ req[g].cmd = "write" \/ transport[g] = "spi" => xfer[g] # "read"
          BY <1>1, <2>1 DEF TransferRight
      <3> QED
          BY <1>3, <1>7, <1>9, <1>10, <1>14, <3>1, <3>2 DEF TransferRight
    <2> QED
        BY <2>2, <2>3, <2>4, <2>5 DEF GwInv
  <1>16. ASSUME NEW h \in Gateways \ {g} PROVE GwInv(h)'
    <2>1. /\ gpc'[h] = gpc[h] /\ status'[h] = status[h] /\ xfer'[h] = xfer[h]
          /\ ret'[h] = ret[h]
        BY <1>2, <1>9 DEF DcTypes, GwTypes
    <2>2. Queued(h)' = Queued(h) /\ Running(h)' = Running(h)
        BY <1>9 DEF Queued, Running
    <2>3. \A s \in Servicers : Registers(s, h)' = Registers(s, h)
        BY <1>9 DEF Registers
    <2> QED
        BY <1>9, <1>12, <2>1, <2>2, <2>3, GwSame
  <1> QED
      BY <1>13, <1>15, <1>16 DEF DcInv

-----------------------------------------------------------------------------
(***************************************************************************)
(* Registration.                                                           *)
(***************************************************************************)

\* A servicer goes on to the next of the instances that it was given.
LEMMA LeftTail ==
    ASSUME DcInv, NEW s \in Servicers, left[s] # <<>>,
           left' = [left EXCEPT ![s] = Tail(left[s])]
    PROVE  /\ \E g \in Gateways : g = Head(left[s]) /\ Registers(s, g) /\ ~ Registers(s, g)'
           /\ left' \in [Servicers -> Seq(Gateways)] /\ LeftOnce'
           /\ \A t \in Servicers, h \in Gateways : Registers(t, h)' => Registers(t, h)
  <1>1. left \in [Servicers -> Seq(Gateways)] /\ LeftOnce
      BY DEF DcInv, DcTypes, WayTypes
  <1>2. /\ left[s] \in Seq(Gateways) /\ Len(left[s]) \in Nat /\ Len(left[s]) >= 1
        /\ Head(left[s]) = left[s][1] /\ Head(left[s]) \in Gateways
        /\ Tail(left[s]) \in Seq(Gateways) /\ Len(Tail(left[s])) = Len(left[s]) - 1
        /\ \A i \in 1..Len(Tail(left[s])) : Tail(left[s])[i] = left[s][i + 1]
    <2>1. left[s] \in Seq(Gateways)
        BY <1>1
    <2> HIDE DEF DcInv
    <2> QED
        BY <2>1
  <1>3. left'[s] = Tail(left[s]) /\ \A t \in Servicers \ {s} : left'[t] = left[t]
      BY <1>1
  <1>4. PICK g \in Gateways : g = Head(left[s]) /\ g = left[s][1] /\ Registers(s, g)
      BY <1>2 DEF Registers
  <1>5. ~ Registers(s, g)'
    <2>1. ASSUME NEW i \in 1..Len(Tail(left[s])), Tail(left[s])[i] = g PROVE FALSE
      <3>1. i + 1 \in 1..Len(left[s]) /\ 1 \in 1..Len(left[s]) /\ i + 1 # 1
          BY <1>2
      <3>2. left[s][i + 1] = left[s][1]
          BY <1>2, <1>4, <2>1
      <3> QED
          BY <1>1, <3>1, <3>2 DEF LeftOnce
    <2> QED
        BY <1>2, <1>3, <2>1 DEF Registers
  <1>6. LeftOnce'
    <2>1. ASSUME NEW i \in 1..Len(Tail(left[s])), NEW j \in 1..Len(Tail(left[s])),
                 Tail(left[s])[i] = Tail(left[s])[j]
          PROVE  i = j
      <3>1. i + 1 \in 1..Len(left[s]) /\ j + 1 \in 1..Len(left[s])
          BY <1>2
      <3>2. left[s][i + 1] = left[s][j + 1]
          BY <1>2, <2>1
      <3>3. i + 1 = j + 1
          BY <1>1, <3>1, <3>2 DEF LeftOnce
      <3> QED
          BY <3>3
    <2> QED
        BY <1>1, <1>3, <2>1 DEF LeftOnce
  <1>7. ASSUME NEW t \in Servicers, NEW h \in Gateways, Registers(t, h)' PROVE Registers(t, h)
    <2>1. CASE t = s
      <3>1. PICK i \in 1..Len(Tail(left[s])) : Tail(left[s])[i] = h
          BY <1>3, <1>7, <2>1 DEF Registers
      <3>2. i + 1 \in 1..Len(left[s]) /\ left[s][i + 1] = h
          BY <1>2, <3>1
      <3> QED
          BY <2>1, <3>2 DEF Registers
    <2>2. CASE t # s
        BY <1>3, <1>7, <2>2 DEF Registers
    <2> QED
        BY <2>1, <2>2
  <1> QED
      BY <1>1, <1>2, <1>3, <1>4, <1>5, <1>6, <1>7

\* A servicer announces itself to the next of its instances.
LEMMA ServicerRegisterInv ==
    ASSUME DcInv, NEW s \in Servicers, ServicerRegister(s)
    PROVE  DcInv'
  <1>1. PICK g \in Gateways : g = Head(left[s]) /\ Registers(s, g) /\ ~ Registers(s, g)'
      BY LeftTail DEF ServicerRegister
  <1>2. /\ left' \in [Servicers -> Seq(Gateways)] /\ LeftOnce'
        /\ \A t \in Servicers, h \in Gateways : Registers(t, h)' => Registers(t, h)
      BY LeftTail DEF ServicerRegister
  <1>3. PICK m \in Messages : m = InitMsg(s) /\ m.kind = "init"
      BY MessagesDiffer
  <1>4. \A t \in Servicers : InitMsg(t) = m <=> t = s
      BY <1>3 DEF InitMsg
  <1>5. DcTypes /\ GwTypes /\ WayTypes
      BY DEF DcInv, DcTypes
  <1>6. /\ RegisteredOnce(g) /\ TableRight(g) /\ OnePlace(g) /\ TransferRight(g)
        /\ ~ Registered(s, g) /\ ~ Announced(s, g) /\ ~ Active(g)
      BY <1>1, AllRegistered DEF DcInv, GwInv, RegisteredOnce
  <1>7. gpc[g] \in {"registering", "failed"}
      BY <1>5, <1>6 DEF GwTypes, Active
  <1>8. UNCHANGED <<setup, table, servicers, gpc, req, status, xfer, toTile, client,
                    queue, cur, ret, answer>>
      BY DEF ServicerRegister, gwVars
  <1>9. CASE s \in OffTile
    <2>1. fromTile' = [fromTile EXCEPT ![g] = Append(fromTile[g], m)] /\ gwQueue' = gwQueue
        BY <1>1, <1>3, <1>9 DEF ServicerRegister
    <2>2. fromTile \in [Gateways -> Seq(Messages)] /\ fromTile[g] \in Seq(Messages)
        BY <1>5 DEF WayTypes
    <2>3. /\ fromTile'[g] = Append(fromTile[g], m)
          /\ \A h \in Gateways \ {g} : fromTile'[h] = fromTile[h]
          /\ fromTile' \in [Gateways -> Seq(Messages)]
        BY <2>1, <2>2
    <2>4. PICK n \in Nat : n = Len(fromTile[g])
        BY <2>2
    <2>5. /\ Len(fromTile'[g]) = n + 1 /\ fromTile'[g][n + 1] = m
          /\ \A i \in 1..n : fromTile'[g][i] = fromTile[g][i]
        BY <2>2, <2>3, <2>4
    <2>6. \A i \in 1..(n + 1) : i \in 1..n \/ i = n + 1
        OBVIOUS
    <2>7. \A i \in 1..n : fromTile[g][i] # m
        BY <1>3, <1>6, <2>4 DEF Announced
    <2>8. RegisteredOnce(g)'
      <3>1. OffTile' = OffTile
          BY <1>8 DEF OffTile
      <3>2. \A t \in Servicers :
               /\ Registered(t, g)' = Registered(t, g)
               /\ Announced(t, g)' => Announced(t, g) \/ t = s
        <4>1. ASSUME NEW t \in Servicers, Announced(t, g)' PROVE Announced(t, g) \/ t = s
          <5>1. CASE gwQueue'[g] = <<InitMsg(t)>>
              BY <2>1, <5>1 DEF Announced
          <5>2. ASSUME NEW i \in 1..Len(fromTile'[g]), fromTile'[g][i] = InitMsg(t)
                PROVE  Announced(t, g) \/ t = s
              BY <1>4, <2>4, <2>5, <2>6, <5>2 DEF Announced
          <5> QED
              BY <4>1, <5>1, <5>2 DEF Announced
        <4> QED
            BY <1>8, <4>1 DEF Registered
      <3>3. \A t \in Servicers : \A i, j \in 1..Len(fromTile'[g]) :
               fromTile'[g][i] = InitMsg(t) /\ fromTile'[g][j] = InitMsg(t) => i = j
          BY <1>4, <1>6, <2>4, <2>5, <2>6, <2>7 DEF RegisteredOnce
      <3>4. \A t \in Servicers :
               (\E i \in 1..Len(fromTile'[g]) : fromTile'[g][i] = InitMsg(t)) => t \in OffTile
          BY <1>4, <1>6, <1>9, <2>4, <2>5, <2>6 DEF RegisteredOnce
      <3>5. ~ Active(g)'
          BY <1>6, <1>8 DEF Active
      <3>6. \A t \in Servicers :
               /\ Registered(t, g)' => ~ Announced(t, g)' /\ ~ Registers(t, g)'
               /\ Announced(t, g)' => ~ Registers(t, g)'
          BY <1>1, <1>2, <1>6, <3>2 DEF RegisteredOnce
      <3> QED
          BY <1>6, <1>8, <2>1, <3>1, <3>3, <3>4, <3>5, <3>6 DEF RegisteredOnce
    <2>9. OnePlace(g)'
      <3>1. NoCommand(g)'
          BY <1>6, <1>7, <1>8 DEF OnePlace, NoCommand, Queued, Running
      <3>2. \A i \in 1..Len(fromTile'[g]) : fromTile'[g][i].kind = "init"
          BY <1>3, <1>6, <1>7, <2>4, <2>5, <2>6 DEF OnePlace
      <3> QED
          BY <1>6, <1>7, <1>8, <2>1, <3>1, <3>2 DEF OnePlace
    <2>10. DcTypes'
        BY <1>2, <1>5, <1>8, <2>1, <2>3 DEF DcTypes, GwTypes, WayTypes
    <2>11. TableRight(g)' /\ TransferRight(g)'
        BY <1>6, <1>8 DEF TableRight, TransferRight, claims, transport, Servicer
    <2>12. ASSUME NEW h \in Gateways \ {g} PROVE GwInv(h)'
      <3>1. Queued(h)' = Queued(h) /\ Running(h)' = Running(h)
          BY <1>8 DEF Queued, Running
      <3> QED
          BY <1>2, <1>8, <2>1, <2>3, <3>1, GwSame
    <2> QED
        BY <1>2, <2>8, <2>9, <2>10, <2>11, <2>12 DEF DcInv, GwInv
  <1>10. CASE s \notin OffTile
    <2>1. /\ Len(gwQueue[g]) < QueueSize /\ fromTile' = fromTile
          /\ gwQueue' = [gwQueue EXCEPT ![g] = Append(gwQueue[g], m)]
        BY <1>1, <1>3, <1>10 DEF ServicerRegister
    <2>2. gwQueue \in [Gateways -> AtMostOne(Messages)] /\ gwQueue[g] \in AtMostOne(Messages)
        BY <1>5 DEF WayTypes
    <2>3. gwQueue[g] = <<>>
        BY <2>1, <2>2, OneOrNone
    <2>4. Append(gwQueue[g], m) = <<m>> /\ <<m>> \in AtMostOne(Messages) /\ Len(<<m>>) = 1 /\ <<m>>[1] = m
        BY <2>3, OneElement
    <2>5. /\ gwQueue'[g] = <<m>>
          /\ \A h \in Gateways \ {g} : gwQueue'[h] = gwQueue[h]
          /\ gwQueue' \in [Gateways -> AtMostOne(Messages)]
        BY <2>1, <2>2, <2>4
    <2>6. \A t \in Servicers : gwQueue'[g] = <<InitMsg(t)>> <=> t = s
        BY <1>3, <1>4, <2>4, <2>5, OneElement, MessagesDiffer
    <2>7. RegisteredOnce(g)'
      <3>1. OffTile' = OffTile
          BY <1>8 DEF OffTile
      <3>2. \A t \in Servicers :
               /\ Registered(t, g)' = Registered(t, g)
               /\ Announced(t, g)' => Announced(t, g) \/ t = s
          BY <1>8, <2>1, <2>6 DEF Registered, Announced
      <3>5. ~ Active(g)'
          BY <1>6, <1>8 DEF Active
      <3>6. \A t \in Servicers :
               /\ Registered(t, g)' => ~ Announced(t, g)' /\ ~ Registers(t, g)'
               /\ Announced(t, g)' => ~ Registers(t, g)'
          BY <1>1, <1>2, <1>6, <3>2 DEF RegisteredOnce
      <3> QED
          BY <1>6, <1>8, <1>10, <2>1, <2>6, <3>1, <3>5, <3>6 DEF RegisteredOnce
    <2>8. OnePlace(g)'
      <3>1. NoCommand(g)'
          BY <1>6, <1>7, <1>8 DEF OnePlace, NoCommand, Queued, Running
      <3>2. \A i \in 1..Len(gwQueue'[g]) : gwQueue'[g][i].kind = "init"
          BY <1>3, <2>4, <2>5
      <3> QED
          BY <1>6, <1>7, <1>8, <2>1, <3>1, <3>2 DEF OnePlace
    <2>9. DcTypes'
        BY <1>2, <1>5, <1>8, <2>1, <2>5 DEF DcTypes, GwTypes, WayTypes
    <2>10. TableRight(g)' /\ TransferRight(g)'
        BY <1>6, <1>8 DEF TableRight, TransferRight, claims, transport, Servicer
    <2>11. ASSUME NEW h \in Gateways \ {g} PROVE GwInv(h)'
      <3>1. Queued(h)' = Queued(h) /\ Running(h)' = Running(h)
          BY <1>8 DEF Queued, Running
      <3> QED
          BY <1>2, <1>8, <2>1, <2>5, <3>1, GwSame
    <2> QED
        BY <1>2, <2>7, <2>8, <2>9, <2>10, <2>11 DEF DcInv, GwInv
  <1> QED
      BY <1>9, <1>10

\* resource_table_add, when it succeeds: the resources were free, and lead to the
\* new index now.
LEMMA AddedAll ==
    ASSUME NEW t, NEW rs \in Seq(Resources), NEW n
    PROVE  /\ \A r \in Resources : TableWith(t, rs, n)[r] \in {n, t[r]}
           /\ AddSucceeds(t, rs) =>
                /\ Special \notin RangeOf(rs)
                /\ \A r \in RangeOf(rs) : t[r] = None
                /\ \A r \in Resources :
                      TableWith(t, rs, n)[r] = IF r \in RangeOf(rs) THEN n ELSE t[r]
  <1>1. \A r \in Resources : TableWith(t, rs, n)[r] \in {n, t[r]}
      BY DEF TableWith
  <1>2. DOMAIN rs = 1..Len(rs) /\ Len(rs) \in Nat
      BY LenProperties
  <1>3. ASSUME AddSucceeds(t, rs), NEW i \in 1..Len(rs)
        PROVE  rs[i] # Special /\ t[rs[i]] = None
    <2>1. i \in Added(t, rs) /\ i \in 1..i
        BY <1>2, <1>3 DEF AddSucceeds
    <2> QED
        BY <2>1 DEF Added
  <1>4. ASSUME AddSucceeds(t, rs), NEW r \in Resources
        PROVE  TableWith(t, rs, n)[r] = IF r \in RangeOf(rs) THEN n ELSE t[r]
    <2>1. (\E i \in Added(t, rs) : rs[i] = r) <=> r \in RangeOf(rs)
        BY <1>2, <1>4 DEF AddSucceeds, RangeOf
    <2> QED
        BY <2>1 DEF TableWith
  <1> QED
      BY <1>1, <1>2, <1>3, <1>4 DEF RangeOf

\* A gateway registers a servicer whose announcement it takes out.
LEMMA RegisterInv ==
    ASSUME DcInv, NEW g \in Gateways, NEW s \in Servicers, gpc[g] = "registering",
           Register(g, s), Announced(s, g), ~ Announced(s, g)',
           \A t \in Servicers :
              /\ Announced(t, g)' => Announced(t, g)
              /\ \A i, j \in 1..Len(fromTile'[g]) :
                    fromTile'[g][i] = InitMsg(t) /\ fromTile'[g][j] = InitMsg(t) => i = j,
           gwQueue' \in [Gateways -> AtMostOne(Messages)],
           fromTile' \in [Gateways -> Seq(Messages)],
           \A i \in 1..Len(gwQueue'[g]) : gwQueue'[g][i].kind = "init",
           \A i \in 1..Len(fromTile'[g]) : fromTile'[g][i].kind = "init",
           \A h \in Gateways \ {g} : gwQueue'[h] = gwQueue[h] /\ fromTile'[h] = fromTile[h],
           \A t \in Servicers :
              /\ gwQueue'[g] = <<InitMsg(t)>> => t \notin OffTile
              /\ (\E i \in 1..Len(fromTile'[g]) : fromTile'[g][i] = InitMsg(t)) => t \in OffTile,
           UNCHANGED <<setup, req, status, xfer, toTile, client, left, queue, cur, ret, answer>>
    PROVE  DcInv'
  <1>1. /\ setup \in SetupType /\ GwTypes /\ WayTypes
        /\ RegisteredOnce(g) /\ TableRight(g) /\ OnePlace(g) /\ TransferRight(g)
      BY DEF DcInv, DcTypes, GwInv
  <1>2. ~ Registered(s, g) /\ ~ Registers(s, g)
      BY <1>1 DEF RegisteredOnce
  <1>3. PICK q \in Seq(Servicers), n \in Nat, cs \in Seq(Resources) :
          q = servicers[g] /\ n = Len(q) /\ cs = claims[s]
    <2>1. claims[s] \in Seq(Resources)
        BY <1>1 DEF SetupType, claims
    <2> QED
        BY <1>1, <2>1, LenProperties DEF GwTypes
  <1>4. \A i \in 1..n : q[i] \in Servicers /\ q[i] # s
      BY <1>2, <1>3, ElementOfSeq DEF Registered
  <1>5. /\ Append(q, s) \in Seq(Servicers) /\ Len(Append(q, s)) = n + 1 /\ Append(q, s)[n + 1] = s
        /\ \A i \in 1..n : Append(q, s)[i] = q[i]
        /\ \A i \in 1..(n + 1) : i \in 1..n \/ i = n + 1
    <2>1. \A i \in 1..(n + 1) : i \in 1..n \/ i = n + 1
        OBVIOUS
    <2>2. Len(q) = n
        BY <1>3
    <2> QED
        BY ONLY <2>1, <2>2, q \in Seq(Servicers), s \in Servicers
  <1>6. /\ servicers' = [servicers EXCEPT ![g] = Append(q, s)]
        /\ table' = [table EXCEPT ![g] = TableWith(table[g], cs, n + 1)]
        /\ gpc' = [gpc EXCEPT ![g] =
                     IF ~AddSucceeds(table[g], cs) THEN "failed"
                     ELSE IF n + 1 = Cardinality(Servicers) THEN "idle" ELSE "registering"]
      BY <1>3 DEF Register
  <1>7. /\ servicers'[g] = Append(q, s) /\ table'[g] = TableWith(table[g], cs, n + 1)
        /\ gpc'[g] \in {"failed", "idle", "registering"}
        /\ gpc'[g] # "failed" => AddSucceeds(table[g], cs)
        /\ gpc'[g] = "idle" => n + 1 = Cardinality(Servicers)
        /\ \A h \in Gateways \ {g} :
              servicers'[h] = servicers[h] /\ table'[h] = table[h] /\ gpc'[h] = gpc[h]
      BY <1>1, <1>6 DEF GwTypes
  <1>8. OffTile' = OffTile /\ claims' = claims /\ transport' = transport
      BY DEF OffTile, claims, transport
  <1>9. RegisteredOnce(g)'
    <2>1. \A i, j \in 1..Len(servicers'[g]) : servicers'[g][i] = servicers'[g][j] => i = j
      <3>1. \A i, j \in 1..n : q[i] = q[j] => i = j
          BY <1>1, <1>3 DEF RegisteredOnce
      <3>2. /\ Len(servicers'[g]) = n + 1 /\ servicers'[g][n + 1] = s
            /\ \A i \in 1..n : servicers'[g][i] = q[i]
          BY <1>5, <1>7
      <3>3. ASSUME NEW i \in 1..(n + 1), NEW j \in 1..(n + 1),
                   servicers'[g][i] = servicers'[g][j]
            PROVE  i = j
        <4>1. (i \in 1..n \/ i = n + 1) /\ (j \in 1..n \/ j = n + 1)
            BY <1>5
        <4>2. CASE i \in 1..n /\ j \in 1..n
            BY <3>1, <3>2, <3>3, <4>2
        <4>3. CASE i = n + 1 /\ j \in 1..n
            BY <1>4, <3>2, <3>3, <4>3
        <4>4. CASE i \in 1..n /\ j = n + 1
            BY <1>4, <3>2, <3>3, <4>4
        <4> QED
            BY <4>1, <4>2, <4>3, <4>4
      <3> QED
          BY <3>2, <3>3
    <2>2. \A t \in Servicers : Registers(t, g)' = Registers(t, g)
        BY DEF Registers
    <2>3. \A t \in Servicers : Registered(t, g)' => Registered(t, g) \/ t = s
        BY <1>3, <1>5, <1>7 DEF Registered
    <2>4. ASSUME NEW t \in Servicers
          PROVE  /\ Registered(t, g)' => ~ Announced(t, g)' /\ ~ Registers(t, g)'
                 /\ Announced(t, g)' => ~ Registers(t, g)'
        BY <1>1, <1>2, <2>2, <2>3 DEF RegisteredOnce
    <2>5. Active(g)' => Len(servicers'[g]) = Cardinality(Servicers)
        BY <1>5, <1>7 DEF Active
    <2>6. \A t \in Servicers : \A i, j \in 1..Len(fromTile'[g]) :
             fromTile'[g][i] = InitMsg(t) /\ fromTile'[g][j] = InitMsg(t) => i = j
        OBVIOUS
    <2> QED
        BY <1>8, <2>1, <2>4, <2>5, <2>6 DEF RegisteredOnce
  <1>10. TableRight(g)'
    <2>1. \A r \in Resources : table[g][r] \in (1..n) \cup {None}
        BY <1>1, <1>3 DEF TableRight
    <2>2. \A r \in Resources : table'[g][r] \in (1..(n + 1)) \cup {None}
      <3>1. n + 1 \in 1..(n + 1) /\ 1..n \subseteq 1..(n + 1)
          BY <1>3
      <3>2. \A r \in Resources : table'[g][r] \in {n + 1, table[g][r]}
          BY <1>7, AddedAll
      <3> QED
          BY <2>1, <3>1, <3>2
    <2>3. ASSUME gpc'[g] # "failed"
          PROVE  /\ table'[g][Special] = None
                 /\ \A r \in Resources :
                       table'[g][r] # None
                         <=> \E i \in 1..(n + 1) : r \in RangeOf(claims[servicers'[g][i]])
                 /\ \A i \in 1..(n + 1) :
                       \A r \in RangeOf(claims[servicers'[g][i]]) : table'[g][r] = i
      <3>1. /\ Special \notin RangeOf(cs)
            /\ \A r \in RangeOf(cs) : table[g][r] = None
            /\ \A r \in Resources : table'[g][r] = IF r \in RangeOf(cs) THEN n + 1 ELSE table[g][r]
          BY <1>3, <1>7, <2>3, AddedAll
      <3>2. /\ table[g][Special] = None
            /\ \A r \in Resources :
                  table[g][r] # None <=> \E i \in 1..n : r \in RangeOf(claims[q[i]])
            /\ \A i \in 1..n : \A r \in RangeOf(claims[q[i]]) : table[g][r] = i
          BY <1>1, <1>3 DEF TableRight
      <3>3. \A i \in 1..n : servicers'[g][i] = q[i] /\ i # None
          BY <1>5, <1>7, DeviceControlAssumption
      <3>4. n + 1 \in 1..(n + 1) /\ n + 1 # None /\ \A i \in 1..n : i \in 1..(n + 1)
          BY <1>3, DeviceControlAssumption
      <3>5. claims[servicers'[g][n + 1]] = cs
          BY <1>3, <1>5, <1>7
      <3>6. \A t \in Servicers : RangeOf(claims[t]) \subseteq Resources
        <4>1. \A t \in Servicers : claims[t] \in Seq(Resources)
            BY <1>1 DEF SetupType, claims
        <4> QED
            BY <4>1, LenProperties, ElementOfSeq DEF RangeOf
      <3>7. table'[g][Special] = None
          BY <3>1, <3>2, DeviceControlAssumption
      <3>8. ASSUME NEW r \in Resources
            PROVE  table'[g][r] # None
                     <=> \E i \in 1..(n + 1) : r \in RangeOf(claims[servicers'[g][i]])
        <4>1. CASE r \in RangeOf(cs)
            BY <3>1, <3>4, <3>5, <4>1
        <4>2. CASE r \notin RangeOf(cs)
            BY ZenonT(60), <1>5, <3>1, <3>2, <3>3, <3>4, <3>5, <4>2
        <4> QED
            BY <4>1, <4>2
      <3>9. ASSUME NEW i \in 1..(n + 1), NEW r \in RangeOf(claims[servicers'[g][i]])
            PROVE  table'[g][r] = i
        <4>1. CASE i \in 1..n
          <5>1. r \in RangeOf(claims[q[i]]) /\ q[i] \in Servicers
              BY <1>4, <3>3, <4>1
          <5>2. table[g][r] = i /\ r \notin RangeOf(cs) /\ r \in Resources
              BY <3>1, <3>2, <3>3, <3>6, <4>1, <5>1
          <5> QED
              BY <3>1, <5>2
        <4>2. CASE i = n + 1
          <5>1. r \in RangeOf(cs) /\ r \in Resources
              BY <1>3, <3>5, <3>6, <4>2
          <5> QED
              BY <3>1, <4>2, <5>1
        <4> QED
            BY <1>5, <4>1, <4>2
      <3> QED
          BY <3>7, <3>8, <3>9
    <2>4. Len(servicers'[g]) = n + 1
        BY <1>5, <1>7
    <2> QED
        BY <1>8, <2>2, <2>3, <2>4 DEF TableRight
  <1>11. OnePlace(g)'
    <2>1. NoCommand(g)'
        BY <1>1 DEF OnePlace, NoCommand, Queued, Running
    <2>2. ASSUME gpc'[g] = "idle" PROVE NoMessage(g)'
      <3>1. \A t \in Servicers : Registered(t, g)'
        <4>1. PICK all \in Seq(Servicers) : all = servicers'[g] /\ Len(all) = Cardinality(Servicers)
            BY <1>5, <1>7, <2>2
        <4>2. \A i, j \in 1..Len(all) : all[i] = all[j] => i = j
            BY <1>9, <4>1 DEF RegisteredOnce
        <4>3. \A t \in Servicers : \E i \in 1..Len(all) : all[i] = t
          <5>1. IsFiniteSet(Servicers)
              BY DeviceControlAssumption
          <5> QED
              BY ONLY <4>1, <4>2, <5>1, AllTaken
        <4> QED
            BY <4>1, <4>3 DEF Registered
      <3>2. \A t \in Servicers : ~ Announced(t, g)'
          BY <1>9, <3>1 DEF RegisteredOnce
      <3>3. ASSUME gwQueue'[g] # <<>> PROVE FALSE
        <4>1. PICK e \in Messages : gwQueue'[g] = <<e>>
            BY <3>3 DEF AtMostOne
        <4>2. e.kind = "init"
          <5>1. Len(<<e>>) = 1 /\ <<e>>[1] = e
              OBVIOUS
          <5> QED
              BY <4>1, <5>1
        <4> QED
            BY <3>2, <4>1, <4>2, MessagesDiffer DEF Announced
      <3>4. ASSUME fromTile'[g] # <<>> PROVE FALSE
        <4>1. PICK f \in Seq(Messages) : f = fromTile'[g] /\ f # <<>>
            BY <3>4
        <4>2. 1 \in 1..Len(f) /\ f[1] \in Messages
          <5>1. Len(f) \in Nat /\ Len(f) # 0
              BY <4>1, EmptySeq, LenProperties
          <5>2. 1 \in 1..Len(f)
              BY <5>1
          <5> QED
              BY <4>1, <5>2, ElementOfSeq
        <4>3. f[1].kind = "init"
            BY <4>1, <4>2
        <4> QED
            BY <3>2, <4>1, <4>2, <4>3, MessagesDiffer DEF Announced
      <3> QED
          BY <3>3, <3>4 DEF NoMessage
    <2> QED
        BY <1>7, <2>1, <2>2 DEF OnePlace
  <1>12. TransferRight(g)'
    <2>1. ret[g] = None /\ answer[g] = None
        BY <1>1 DEF TransferRight
    <2> QED
        BY <1>7, <2>1 DEF TransferRight
  <1>13. DcTypes' /\ LeftOnce'
    <2>1. GwTypes'
      <3>1. Append(q, s) \in Seq(Servicers)
          BY <1>5
      <3>2. TableWith(table[g], cs, n + 1) \in [Resources -> Nat \cup {None}]
        <4>1. TableWith(table[g], cs, n + 1) = [r \in Resources |-> TableWith(table[g], cs, n + 1)[r]]
            BY DEF TableWith
        <4>2. \A r \in Resources : TableWith(table[g], cs, n + 1)[r] \in Nat \cup {None}
          <5>1. \A r \in Resources : table[g][r] \in Nat \cup {None}
              BY <1>1 DEF GwTypes
          <5>2. \A r \in Resources : TableWith(table[g], cs, n + 1)[r] \in {n + 1, table[g][r]}
              BY AddedAll
          <5> QED
              BY <5>1, <5>2
        <4> QED
            BY <4>1, <4>2
      <3> QED
          BY <1>1, <1>6, <3>1, <3>2 DEF GwTypes
    <2>2. WayTypes'
        BY <1>1 DEF WayTypes
    <2> QED
        BY <1>1, <2>1, <2>2 DEF DcInv, DcTypes, LeftOnce
  <1>14. ASSUME NEW h \in Gateways \ {g} PROVE GwInv(h)'
    <2>1. Queued(h)' = Queued(h) /\ Running(h)' = Running(h)
        BY DEF Queued, Running
    <2>2. \A t \in Servicers : Registers(t, h)' = Registers(t, h)
        BY DEF Registers
    <2> QED
        BY <1>7, <2>1, <2>2, GwSame
  <1> QED
      BY <1>9, <1>10, <1>11, <1>12, <1>13, <1>14 DEF DcInv, GwInv

\* The gateway takes an announcement out of its queue.
LEMMA RegisterOnTileInv ==
    ASSUME DcInv, NEW g \in Gateways, RegisterOnTile(g)
    PROVE  DcInv'
  <1>1. /\ GwTypes /\ WayTypes /\ RegisteredOnce(g) /\ OnePlace(g)
        /\ gpc[g] = "registering" /\ gwQueue[g] # <<>>
      BY DEF DcInv, DcTypes, GwInv, RegisterOnTile
  <1>2. PICK m \in Messages : gwQueue[g] = <<m>> /\ m = Head(gwQueue[g]) /\ Tail(gwQueue[g]) = <<>>
      BY <1>1, OneOrNone DEF WayTypes
  <1>3. m.kind = "init"
    <2>1. Len(<<m>>) = 1 /\ <<m>>[1] = m
        OBVIOUS
    <2> QED
        BY <1>1, <1>2, <2>1 DEF OnePlace
  <1>4. PICK s \in Servicers : s = m.servicer /\ m = InitMsg(s)
      BY <1>3, MessagesDiffer
  <1>5. /\ Register(g, s)
        /\ gwQueue' = [gwQueue EXCEPT ![g] = <<>>]
        /\ UNCHANGED <<setup, req, status, xfer, toTile, fromTile, client, left, queue, cur, ret, answer>>
      BY <1>2, <1>4 DEF RegisterOnTile
  <1>6. /\ gwQueue'[g] = <<>> /\ gwQueue' \in [Gateways -> AtMostOne(Messages)]
        /\ \A h \in Gateways \ {g} : gwQueue'[h] = gwQueue[h]
    <2>1. <<>> \in AtMostOne(Messages)
        BY OneElement
    <2> QED
        BY <1>1, <1>5, <2>1 DEF WayTypes
  <1>7. fromTile' = fromTile /\ fromTile' \in [Gateways -> Seq(Messages)]
      BY <1>1, <1>5 DEF WayTypes
  <1>8. \A t \in Servicers : gwQueue'[g] # <<InitMsg(t)>>
      BY <1>6
  <1>9. Announced(s, g) /\ ~ Announced(s, g)'
    <2>1. \A i \in 1..Len(fromTile[g]) : fromTile[g][i] # InitMsg(s)
        BY <1>1, <1>2, <1>4 DEF RegisteredOnce
    <2> QED
        BY <1>2, <1>4, <1>7, <1>8, <2>1 DEF Announced
  <1>10. \A i \in 1..Len(gwQueue'[g]) : gwQueue'[g][i].kind = "init"
      BY <1>6, EmptySeq
  <1>11. \A i \in 1..Len(fromTile'[g]) : fromTile'[g][i].kind = "init"
      BY <1>1, <1>7 DEF OnePlace
  <1>12. ASSUME NEW t \in Servicers
         PROVE  /\ Announced(t, g)' => Announced(t, g)
                /\ \A i, j \in 1..Len(fromTile'[g]) :
                      fromTile'[g][i] = InitMsg(t) /\ fromTile'[g][j] = InitMsg(t) => i = j
      BY <1>1, <1>7, <1>8 DEF RegisteredOnce, Announced
  <1>13. ASSUME NEW t \in Servicers
         PROVE  /\ gwQueue'[g] = <<InitMsg(t)>> => t \notin OffTile
                /\ (\E i \in 1..Len(fromTile'[g]) : fromTile'[g][i] = InitMsg(t)) => t \in OffTile
      BY <1>1, <1>7, <1>8 DEF RegisteredOnce
  <1> QED
      BY <1>1, <1>5, <1>6, <1>7, <1>9, <1>10, <1>11, <1>12, <1>13, RegisterInv

\* The gateway takes an announcement out of its intertile port.
LEMMA RegisterOffTileInv ==
    ASSUME DcInv, NEW g \in Gateways, RegisterOffTile(g)
    PROVE  DcInv'
  <1>1. /\ GwTypes /\ WayTypes /\ RegisteredOnce(g) /\ OnePlace(g)
        /\ gpc[g] = "registering" /\ fromTile[g] # <<>>
      BY DEF DcInv, DcTypes, GwInv, RegisterOffTile
  <1>2. PICK f \in Seq(Messages) : f = fromTile[g] /\ f # <<>>
      BY <1>1 DEF WayTypes
  <1>3. /\ Len(f) \in Nat /\ Len(f) >= 1 /\ Head(f) = f[1] /\ Head(f) \in Messages
        /\ Tail(f) \in Seq(Messages) /\ Len(Tail(f)) = Len(f) - 1
        /\ \A i \in 1..Len(Tail(f)) : Tail(f)[i] = f[i + 1]
      BY <1>2
  <1>4. 1 \in 1..Len(f) /\ \A i \in 1..Len(Tail(f)) : i + 1 \in 1..Len(f) /\ i + 1 # 1
      BY <1>3
  <1>5. f[1].kind = "init"
      BY <1>1, <1>2, <1>4 DEF OnePlace
  <1>6. PICK s \in Servicers : s = f[1].servicer /\ f[1] = InitMsg(s)
      BY <1>3, <1>5, MessagesDiffer
  <1>7. /\ Register(g, s)
        /\ fromTile' = [fromTile EXCEPT ![g] = Tail(f)]
        /\ UNCHANGED <<setup, req, status, xfer, toTile, gwQueue, client, left, queue, cur, ret, answer>>
      BY <1>2, <1>3, <1>6 DEF RegisterOffTile
  <1>8. /\ fromTile'[g] = Tail(f) /\ fromTile' \in [Gateways -> Seq(Messages)]
        /\ \A h \in Gateways \ {g} : fromTile'[h] = fromTile[h]
      BY <1>1, <1>3, <1>7 DEF WayTypes
  <1>9. gwQueue' = gwQueue /\ gwQueue' \in [Gateways -> AtMostOne(Messages)]
      BY <1>1, <1>7 DEF WayTypes
  <1>10. ASSUME NEW t \in Servicers
         PROVE  \A i, j \in 1..Len(f) : f[i] = InitMsg(t) /\ f[j] = InitMsg(t) => i = j
      BY <1>1, <1>2 DEF RegisteredOnce
  <1>11. Announced(s, g) /\ ~ Announced(s, g)'
    <2>1. gwQueue[g] # <<InitMsg(s)>>
        BY <1>1, <1>2, <1>4, <1>6 DEF RegisteredOnce
    <2>2. \A i \in 1..Len(Tail(f)) : Tail(f)[i] # InitMsg(s)
        BY <1>3, <1>4, <1>6, <1>10
    <2> QED
        BY <1>2, <1>4, <1>6, <1>8, <1>9, <2>1, <2>2 DEF Announced
  <1>12. \A i \in 1..Len(gwQueue'[g]) : gwQueue'[g][i].kind = "init"
      BY <1>1, <1>9 DEF OnePlace
  <1>13. \A i \in 1..Len(fromTile'[g]) : fromTile'[g][i].kind = "init"
      BY <1>1, <1>2, <1>3, <1>4, <1>8 DEF OnePlace
  <1>14. ASSUME NEW t \in Servicers
         PROVE  /\ Announced(t, g)' => Announced(t, g)
                /\ \A i, j \in 1..Len(fromTile'[g]) :
                      fromTile'[g][i] = InitMsg(t) /\ fromTile'[g][j] = InitMsg(t) => i = j
    <2>1. Announced(t, g)' => Announced(t, g)
        BY <1>2, <1>3, <1>4, <1>8, <1>9 DEF Announced
    <2>2. ASSUME NEW i \in 1..Len(Tail(f)), NEW j \in 1..Len(Tail(f)),
                 Tail(f)[i] = InitMsg(t), Tail(f)[j] = InitMsg(t)
          PROVE  i = j
      <3>1. i + 1 = j + 1
          BY <1>3, <1>4, <1>10, <2>2
      <3> QED
          BY <3>1
    <2> QED
        BY <1>8, <2>1, <2>2
  <1>15. ASSUME NEW t \in Servicers
         PROVE  /\ gwQueue'[g] = <<InitMsg(t)>> => t \notin OffTile
                /\ (\E i \in 1..Len(fromTile'[g]) : fromTile'[g][i] = InitMsg(t)) => t \in OffTile
      BY <1>1, <1>2, <1>3, <1>4, <1>8, <1>9 DEF RegisteredOnce
  <1> QED
      BY <1>1, <1>7, <1>8, <1>9, <1>11, <1>12, <1>13, <1>14, <1>15, RegisterInv

\* The time for registration is up.
LEMMA RegisterTimeoutInv ==
    ASSUME DcInv, NEW g \in Gateways, RegisterTimeout(g)
    PROVE  DcInv'
  <1>1. /\ setup \in SetupType /\ GwTypes /\ WayTypes /\ LeftOnce
        /\ RegisteredOnce(g) /\ TableRight(g) /\ OnePlace(g) /\ TransferRight(g)
        /\ gpc[g] = "registering"
      BY DEF DcInv, DcTypes, GwInv, RegisterTimeout
  <1>2. /\ gpc' = [gpc EXCEPT ![g] = "failed"]
        /\ UNCHANGED <<setup, table, servicers, req, status, xfer, gwQueue, toTile, fromTile,
                       client, left, queue, cur, ret, answer>>
      BY DEF RegisterTimeout, gwVars
  <1>3. gpc'[g] = "failed" /\ \A h \in Gateways \ {g} : gpc'[h] = gpc[h]
      BY <1>1, <1>2 DEF GwTypes
  <1>4. DcTypes' /\ LeftOnce'
    <2>1. GwTypes'
        BY <1>1, <1>2 DEF GwTypes
    <2> QED
        BY <1>1, <1>2, <2>1 DEF DcTypes, WayTypes, LeftOnce
  <1>5. GwInv(g)'
    <2>1. OffTile' = OffTile
        BY <1>2 DEF OffTile
    <2>2. RegisteredOnce(g)'
        BY <1>1, <1>2, <1>3, <2>1 DEF RegisteredOnce, Active, Registered, Announced, Registers
    <2>3. TableRight(g)'
        BY <1>1, <1>2, <1>3 DEF TableRight
    <2>4. OnePlace(g)'
        BY <1>1, <1>2, <1>3 DEF OnePlace, NoCommand, Queued, Running
    <2>5. TransferRight(g)'
        BY <1>1, <1>2, <1>3 DEF TransferRight
    <2> QED
        BY <2>2, <2>3, <2>4, <2>5 DEF GwInv
  <1>6. ASSUME NEW h \in Gateways \ {g} PROVE GwInv(h)'
    <2>1. Queued(h)' = Queued(h) /\ Running(h)' = Running(h)
        BY <1>2 DEF Queued, Running
    <2>2. \A t \in Servicers : Registers(t, h)' = Registers(t, h)
        BY <1>2 DEF Registers
    <2> QED
        BY <1>2, <1>3, <2>1, <2>2, GwSame
  <1> QED
      BY <1>4, <1>5, <1>6 DEF DcInv

-----------------------------------------------------------------------------
(***************************************************************************)
(* The invariant holds.                                                    *)
(***************************************************************************)

\* It holds when the device is started.
LEMMA InitInv == ASSUME OrderOnce, Init PROVE DcInv
  <1>1. setup \in SetupType /\ left = Order /\ Order \in [Servicers -> Seq(Gateways)]
      BY DeviceControlAssumption DEF Init
  <1>2. <<>> \in AtMostOne(Messages) /\ <<>> \in AtMostOne(Commands)
        /\ <<>> \in Seq(Messages) /\ <<>> \in Seq(Servicers) /\ Len(<<>>) = 0
      BY DEF AtMostOne
  <1>3. DcTypes
    <2>1. GwTypes
        BY <1>2, DeviceControlAssumption DEF Init, GwTypes, Cmds, CallbackCodes
    <2>2. WayTypes
        BY <1>1, <1>2 DEF Init, WayTypes
    <2> QED
        BY <1>1, <2>1, <2>2 DEF DcTypes
  <1>4. LeftOnce
      BY <1>1 DEF OrderOnce, LeftOnce
  <1>5. ASSUME NEW g \in Gateways PROVE GwInv(g)
    <2>1. /\ gpc[g] = "registering" /\ table[g] = [r \in Resources |-> None]
          /\ servicers[g] = <<>> /\ ret[g] = None /\ answer[g] = None
          /\ gwQueue[g] = <<>> /\ fromTile[g] = <<>> /\ toTile[g] = <<>> /\ client[g] = None
          /\ \A s \in Servicers : queue[s] = <<>> /\ cur[s] = None
        BY DEF Init
    <2>2. Len(gwQueue[g]) = 0 /\ Len(fromTile[g]) = 0 /\ Len(servicers[g]) = 0
        BY <1>2, <2>1
    <2>3. ~ Active(g) /\ \A s \in Servicers : ~ Registered(s, g) /\ ~ Announced(s, g)
      <3>1. \A s \in Servicers : gwQueue[g] # <<InitMsg(s)>>
          BY <2>1
      <3> QED
          BY <2>1, <2>2, <3>1 DEF Active, Registered, Announced
    <2>4. RegisteredOnce(g)
        BY <2>1, <2>2, <2>3 DEF RegisteredOnce, Announced
    <2>5. TableRight(g)
        BY <2>1, <2>2, DeviceControlAssumption DEF TableRight
    <2>6. OnePlace(g)
        BY <2>1, <2>2 DEF OnePlace, NoCommand, Queued, Running
    <2>7. TransferRight(g)
        BY <2>1 DEF TransferRight
    <2> QED
        BY <2>4, <2>5, <2>6, <2>7 DEF GwInv
  <1> QED
      BY <1>3, <1>4, <1>5 DEF DcInv

\* Nothing happens.
LEMMA StutterInv == ASSUME DcInv, UNCHANGED vars PROVE DcInv'
  <1>1. UNCHANGED <<setup, gpc, table, servicers, req, status, xfer, gwQueue,
                    toTile, fromTile, client, left, queue, cur, ret, answer>>
      BY DEF vars
  <1>2. DcTypes' /\ LeftOnce'
      BY <1>1 DEF DcInv, DcTypes, GwTypes, WayTypes, LeftOnce
  <1>3. ASSUME NEW g \in Gateways PROVE GwInv(g)'
    <2>1. Queued(g)' = Queued(g) /\ Running(g)' = Running(g)
        BY <1>1 DEF Queued, Running
    <2>2. \A t \in Servicers : Registers(t, g)' = Registers(t, g)
        BY <1>1 DEF Registers
    <2> QED
        BY <1>1, <2>1, <2>2, GwSame
  <1> QED
      BY <1>2, <1>3 DEF DcInv

\* Every step keeps it.
LEMMA StepInv == ASSUME DcInv, [Next]_vars PROVE DcInv'
  <1>1. ASSUME NEW g \in Gateways, RegisterOnTile(g) PROVE DcInv'
      BY <1>1, RegisterOnTileInv
  <1>2. ASSUME NEW g \in Gateways, RegisterOffTile(g) PROVE DcInv'
      BY <1>2, RegisterOffTileInv
  <1>3. ASSUME NEW g \in Gateways, RegisterTimeout(g) PROVE DcInv'
      BY <1>3, RegisterTimeoutInv
  <1>4. ASSUME NEW g \in Gateways, Host(g) PROVE DcInv'
      BY <1>4, HostInv
  <1>5. ASSUME NEW g \in Gateways, GatewaySend(g) PROVE DcInv'
      BY <1>5, GatewaySendInv
  <1>6. ASSUME NEW g \in Gateways, GatewayReceive(g) PROVE DcInv'
      BY <1>6, GatewayReceiveInv
  <1>7. ASSUME NEW g \in Gateways, ClientReceive(g) PROVE DcInv'
      BY <1>7, ClientReceiveInv
  <1>8. ASSUME NEW g \in Gateways, ClientForward(g) PROVE DcInv'
      BY <1>8, ClientForwardInv
  <1>9. ASSUME NEW s \in Servicers, ServicerRegister(s) PROVE DcInv'
      BY <1>9, ServicerRegisterInv
  <1>10. ASSUME NEW s \in Servicers, ServicerReceive(s) PROVE DcInv'
      BY <1>10, ServicerReceiveInv
  <1>11. ASSUME NEW s \in Servicers, NEW code \in CallbackCodes, ServicerReply(s, code) PROVE DcInv'
      BY <1>11, ServicerReplyInv
  <1>12. CASE Halted \/ UNCHANGED vars
      BY <1>12, StutterInv DEF Halted
  <1> QED
      BY <1>1, <1>2, <1>3, <1>4, <1>5, <1>6, <1>7, <1>8, <1>9, <1>10, <1>11, <1>12 DEF Next

LEMMA DcInvHolds == ASSUME OrderOnce PROVE Spec => []DcInv
  <1>1. Init => DcInv
      BY InitInv
  <1>2. DcInv /\ [Next]_vars => DcInv'
      BY StepInv
  <1> QED
      BY <1>1, <1>2, PTL DEF Spec

-----------------------------------------------------------------------------
(***************************************************************************)
(* What follows from it.                                                   *)
(***************************************************************************)

\* A servicer on the gateway's tile that executes a command finds the queue of
\* the gateway empty when it answers: what its assertion expects.
THEOREM ReplyNeverBlocks == ASSUME OrderOnce PROVE Spec => []QueueEmptyAtReply
  <1>1. ASSUME DcInv PROVE QueueEmptyAtReply
    <2>1. ASSUME NEW s \in Servicers, cur[s] # None PROVE gwQueue[cur[s].gw] = <<>>
      <3>1. PICK c \in Commands : c = cur[s] /\ c.gw \in Gateways
          BY <1>1, <2>1 DEF DcInv, DcTypes, WayTypes, Commands
      <3>2. s \in Running(c.gw)
          BY <2>1, <3>1 DEF Running
      <3>3. NoMessage(c.gw)
          BY <1>1, <3>1, <3>2, WaitsFor
      <3> QED
          BY <3>1, <3>3 DEF NoMessage
    <2> QED
        BY <2>1 DEF QueueEmptyAtReply
  <1> QED
      BY <1>1, DcInvHolds, PTL

\* When a gateway serves commands its table leads from every resource to the
\* servicer that claims it, and has no other resource.
THEOREM RegistrationIsExact == ASSUME OrderOnce PROVE Spec => []RegisteredExactly
  <1>1. ASSUME DcInv PROVE RegisteredExactly
    <2>1. ASSUME NEW g \in Gateways, gpc[g] \notin {"registering", "failed"}, NEW r \in Resources
          PROVE  /\ table[g][r] # None <=> \E s \in Servicers : r \in RangeOf(claims[s])
                 /\ \A s \in Servicers : r \in RangeOf(claims[s]) => Servicer(g, r) = s
      <3>1. /\ Active(g) /\ TableRight(g) /\ servicers[g] \in Seq(Servicers)
          BY <1>1, <2>1 DEF DcInv, DcTypes, GwTypes, GwInv, Active
      <3>2. ASSUME NEW s \in Servicers
            PROVE  \E i \in 1..Len(servicers[g]) : servicers[g][i] = s
          BY <1>1, <3>1, AllRegistered DEF Registered
      <3>3. \A i \in 1..Len(servicers[g]) : servicers[g][i] \in Servicers
          BY <3>1, ElementOfSeq
      <3>4. /\ table[g][r] # None
                 <=> \E i \in 1..Len(servicers[g]) : r \in RangeOf(claims[servicers[g][i]])
            /\ \A i \in 1..Len(servicers[g]) :
                  r \in RangeOf(claims[servicers[g][i]]) => table[g][r] = i
          BY <2>1, <3>1 DEF TableRight
      <3> QED
          BY <3>2, <3>3, <3>4 DEF Servicer
    <2> QED
        BY <2>1 DEF RegisteredExactly
  <1> QED
      BY <1>1, DcInvHolds, PTL

\* The code that a transfer ends with is the one that the servicer of the
\* requested resource returned for this very command, also when two gateways
\* share the servicer.
THEOREM ReplyIsForMe == ASSUME OrderOnce PROVE Spec => []ReplyIsMine
  <1>1. ASSUME DcInv PROVE ReplyIsMine
    <2>1. ASSUME NEW g \in Gateways, gpc[g] = "idle"
          PROVE  /\ ret[g] # None <=> answer[g] # None
                 /\ answer[g] # None =>
                       /\ answer[g].code = ret[g]
                       /\ answer[g].resid = req[g].resid /\ answer[g].cmd = req[g].cmd
                       /\ req[g].resid \in RangeOf(claims[answer[g].by])
                       /\ (answer[g].cmd = "write" \/ transport[g] = "spi") => status[g] = ret[g]
      <3>1. TransferRight(g) /\ TableRight(g) /\ req[g] \in [resid : Resources, cmd : Cmds]
          BY <1>1 DEF DcInv, DcTypes, GwTypes, GwInv
      <3>2. ASSUME answer[g] # None PROVE req[g].resid \in RangeOf(claims[answer[g].by])
        <4>1. PICK r \in Resources : r = req[g].resid
            BY <3>1
        <4>2. table[g][r] # None /\ answer[g].by = servicers[g][table[g][r]]
            BY <2>1, <3>1, <3>2, <4>1 DEF TransferRight, Servicer
        <4>3. PICK i \in 1..Len(servicers[g]) : r \in RangeOf(claims[servicers[g][i]])
            BY <2>1, <3>1, <4>2 DEF TableRight
        <4>4. table[g][r] = i
            BY <2>1, <3>1, <4>3 DEF TableRight
        <4> QED
            BY <4>1, <4>2, <4>3, <4>4
      <3> QED
          BY <2>1, <3>1, <3>2 DEF TransferRight
    <2> QED
        BY <2>1 DEF ReplyIsMine
  <1> QED
      BY <1>1, DcInvHolds, PTL

\* The servicers whose queues hold a command of g.
LEMMA QueuedAre ==
    ASSUME DcInv, NEW g \in Gateways
    PROVE  {s \in Servicers : \E c \in RangeOf(queue[s]) : c.gw = g} = Queued(g)
  <1>1. ASSUME NEW s \in Servicers
        PROVE  (\E c \in RangeOf(queue[s]) : c.gw = g) <=> queue[s] # <<>> /\ queue[s][1].gw = g
    <2>1. queue[s] \in AtMostOne(Commands)
        BY DEF DcInv, DcTypes, WayTypes
    <2>2. CASE queue[s] = <<>>
      <3>1. RangeOf(queue[s]) = {}
          BY <2>2 DEF RangeOf
      <3> QED
          BY <2>2, <3>1
    <2>3. ASSUME NEW c \in Commands, queue[s] = <<c>>
          PROVE  (\E d \in RangeOf(queue[s]) : d.gw = g) <=> queue[s] # <<>> /\ queue[s][1].gw = g
      <3>1. DOMAIN <<c>> = {1} /\ <<c>>[1] = c /\ <<c>> # <<>>
          OBVIOUS
      <3>2. RangeOf(queue[s]) = {c}
          BY <2>3, <3>1 DEF RangeOf
      <3> QED
          BY <2>3, <3>1, <3>2
    <2> QED
        BY <2>1, <2>2, <2>3 DEF AtMostOne
  <1> QED
      BY <1>1 DEF Queued

\* The answers among the messages of a queue or a port that holds announcements,
\* nothing, or one answer.
LEMMA Returned ==
    ASSUME NEW f \in Seq(Messages)
    PROVE  /\ (\A i \in 1..Len(f) : f[i].kind = "init") =>
                 Cardinality({i \in DOMAIN f : f[i].kind = "ret"}) = 0
           /\ f = <<>> => Cardinality({i \in DOMAIN f : f[i].kind = "ret"}) = 0
           /\ \A c \in CallbackCodes :
                 f = <<RetMsg(c)>> => Cardinality({i \in DOMAIN f : f[i].kind = "ret"}) = 1
  <1>1. DOMAIN f = 1..Len(f)
      BY LenProperties
  <1>2. ASSUME \A i \in 1..Len(f) : f[i].kind = "init"
        PROVE  Cardinality({i \in DOMAIN f : f[i].kind = "ret"}) = 0
    <2>1. {i \in DOMAIN f : f[i].kind = "ret"} = {}
        BY <1>1, <1>2
    <2> QED
        BY <2>1, FS_EmptySet
  <1>3. ASSUME f = <<>> PROVE Cardinality({i \in DOMAIN f : f[i].kind = "ret"}) = 0
    <2>1. {i \in DOMAIN f : f[i].kind = "ret"} = {}
        BY <1>3
    <2> QED
        BY <2>1, FS_EmptySet
  <1>4. ASSUME NEW c \in CallbackCodes, f = <<RetMsg(c)>>
        PROVE  Cardinality({i \in DOMAIN f : f[i].kind = "ret"}) = 1
    <2>1. DOMAIN f = {1} /\ f[1] = RetMsg(c) /\ RetMsg(c).kind = "ret"
        BY <1>4, MessagesDiffer
    <2>2. {i \in DOMAIN f : f[i].kind = "ret"} = {1}
        BY <2>1
    <2> QED
        BY <2>2, FS_Singleton
  <1> QED
      BY <1>2, <1>3, <1>4

\* While do_command waits its command, or the answer, is in exactly one place, and
\* outside do_command in none: nothing is lost, executed twice or answered late.
THEOREM CommandInOnePlace == ASSUME OrderOnce PROVE Spec => []OneInFlight
  <1>1. ASSUME DcInv PROVE OneInFlight
    <2>1. ASSUME NEW g \in Gateways PROVE InFlight(g) = IF gpc[g] = "wait" THEN 1 ELSE 0
      <3> DEFINE ts == Cardinality({i \in DOMAIN toTile[g] : toTile[g][i].gw = g})
                 cl == Cardinality({c \in {client[g]} : c # None})
                 qu == Cardinality(Queued(g))
                 ru == Cardinality(Running(g))
                 gq == Cardinality({i \in DOMAIN gwQueue[g] : gwQueue[g][i].kind = "ret"})
                 ft == Cardinality({i \in DOMAIN fromTile[g] : fromTile[g][i].kind = "ret"})
      <3>1. InFlight(g) = ts + cl + qu + ru + gq + ft
          BY <1>1, QueuedAre DEF InFlight, Running
      <3>2. /\ OnePlace(g) /\ toTile[g] \in AtMostOne(Commands) /\ fromTile[g] \in Seq(Messages)
            /\ gwQueue[g] \in Seq(Messages) /\ answer[g] \in Answers \cup {None}
            /\ gpc[g] \in {"registering", "failed", "idle", "data", "send", "wait"}
        <4>1. gwQueue[g] \in AtMostOne(Messages)
            BY <1>1 DEF DcInv, DcTypes, WayTypes
        <4> QED
            BY <1>1, <4>1, OneOrNone DEF DcInv, DcTypes, GwTypes, WayTypes, GwInv
      <3>3. /\ toTile[g] = <<>> => ts = 0
            /\ client[g] = None => cl = 0
            /\ Queued(g) = {} => qu = 0
            /\ Running(g) = {} => ru = 0
        <4>1. toTile[g] = <<>> => {i \in DOMAIN toTile[g] : toTile[g][i].gw = g} = {}
            OBVIOUS
        <4>2. client[g] = None => {c \in {client[g]} : c # None} = {}
            OBVIOUS
        <4> QED
            BY <4>1, <4>2, FS_EmptySet
      <3>4. /\ NoMessage(g) => gq = 0 /\ ft = 0
            /\ (\A i \in 1..Len(gwQueue[g]) : gwQueue[g][i].kind = "init") => gq = 0
            /\ (\A i \in 1..Len(fromTile[g]) : fromTile[g][i].kind = "init") => ft = 0
          BY <3>2, Returned DEF NoMessage
      <3>5. ASSUME gpc[g] = "wait", OnItsWay(g) PROVE ts + cl + qu + ru + gq + ft = 1
        <4>1. PICK c \in Commands : c = Command(g) /\ c.gw = g /\ c # None
            BY <1>1, <3>5, CommandIs
        <4>2. gq = 0 /\ ft = 0
            BY <3>4, <3>5 DEF OnItsWay
        <4>3. toTile[g] = <<c>> => ts = 1
          <5>1. toTile[g] = <<c>> => {i \in DOMAIN toTile[g] : toTile[g][i].gw = g} = {1}
            <6>1. DOMAIN <<c>> = {1} /\ <<c>>[1] = c
                OBVIOUS
            <6> QED
                BY <4>1, <6>1
          <5> QED
              BY <5>1, FS_Singleton
        <4>4. client[g] = c => cl = 1
          <5>1. client[g] = c => {d \in {client[g]} : d # None} = {c}
              BY <4>1
          <5> QED
              BY <5>1, FS_Singleton
        <4>5. (Queued(g) = {c.to} => qu = 1) /\ (Running(g) = {c.to} => ru = 1)
            BY FS_Singleton
        <4>6. \/ ts = 1 /\ cl = 0 /\ qu = 0 /\ ru = 0
              \/ ts = 0 /\ cl = 1 /\ qu = 0 /\ ru = 0
              \/ ts = 0 /\ cl = 0 /\ qu = 1 /\ ru = 0
              \/ ts = 0 /\ cl = 0 /\ qu = 0 /\ ru = 1
          <5> HIDE DEF ts, cl, qu, ru
          <5> QED
              BY <3>3, <3>5, <4>1, <4>3, <4>4, <4>5 DEF OnItsWay
        <4> HIDE DEF ts, cl, qu, ru, gq, ft
        <4> QED
            BY <4>2, <4>6
      <3>6. ASSUME gpc[g] = "wait", Replied(g) PROVE ts + cl + qu + ru + gq + ft = 1
        <4>1. answer[g] \in Answers /\ answer[g].code \in CallbackCodes
            BY <3>2, <3>6 DEF Replied, Answers
        <4>2. ts = 0 /\ cl = 0 /\ qu = 0 /\ ru = 0
            BY <3>3, <3>6 DEF Replied, NoCommand
        <4>3. \/ gwQueue[g] = <<>> /\ fromTile[g] = <<RetMsg(answer[g].code)>>
              \/ gwQueue[g] = <<RetMsg(answer[g].code)>> /\ fromTile[g] = <<>>
            BY <3>6 DEF Replied
        <4>4. (gq = 0 /\ ft = 1) \/ (gq = 1 /\ ft = 0)
            BY <3>2, <4>1, <4>3, Returned
        <4> HIDE DEF ts, cl, qu, ru, gq, ft
        <4> QED
            BY <4>2, <4>4
      <3>7. ASSUME gpc[g] # "wait" PROVE ts + cl + qu + ru + gq + ft = 0
        <4>1. ts = 0 /\ cl = 0 /\ qu = 0 /\ ru = 0
            BY <3>2, <3>3, <3>7 DEF OnePlace, NoCommand
        <4>2. gq = 0 /\ ft = 0
            BY <3>2, <3>4, <3>7 DEF OnePlace
        <4> HIDE DEF ts, cl, qu, ru, gq, ft
        <4> QED
            BY <4>1, <4>2
      <3> HIDE DEF ts, cl, qu, ru, gq, ft
      <3> QED
          BY <3>1, <3>2, <3>5, <3>6, <3>7 DEF OnePlace
    <2> QED
        BY <2>1 DEF OneInFlight
  <1> QED
      BY <1>1, DcInvHolds, PTL
=============================================================================
