--------------------------- MODULE DeviceControl ---------------------------
(***************************************************************************)
(* The device control service (sw_services/device_control).  A gateway is  *)
(* a device_control_t on the tile of its transport (I2C, SPI or USB); the  *)
(* transport's task receives commands from a host and has them executed by *)
(* the servicer that registered the command's resource.  A servicer has a  *)
(* queue of one command, which all gateways share, and is on the gateways' *)
(* tile or on another one.  Commands for another tile, the registrations   *)
(* and the answers from there go through a port of the intertile link, for *)
(* which PortChannel says what may be relied on: a FIFO of messages.       *)
(*                                                                         *)
(* Payloads are left out but for two facts about their lengths: whether    *)
(* the bytes of a write suffice (fits) and whether a read of the special   *)
(* resource has the size it must have (sized).                             *)
(***************************************************************************)
EXTENDS Naturals, Sequences, FiniteSets

CONSTANTS
    Gateways,    \* the device control instances, seen from their host tile
    Servicers,   \* the servicers, which register with every gateway
    Resources,   \* resource ids
    Special,     \* CONTROL_SPECIAL_RESID
    Order,       \* Order[s]: the array of instances s registers with
    Setups,      \* what an application may choose, see SetupType
    None         \* no servicer, no command, no answer

\* The transport of each gateway, the servicers that are on the other tile,
\* and the resources that each servicer registers.
SetupType ==
    [transport : [Gateways -> {"i2c", "spi", "usb"}],
     offTile : SUBSET Servicers,
     claims : [Servicers -> Seq(Resources)]]

Cmds == {"write", "read"}

\* What a servicer's callback may return, and what the library itself returns.
CallbackCodes == {"SUCCESS", "SERVICER_ERROR"}
LibraryCodes == {"SUCCESS", "BAD_COMMAND", "DATA_LENGTH_ERROR", "BAD_RESOURCE",
                 "MALFORMED_PACKET"}

\* A command on its way to a servicer, and what the servicer did with it.
Commands == [gw : Gateways, resid : Resources, cmd : Cmds, to : Servicers]
Answers == [by : Servicers, resid : Resources, cmd : Cmds, code : CallbackCodes]

ASSUME DeviceControlAssumption ==
    /\ IsFiniteSet(Servicers)
    /\ Special \in Resources
    /\ \A u \in Setups : u \in SetupType
    /\ Order \in [Servicers -> Seq(Gateways)]
    /\ None \notin Servicers \cup Nat \cup Commands \cup Answers \cup CallbackCodes

VARIABLES
    setup,       \* the application's choice
    gpc,         \* where the transport's task of a gateway is
    table,       \* resource_table of each gateway
    servicers,   \* servicer_table of each gateway, in the order of registration
    req,         \* requested_resid and requested_cmd of each gateway
    status,      \* last_status of each gateway
    xfer,        \* the transfer function a gateway's task is in
    gwQueue,     \* gateway_queue of each gateway
    toTile,      \* intertile messages to the client thread of each gateway
    fromTile,    \* intertile messages to each gateway
    client,      \* the command the client thread of each gateway holds
    left,        \* the instances each servicer has yet to register with
    queue,       \* the command queue of each servicer
    cur,         \* the command each servicer executes
    ret,         \* history: what do_command last returned to each gateway
    answer       \* history: what a servicer did with the gateway's last command

gwVars == <<setup, table, servicers>>
vars == <<setup, gpc, table, servicers, req, status, xfer, gwQueue,
          toTile, fromTile, client, left, queue, cur, ret, answer>>

transport == setup.transport
OffTile == setup.offTile
claims == setup.claims

QueueSize == 1

InitMsg(s) == [kind |-> "init", servicer |-> s]
RetMsg(r) == [kind |-> "ret", code |-> r]
-----------------------------------------------------------------------------
Init ==
    /\ setup \in Setups
    /\ gpc = [g \in Gateways |-> "registering"]
    /\ table = [g \in Gateways |-> [r \in Resources |-> None]]
    /\ servicers = [g \in Gateways |-> <<>>]
    /\ req = [g \in Gateways |-> [resid |-> Special, cmd |-> "write"]]
    /\ status = [g \in Gateways |-> "SUCCESS"]
    /\ xfer = [g \in Gateways |-> None]
    /\ gwQueue = [g \in Gateways |-> <<>>]
    /\ toTile = [g \in Gateways |-> <<>>]
    /\ fromTile = [g \in Gateways |-> <<>>]
    /\ client = [g \in Gateways |-> None]
    /\ left = Order
    /\ queue = [s \in Servicers |-> <<>>]
    /\ cur = [s \in Servicers |-> None]
    /\ ret = [g \in Gateways |-> None]
    /\ answer = [g \in Gateways |-> None]
-----------------------------------------------------------------------------
(***************************************************************************)
(* Registration.                                                           *)
(***************************************************************************)

\* A servicer on the gateway's tile waits for room in the gateway's queue.
ServicerRegister(s) ==
    /\ left[s] # <<>>
    /\ LET g == Head(left[s]) IN
       IF s \in OffTile
       THEN /\ fromTile' = [fromTile EXCEPT ![g] = Append(@, InitMsg(s))]
            /\ UNCHANGED gwQueue
       ELSE /\ Len(gwQueue[g]) < QueueSize
            /\ gwQueue' = [gwQueue EXCEPT ![g] = Append(@, InitMsg(s))]
            /\ UNCHANGED fromTile
    /\ left' = [left EXCEPT ![s] = Tail(@)]
    /\ UNCHANGED <<gwVars, gpc, req, status, xfer, toTile, client, queue, cur, ret, answer>>

\* Mutant: a resource that is in the table already is taken over.
AddedAnyway(t, rs) == {i \in 1..Len(rs) : \A j \in 1..i : rs[j] # Special}

\* The resources of rs that are added before the first one that is refused:
\* the special one, or one that is in the table already.
Added(t, rs) ==
    LET refused(i) == \/ rs[i] = Special
                      \/ t[rs[i]] # None
                      \/ \E j \in 1..(i - 1) : rs[j] = rs[i]
    IN  {i \in 1..Len(rs) : \A j \in 1..i : ~refused(j)}

\* resource_table_add: the entries before a refused one stay in the table.
TableWith(t, rs, n) ==
    [r \in Resources |-> IF \E i \in Added(t, rs) : rs[i] = r THEN n ELSE t[r]]

AddSucceeds(t, rs) == Added(t, rs) = 1..Len(rs)

\* servicer_register with the next index; on failure registration is over.
Register(g, s) ==
    LET n == Len(servicers[g]) + 1
    IN  /\ servicers' = [servicers EXCEPT ![g] = Append(@, s)]
        /\ table' = [table EXCEPT ![g] = TableWith(@, claims[s], n)]
        /\ gpc' = [gpc EXCEPT ![g] =
                     IF ~AddSucceeds(table[g], claims[s]) THEN "failed"
                     ELSE IF n = Cardinality(Servicers) THEN "idle" ELSE @]

RegisterOnTile(g) ==
    /\ gpc[g] = "registering"
    /\ gwQueue[g] # <<>>
    /\ Register(g, Head(gwQueue[g]).servicer)
    /\ gwQueue' = [gwQueue EXCEPT ![g] = Tail(@)]
    /\ UNCHANGED <<setup, req, status, xfer, toTile, fromTile, client,
                   left, queue, cur, ret, answer>>

RegisterOffTile(g) ==
    /\ gpc[g] = "registering"
    /\ fromTile[g] # <<>>
    /\ Register(g, Head(fromTile[g]).servicer)
    /\ fromTile' = [fromTile EXCEPT ![g] = Tail(@)]
    /\ UNCHANGED <<setup, req, status, xfer, toTile, gwQueue, client,
                   left, queue, cur, ret, answer>>

\* The time is up: the transport asserts (I2C, SPI) or is not opened (USB).
RegisterTimeout(g) ==
    /\ gpc[g] = "registering"
    /\ gpc' = [gpc EXCEPT ![g] = "failed"]
    /\ UNCHANGED <<gwVars, req, status, xfer, gwQueue, toTile, fromTile, client,
                   left, queue, cur, ret, answer>>
-----------------------------------------------------------------------------
(***************************************************************************)
(* The transport's task.  q is the pair of requested_resid and             *)
(* requested_cmd that a transfer finds.                                    *)
(***************************************************************************)

Found(g, resid) == resid = Special \/ table[g][resid] # None

\* device_control_request: the command is stored only for a known resource.
Request(g, resid, cmd) ==
    IF Found(g, resid) THEN [resid |-> resid, cmd |-> cmd]
                       ELSE [req[g] EXCEPT !.resid = resid]

Servicer(g, resid) == servicers[g][table[g][resid]]

\* do_command is entered for a servicer, and the transfer goes on in Finish.
Forward(g, q, how) ==
    /\ q.resid # Special
    /\ gpc' = [gpc EXCEPT ![g] = "send"]
    /\ xfer' = [xfer EXCEPT ![g] = how]
    /\ UNCHANGED status

\* The transfer is over, with last_status set to st.
End(g, st) ==
    /\ gpc' = [gpc EXCEPT ![g] = "idle"]
    /\ status' = [status EXCEPT ![g] = st]
    /\ UNCHANGED xfer

\* What do_command returns for the special resource.
SpecialCode(q, sized) ==
    IF q.cmd = "read" /\ sized THEN "SUCCESS" ELSE "BAD_COMMAND"

HostToDevice(g, q, fits) ==
    \/ ~Found(g, q.resid) /\ End(g, "BAD_RESOURCE")
    \/ /\ Found(g, q.resid) /\ q.cmd = "write"
       /\ \/ ~fits /\ End(g, "DATA_LENGTH_ERROR")
          \/ fits /\ q.resid = Special /\ End(g, SpecialCode(q, fits))
          \/ fits /\ Forward(g, q, "write")
    \/ Found(g, q.resid) /\ q.cmd = "read" /\ End(g, "SUCCESS")

\* The host reads last_status, or the payload of a read command.
DeviceToHost(g, q) ==
    \/ ~Found(g, q.resid) /\ End(g, "BAD_RESOURCE")
    \/ Found(g, q.resid) /\ q.cmd = "write" /\ End(g, status[g])
    \/ /\ Found(g, q.resid) /\ q.cmd = "read"
       /\ (q.resid = Special /\ End(g, status[g])) \/ Forward(g, q, "read")

Bidir(g, q, fits) ==
    \/ ~Found(g, q.resid) /\ End(g, "BAD_RESOURCE")
    \/ Found(g, q.resid) /\ q.cmd = "write" /\ ~fits /\ End(g, "DATA_LENGTH_ERROR")
    \/ /\ Found(g, q.resid) /\ (q.cmd = "write" => fits)
       /\ \/ q.resid = Special /\ \E sized \in BOOLEAN : End(g, SpecialCode(q, sized))
          \/ Forward(g, q, "bidir")

\* A new transfer: the history of the previous one is over.
Begin(g, q) ==
    /\ req' = [req EXCEPT ![g] = q]
    /\ ret' = [ret EXCEPT ![g] = None]
    /\ answer' = [answer EXCEPT ![g] = None]
    /\ UNCHANGED <<gwVars, gwQueue, toTile, fromTile, client, left, queue, cur>>

I2cRx(g, resid, cmd) ==
    /\ transport[g] = "i2c" /\ gpc[g] = "idle"
    /\ Begin(g, Request(g, resid, cmd))
    /\ \E fits \in BOOLEAN : HostToDevice(g, Request(g, resid, cmd), fits)

I2cRxShort(g) ==
    /\ transport[g] = "i2c" /\ gpc[g] = "idle"
    /\ Begin(g, req[g])
    /\ End(g, "MALFORMED_PACKET")

I2cTxStart(g) ==
    /\ transport[g] = "i2c" /\ gpc[g] = "idle"
    /\ Begin(g, req[g])
    /\ DeviceToHost(g, req[g])

SpiXferDone(g, resid, cmd) ==
    /\ transport[g] = "spi" /\ gpc[g] = "idle"
    /\ Begin(g, Request(g, resid, cmd))
    /\ \E fits \in BOOLEAN : Bidir(g, Request(g, resid, cmd), fits)

\* A setup packet; the host may also send one instead of the data stage.
UsbSetup(g, resid, cmd) ==
    /\ transport[g] = "usb" /\ gpc[g] \in {"idle", "data"}
    /\ Begin(g, Request(g, resid, cmd))
    /\ \/ /\ ~Found(g, resid)
          /\ gpc' = [gpc EXCEPT ![g] = "idle"]
          /\ UNCHANGED <<status, xfer>>
       \/ /\ Found(g, resid)
          /\ gpc' = [gpc EXCEPT ![g] = "data"]
          /\ UNCHANGED <<status, xfer>>
       \/ Found(g, resid) /\ DeviceToHost(g, Request(g, resid, cmd))

\* The data stage of an OUT request, which has all the bytes announced.
UsbData(g) ==
    /\ transport[g] = "usb" /\ gpc[g] = "data"
    /\ Begin(g, req[g])
    /\ HostToDevice(g, req[g], TRUE)
-----------------------------------------------------------------------------
(***************************************************************************)
(* do_command and the way of a command to its servicer and back.           *)
(***************************************************************************)

Command(g) == [gw |-> g, resid |-> req[g].resid, cmd |-> req[g].cmd,
               to |-> Servicer(g, req[g].resid)]

GatewaySend(g) ==
    /\ gpc[g] = "send"
    /\ LET c == Command(g) IN
       IF c.to \in OffTile
       THEN /\ toTile' = [toTile EXCEPT ![g] = Append(@, c)]
            /\ UNCHANGED queue
       ELSE /\ Len(queue[c.to]) < QueueSize
            /\ queue' = [queue EXCEPT ![c.to] = Append(@, c)]
            /\ UNCHANGED toTile
    /\ gpc' = [gpc EXCEPT ![g] = "wait"]
    /\ UNCHANGED <<gwVars, req, status, xfer, gwQueue, fromTile, client, left, cur,
                   ret, answer>>

\* device_control_client_thread: from the intertile port to the queue that
\* the message names.
ClientReceive(g) ==
    /\ client[g] = None
    /\ toTile[g] # <<>>
    /\ client' = [client EXCEPT ![g] = Head(toTile[g])]
    /\ toTile' = [toTile EXCEPT ![g] = Tail(@)]
    /\ UNCHANGED <<gwVars, gpc, req, status, xfer, gwQueue, fromTile, left, queue, cur,
                   ret, answer>>

\* Mutant: the client thread does not wait for room in the queue.
ClientForwardDrops(g) ==
    /\ client[g] # None
    /\ queue' = [queue EXCEPT ![client[g].to] =
                   IF Len(@) < QueueSize THEN Append(@, client[g]) ELSE @]
    /\ client' = [client EXCEPT ![g] = None]
    /\ UNCHANGED <<gwVars, gpc, req, status, xfer, gwQueue, toTile, fromTile, left, cur,
                   ret, answer>>

ClientForward(g) ==
    /\ client[g] # None
    /\ Len(queue[client[g].to]) < QueueSize
    /\ queue' = [queue EXCEPT ![client[g].to] = Append(@, client[g])]
    /\ client' = [client EXCEPT ![g] = None]
    /\ UNCHANGED <<gwVars, gpc, req, status, xfer, gwQueue, toTile, fromTile, left, cur,
                   ret, answer>>

\* Mutant: the command stays in the queue while it is executed.
ServicerReceivePeek(s) ==
    /\ left[s] = <<>>
    /\ cur[s] = None
    /\ queue[s] # <<>>
    /\ cur' = [cur EXCEPT ![s] = Head(queue[s])]
    /\ UNCHANGED <<gwVars, gpc, req, status, xfer, gwQueue, toTile, fromTile, client, left,
                   queue, ret, answer>>

\* device_control_servicer_cmd_recv takes a command, which leaves room for
\* the next one while the callback runs.
ServicerReceive(s) ==
    /\ left[s] = <<>>
    /\ cur[s] = None
    /\ queue[s] # <<>>
    /\ cur' = [cur EXCEPT ![s] = Head(queue[s])]
    /\ queue' = [queue EXCEPT ![s] = Tail(@)]
    /\ UNCHANGED <<gwVars, gpc, req, status, xfer, gwQueue, toTile, fromTile, client, left,
                   ret, answer>>

\* The callback returns code, which is sent to the gateway of the command.
\* On the gateway's tile the code asserts that there is room for it.
ServicerReply(s, code) ==
    /\ cur[s] # None
    /\ LET g == cur[s].gw IN
       /\ answer' = [answer EXCEPT ![g] =
                       [by |-> s, resid |-> cur[s].resid, cmd |-> cur[s].cmd, code |-> code]]
       /\ IF s \in OffTile
          THEN /\ fromTile' = [fromTile EXCEPT ![g] = Append(@, RetMsg(code))]
               /\ UNCHANGED gwQueue
          ELSE /\ Len(gwQueue[g]) < QueueSize
               /\ gwQueue' = [gwQueue EXCEPT ![g] = Append(@, RetMsg(code))]
               /\ UNCHANGED fromTile
    /\ cur' = [cur EXCEPT ![s] = None]
    /\ UNCHANGED <<gwVars, gpc, req, status, xfer, toTile, client, left, queue, ret>>

\* Mutant: last_status is set by payload_transfer only.
FinishWriteOnly(g, code) ==
    /\ ret' = [ret EXCEPT ![g] = code]
    /\ status' = [status EXCEPT ![g] = IF xfer[g] = "write" THEN code ELSE @]
    /\ gpc' = [gpc EXCEPT ![g] = "idle"]
    /\ xfer' = [xfer EXCEPT ![g] = None]
    /\ UNCHANGED <<gwVars, req, toTile, client, left, queue, cur, answer>>

\* The end of a transfer that has forwarded its command: a read by way of
\* payload_transfer leaves last_status alone.
Finish(g, code) ==
    /\ ret' = [ret EXCEPT ![g] = code]
    /\ status' = [status EXCEPT ![g] = IF xfer[g] = "read" THEN @ ELSE code]
    /\ gpc' = [gpc EXCEPT ![g] = "idle"]
    /\ xfer' = [xfer EXCEPT ![g] = None]
    /\ UNCHANGED <<gwVars, req, toTile, client, left, queue, cur, answer>>

\* Mutant: the gateway waits for its answer with a timeout.
GatewayReceiveTimeout(g) ==
    /\ gpc[g] = "wait"
    /\ \/ /\ gwQueue[g] # <<>>
          /\ Finish(g, Head(gwQueue[g]).code)
          /\ gwQueue' = [gwQueue EXCEPT ![g] = Tail(@)]
          /\ UNCHANGED fromTile
       \/ /\ fromTile[g] # <<>>
          /\ Finish(g, Head(fromTile[g]).code)
          /\ fromTile' = [fromTile EXCEPT ![g] = Tail(@)]
          /\ UNCHANGED gwQueue
       \/ /\ Finish(g, "SERVICER_ERROR")
          /\ UNCHANGED <<gwQueue, fromTile>>

GatewayReceive(g) ==
    /\ gpc[g] = "wait"
    /\ IF Command(g).to \in OffTile
       THEN /\ fromTile[g] # <<>>
            /\ Finish(g, Head(fromTile[g]).code)
            /\ fromTile' = [fromTile EXCEPT ![g] = Tail(@)]
            /\ UNCHANGED gwQueue
       ELSE /\ gwQueue[g] # <<>>
            /\ Finish(g, Head(gwQueue[g]).code)
            /\ gwQueue' = [gwQueue EXCEPT ![g] = Tail(@)]
            /\ UNCHANGED fromTile
-----------------------------------------------------------------------------
\* A gateway that could not register all servicers serves no command.
Halted == (\E g \in Gateways : gpc[g] = "failed") /\ UNCHANGED vars

Host(g) ==
    \/ \E resid \in Resources, cmd \in Cmds :
          I2cRx(g, resid, cmd) \/ SpiXferDone(g, resid, cmd) \/ UsbSetup(g, resid, cmd)
    \/ I2cRxShort(g) \/ I2cTxStart(g) \/ UsbData(g)

Next ==
    \/ \E g \in Gateways :
          \/ RegisterOnTile(g) \/ RegisterOffTile(g) \/ RegisterTimeout(g)
          \/ Host(g)
          \/ GatewaySend(g) \/ GatewayReceive(g)
          \/ ClientReceive(g) \/ ClientForward(g)
    \/ \E s \in Servicers :
          \/ ServicerRegister(s) \/ ServicerReceive(s)
          \/ \E code \in CallbackCodes : ServicerReply(s, code)
    \/ Halted

\* Every thread runs; the senders that wait for room in a servicer's queue
\* are served in turn.  The host need not send anything.
Fairness ==
    /\ \A g \in Gateways :
          /\ WF_vars(RegisterOnTile(g) \/ RegisterOffTile(g))
          /\ SF_vars(GatewaySend(g)) /\ WF_vars(GatewayReceive(g))
          /\ WF_vars(ClientReceive(g)) /\ SF_vars(ClientForward(g))
    /\ \A s \in Servicers :
          /\ WF_vars(ServicerRegister(s)) /\ WF_vars(ServicerReceive(s))
          /\ WF_vars(\E code \in CallbackCodes : ServicerReply(s, code))

Spec == Init /\ [][Next]_vars /\ Fairness
-----------------------------------------------------------------------------
RangeOf(f) == {f[x] : x \in DOMAIN f}

Messages == [kind : {"init"}, servicer : Servicers] \cup [kind : {"ret"}, code : CallbackCodes]

\* The types of the state: what a queue or a port holds is what its reader
\* takes it for, a registration while the gateway registers and an answer
\* afterwards (gateway_queue carries both).
TypeOK ==
    /\ setup \in Setups
    /\ gpc \in [Gateways -> {"registering", "failed", "idle", "data", "send", "wait"}]
    /\ table \in [Gateways -> [Resources -> (1..Cardinality(Servicers)) \cup {None}]]
    /\ servicers \in [Gateways -> Seq(Servicers)]
    /\ req \in [Gateways -> [resid : Resources, cmd : Cmds]]
    /\ status \in [Gateways -> CallbackCodes \cup LibraryCodes]
    /\ xfer \in [Gateways -> {None, "write", "read", "bidir"}]
    /\ \A g \in Gateways :
          /\ Len(gwQueue[g]) <= QueueSize
          /\ toTile[g] \in Seq(Commands)
          /\ client[g] \in Commands \cup {None}
          /\ \A m \in RangeOf(gwQueue[g]) \cup RangeOf(fromTile[g]) :
                /\ m \in Messages
                /\ gpc[g] = "registering" => m.kind = "init"
                /\ gpc[g] \in {"idle", "data", "send", "wait"} => m.kind = "ret"
    /\ left \in [Servicers -> Seq(Gateways)]
    /\ \A s \in Servicers :
          /\ Len(queue[s]) <= QueueSize /\ queue[s] \in Seq(Commands)
          /\ cur[s] \in Commands \cup {None}

\* "This should not block.  As long as everything is working as designed,
\* this queue will always be empty here": the assertion of the servicer that
\* sends its answer to gateway_queue without waiting.
QueueEmptyAtReply ==
    \A s \in Servicers \ OffTile : cur[s] # None => gwQueue[cur[s].gw] = <<>>

\* Registration is complete and exact when a gateway serves commands: each
\* resource leads to the servicer that claimed it, whatever order the
\* servicers of both tiles registered in, and nothing else is in the table.
RegisteredExactly ==
    \A g \in Gateways : gpc[g] \notin {"registering", "failed"} =>
        \A r \in Resources :
            /\ table[g][r] # None <=> \E s \in Servicers : r \in RangeOf(claims[s])
            /\ \A s \in Servicers : r \in RangeOf(claims[s]) => Servicer(g, r) = s

\* The places where the command of a gateway, or its answer, may be.
InFlight(g) ==
    LET holds(seq) == Cardinality({i \in DOMAIN seq : seq[i].gw = g})
        rets(seq) == Cardinality({i \in DOMAIN seq : seq[i].kind = "ret"})
        inQueues == {s \in Servicers : \E c \in RangeOf(queue[s]) : c.gw = g}
        running == {s \in Servicers : cur[s] # None /\ cur[s].gw = g}
    IN  holds(toTile[g]) + Cardinality({c \in {client[g]} : c # None})
          + Cardinality(inQueues) + Cardinality(running)
          + rets(gwQueue[g]) + rets(fromTile[g])

\* While do_command waits its command is in exactly one place, or its answer
\* is; outside do_command no command of the gateway and no answer is left
\* anywhere: nothing is lost, executed twice or answered late.
OneInFlight ==
    \A g \in Gateways : InFlight(g) = IF gpc[g] = "wait" THEN 1 ELSE 0

\* When the transfer is over, the code the gateway was given is the one that
\* the servicer of the requested resource returned for this very command, and
\* last_status, which the host reads next, is that code (except after a read
\* by way of payload_transfer); with two gateways on one servicer neither
\* gets the other's answer.
ReplyIsMine ==
    \A g \in Gateways : gpc[g] = "idle" =>
        /\ ret[g] # None <=> answer[g] # None
        /\ answer[g] # None =>
              /\ answer[g].code = ret[g]
              /\ answer[g].resid = req[g].resid /\ answer[g].cmd = req[g].cmd
              /\ req[g].resid \in RangeOf(claims[answer[g].by])
              /\ (answer[g].cmd = "write" \/ transport[g] = "spi") => status[g] = ret[g]

\* Every command that is forwarded is answered, unless a gateway has failed to
\* register: then a servicer may wait for room in its gateway_queue forever,
\* and serves the other gateways no more.
Answered ==
    \A g \in Gateways : gpc[g] = "send" ~> gpc[g] = "idle" \/ \E h \in Gateways : gpc[h] = "failed"
=============================================================================
