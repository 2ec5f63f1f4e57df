---------------------------- MODULE I2cMasterRpc ----------------------------
(***************************************************************************)
(* A driver shared between tiles by remote procedure calls: the I2C master *)
(* (drivers/i2c/src/rtos_i2c_master_rpc.c over drivers/rpc/src/rtos_rpc.c; *)
(* the other drivers' _rpc.c files have the same client calls and the same *)
(* host thread).  On the host tile one thread serves every client tile; it *)
(* calls the driver like any other thread of the tile.  The messages       *)
(* travel over an intertile port, which module Intertile shows to be the   *)
(* FIFO of PortChannel.                                                    *)
(*                                                                         *)
(* One task of a client tile has a call under way at a time: a port has    *)
(* one listener (rtos_intertile.h).                                        *)
(***************************************************************************)
EXTENDS I2cMaster, Sequences

CONSTANT Clients    \* client tiles; each names the host thread that serves it

ASSUME ClientsAssumption == Clients \subseteq Threads

VARIABLES
    request,    \* request[c]: messages from client c to its host thread
    response,   \* response[c]: messages back
    client      \* client[c]: the call that waits in rpc_client_call_generic

rpcVars == <<request, response, client>>
allVars == <<i2cVars, rpcVars>>

RpcInit ==
    /\ I2cInit
    /\ request = [c \in Clients |-> <<>>]
    /\ response = [c \in Clients |-> <<>>]
    /\ client = [c \in Clients |-> None]

-----------------------------------------------------------------------------
\* rpc_client_call_generic: the function code and the inputs are sent, and the
\* caller waits for the response for as long as it takes.
ClientCall(c, call) ==
    /\ client[c] = None
    /\ request' = [request EXCEPT ![c] = Append(@, call)]
    /\ client' = [client EXCEPT ![c] = call]
    /\ UNCHANGED <<i2cVars, response>>

\* Mutant of HostReceive: the request is not consumed.
HostReceivePeek(c) ==
    /\ op[c].pc = "idle" /\ request[c] # <<>>
    /\ op' = [op EXCEPT ![c] = Begun(Head(request[c]))]
    /\ UNCHANGED <<owner, depth, pointer, rpcVars>>

\* i2c_master_rpc_thread: a request is received and its function called.
HostReceive(c) ==
    /\ op[c].pc = "idle" /\ request[c] # <<>>
    /\ op' = [op EXCEPT ![c] = Begun(Head(request[c]))]
    /\ request' = [request EXCEPT ![c] = Tail(@)]
    /\ UNCHANGED <<owner, depth, pointer, response, client>>

Response(c) == [fcode |-> op[c].call.fn, res |-> op[c].res, got |-> op[c].got]

\* i2c_master_rpc_thread: the function code and the outputs are sent back.
HostReply(c) ==
    /\ op[c].pc = "done"
    /\ response' = [response EXCEPT ![c] = Append(@, Response(c))]
    /\ op' = [op EXCEPT ![c] = NoOp]
    /\ UNCHANGED <<owner, depth, pointer, request, client>>

\* rpc_client_call_generic: the response is received and the call returns.
\* The xassert stops a client that gets the response of another function.
ClientReturn(c) ==
    /\ client[c] # None
    /\ response[c] # <<>> /\ Head(response[c]).fcode = client[c].fn
    /\ response' = [response EXCEPT ![c] = Tail(@)]
    /\ client' = [client EXCEPT ![c] = None]
    /\ UNCHANGED <<i2cVars, request>>

-----------------------------------------------------------------------------
\* Threads of the host tile that use the driver for themselves.
LocalTasks == Threads \ Clients

LocalStep(t) ==
    /\ \/ \E c \in Calls : Begin(t, c)
       \/ Return(t)
    /\ UNCHANGED rpcVars

HostStep(c) == HostReceive(c) \/ HostReply(c)

RpcNext ==
    \/ \E t \in LocalTasks : LocalStep(t)
    \/ \E t \in Threads : DriverCode(t) /\ UNCHANGED rpcVars
    \/ \E c \in Clients : HostStep(c) \/ ClientReturn(c)
    \/ \E c \in Clients : \E call \in Calls : ClientCall(c, call)

\* As on the host tile alone; messages arrive and their receivers run.
RpcFairness ==
    /\ \A t \in Threads : CodeFairness(t)
    /\ \A t \in LocalTasks : WF_i2cVars(Return(t))
    /\ \A c \in Clients : WF_allVars(HostStep(c)) /\ WF_allVars(ClientReturn(c))

RpcSpec == RpcInit /\ [][RpcNext]_allVars /\ RpcFairness

-----------------------------------------------------------------------------
RpcTypeOK ==
    /\ I2cTypeOK
    /\ client \in [Clients -> Calls \cup {None}]
    /\ \A c \in Clients :
        /\ request[c] \in Seq(Calls)
        /\ \A k \in 1..Len(response[c]) :
            response[c][k].fcode \in {call.fn : call \in Calls}

\* The xassert of rpc_client_call_generic: the response a client finds is the
\* response of the function it called, and nothing is left behind in the port
\* for the next call to find.
ResponseIsMine ==
    \A c \in Clients :
        /\ client[c] = None => request[c] = <<>> /\ response[c] = <<>>
                              /\ op[c].pc = "idle"
        /\ response[c] # <<>> => Head(response[c]).fcode = client[c].fn

\* Calls of threads and tiles do not mix: a register read reads its register, no
\* path keeps the mutex, and a response is found by the call it answers.
CallsDoNotMix == ReadsItsRegister /\ MutexGivenBack /\ ResponseIsMine

\* What a caller on a client tile sees of its call: begun while the request is
\* under way, finished with the results of the response once that is sent.
RemoteOp ==
    [t \in Threads |->
        IF t \in LocalTasks \/ (request[t] = <<>> /\ response[t] = <<>>) THEN op[t]
        ELSE IF request[t] # <<>> THEN Begun(Head(request[t]))
        ELSE [pc |-> "done", call |-> client[t], stage |-> None,
              res |-> Head(response[t]).res, got |-> Head(response[t]).got]]

AsLocal == INSTANCE I2cMaster WITH op <- RemoteOp

\* "These functions may be used by both the host and any client tiles that RPC
\* has been enabled for" (rtos_i2c_master.h): a task of a client tile has the
\* driver as if it were a task of the host tile.  Every call is carried out
\* once, returns the results of its own execution, and returns.
ServedAsLocal == AsLocal!I2cSpec
=============================================================================
