----------------------------- MODULE RpcMarshal -----------------------------
(***************************************************************************)
(* The messages of a remote procedure call (drivers/rpc/src/rtos_rpc.c):   *)
(* the client marshalls its arguments into a request, the host unmarshalls *)
(* them, calls the function and marshalls the results into a response, and *)
(* the client unmarshalls that into its variables.                         *)
(*                                                                         *)
(* Nobody looks at the bytes of an argument, so a byte is named after the  *)
(* argument it belongs to, its place in it and the side that wrote it.     *)
(* The descriptors travel in the request: the host has no list of its own. *)
(***************************************************************************)
EXTENDS Integers, Sequences, SequencesExt

CONSTANTS
    TypeSizes,      \* sizes of scalar parameters
    BufferLengths,  \* lengths of buffers, zero among them
    MaxParams,      \* bound: parameters of a function
    IntSize,        \* sizeof(int)
    DescSize        \* sizeof(rpc_param_desc_t)

ASSUME MarshalAssumption ==
    /\ TypeSizes \subseteq {1, 2, 4, 8} /\ BufferLengths \subseteq Nat
    /\ MaxParams \in Nat /\ IntSize \in Nat /\ DescSize \in Nat

\* RPC_PARAM_TYPE, RPC_PARAM_RETURN, RPC_PARAM_IN_BUFFER, RPC_PARAM_OUT_BUFFER
\* and RPC_PARAM_INOUT_BUFFER.
Scalars == [length : TypeSizes, ptr : {FALSE}, input : {TRUE}, output : {FALSE}]
           \cup [length : TypeSizes, ptr : {FALSE}, input : {FALSE}, output : {TRUE}]
Buffers == [length : BufferLengths, ptr : {TRUE}, input : {TRUE}, output : BOOLEAN]
           \cup [length : BufferLengths, ptr : {TRUE}, input : {FALSE}, output : {TRUE}]
Descriptors == Scalars \cup Buffers

\* The bytes of argument i as the given side wrote them.
ArgBytes(length, i, side) == [k \in 1..length |-> <<side, i, k>>]
Arguments(d, side) == [i \in 1..Len(d) |-> ArgBytes(d[i].length, i, side)]

\* memcpy of length bytes: past the end of what it copies from it finds others.
Copied(bytes, length) == [k \in 1..length |-> IF k <= Len(bytes) THEN bytes[k] ELSE "other"]

VARIABLES
    rpcPhase,
    rpcDesc,    \* the client's parameter descriptors
    rpcArgs,    \* the client's variables
    rpcReq,     \* the request message
    hostSize,   \* hostSize[i]: bytes of the host function's variable, or of the
                \* buffer it allocates for an output
    hostArgs,   \* what the host's function is called with: a kind and bytes
    rpcResp     \* the response message

marshalVars == <<rpcPhase, rpcDesc, rpcArgs, rpcReq, hostSize, hostArgs, rpcResp>>

HostArg(kind, bytes) == [kind |-> kind, bytes |-> bytes]

NoMsg == [length |-> 0, desc |-> <<>>, params |-> <<>>]

\* A call of a function that takes d of the client and has variables and buffers
\* of the given sizes on the host.
CallOf(d, sizes) ==
    /\ rpcPhase = "call"
    /\ rpcDesc = d /\ hostSize = sizes
    /\ rpcArgs = Arguments(rpcDesc, "client")
    /\ rpcReq = NoMsg /\ rpcResp = NoMsg
    /\ hostArgs = <<>>

\* Functions of every signature, with sizes that match.
MarshalInit ==
    \E d \in SeqOf(Descriptors, MaxParams) : CallOf(d, [i \in 1..Len(d) |-> d[i].length])

-----------------------------------------------------------------------------
(* The parameters of one direction, one after the other.                   *)

Inputs(d) == [i \in 1..Len(d) |-> d[i].input]
Outputs(d) == [i \in 1..Len(d) |-> d[i].output]

\* The bytes of the chosen parameters up to each one, as the loops add them up.
Places(d, chosen) ==
    LET at[n \in 0..Len(d)] ==
            IF n = 0 THEN 0
            ELSE IF chosen[n] THEN at[n - 1] + d[n].length ELSE at[n - 1]
    IN at

TotalLength(d, chosen) == Places(d, chosen)[Len(d)]

\* params_ptr when the loop over the parameters reaches parameter i.
PlaceOf(d, chosen, i) == Places(d, chosen)[i - 1]

\* memcpy of every chosen argument to the end of the message.
Gather(d, chosen, values) ==
    LET params[n \in 0..Len(d)] ==
            IF n = 0 THEN <<>>
            ELSE IF chosen[n] THEN params[n - 1] \o Copied(values[n], d[n].length)
            ELSE params[n - 1]
    IN params[Len(d)]

Received(msg, d, chosen, i) ==
    LET at == PlaceOf(d, chosen, i) IN SubSeq(msg.params, at + 1, at + d[i].length)

-----------------------------------------------------------------------------
\* rpc_request_marshall_va: the length is computed first and the buffer
\* allocated, then the message is written to it.
rpc_request_marshall(d, values) ==
    [length |-> 2 * IntSize + DescSize * Len(d) + TotalLength(d, Inputs(d)),
     desc |-> d,
     params |-> Gather(d, Inputs(d), values)]

\* rpc_request_unmarshall_va: a buffer is a pointer into the message or, when
\* it has no bytes, NULL; an output buffer is told to be wanted or not; the
\* value of a scalar is copied.
rpc_request_unmarshall(msg, i) ==
    LET d == msg.desc IN
    CASE d[i].ptr /\ d[i].length = 0 -> HostArg("NULL", <<>>)
      [] d[i].ptr /\ ~ d[i].input /\ d[i].length > 0 -> HostArg("invalid", <<>>)
      [] d[i].input /\ ~ (d[i].ptr /\ d[i].length = 0) ->
            HostArg("data", Received(msg, d, Inputs(d), i))
      [] OTHER -> HostArg("untouched", <<>>)

\* rpc_response_marshall_va
rpc_response_marshall(d, values) ==
    [length |-> IntSize + TotalLength(d, Outputs(d)),
     desc |-> <<>>,
     params |-> Gather(d, Outputs(d), values)]

\* Mutant of rpc_response_unmarshall: params_ptr stays where it is.
rpc_response_unmarshall_first(msg, d, i) ==
    IF d[i].output THEN SubSeq(msg.params, 1, d[i].length) ELSE rpcArgs[i]

\* rpc_response_unmarshall_va: every output is copied to its variable.
rpc_response_unmarshall(msg, d, i) ==
    IF d[i].output THEN Received(msg, d, Outputs(d), i) ELSE rpcArgs[i]

-----------------------------------------------------------------------------
(* rpc_client_call_generic, with a host function in the middle.            *)

MarshalRequest ==
    /\ rpcPhase = "call"
    /\ rpcReq' = rpc_request_marshall(rpcDesc, rpcArgs)
    /\ rpcPhase' = "requested"
    /\ UNCHANGED <<hostSize, rpcDesc, rpcArgs, hostArgs, rpcResp>>

Unmarshall ==
    /\ rpcPhase = "requested"
    /\ hostArgs' = [i \in 1..Len(rpcReq.desc) |-> rpc_request_unmarshall(rpcReq, i)]
    /\ rpcPhase' = "called"
    /\ UNCHANGED <<hostSize, rpcDesc, rpcArgs, rpcReq, rpcResp>>

\* The function writes its outputs: results, and buffers in place.
HostFunction ==
    /\ rpcPhase = "called"
    /\ hostArgs' = [i \in 1..Len(rpcReq.desc) |->
           IF rpcReq.desc[i].output /\ hostArgs[i].kind # "NULL"
           THEN HostArg("data", ArgBytes(hostSize[i], i, "host")) ELSE hostArgs[i]]
    /\ rpcPhase' = "returned"
    /\ UNCHANGED <<hostSize, rpcDesc, rpcArgs, rpcReq, rpcResp>>

\* A NULL buffer has no bytes to copy.
Respond ==
    /\ rpcPhase = "returned"
    /\ rpcResp' = rpc_response_marshall(rpcReq.desc,
                   [i \in 1..Len(hostArgs) |-> hostArgs[i].bytes])
    /\ rpcPhase' = "responded"
    /\ UNCHANGED <<hostSize, rpcDesc, rpcArgs, rpcReq, hostArgs>>

MarshalReturn ==
    /\ rpcPhase = "responded"
    /\ rpcArgs' = [i \in 1..Len(rpcDesc) |-> rpc_response_unmarshall(rpcResp, rpcDesc, i)]
    /\ rpcPhase' = "done"
    /\ UNCHANGED <<hostSize, rpcDesc, rpcReq, hostArgs, rpcResp>>

MarshalNext == MarshalRequest \/ Unmarshall \/ HostFunction \/ Respond \/ MarshalReturn

MarshalSpec == MarshalInit /\ [][MarshalNext]_marshalVars

-----------------------------------------------------------------------------
MarshalTypeOK ==
    /\ rpcPhase \in {"call", "requested", "called", "returned", "responded", "done"}
    /\ Len(rpcArgs) = Len(rpcDesc)
    /\ \A i \in 1..Len(rpcArgs) : Len(rpcArgs[i]) = rpcDesc[i].length
    /\ hostArgs # <<>> => Len(hostArgs) = Len(rpcDesc)

\* The function is called with the inputs of the client, in their places,
\* whatever outputs and empty buffers stand between them.
HostSeesInputs ==
    rpcPhase = "called" =>
        \A i \in 1..Len(rpcDesc) :
            /\ rpcDesc[i].input /\ rpcDesc[i].length > 0 =>
                hostArgs[i] = HostArg("data", rpcArgs[i])
            /\ rpcDesc[i].ptr => (hostArgs[i].kind = "NULL" <=> rpcDesc[i].length = 0)

\* The client gets the outputs of the function in the variables it passed for
\* them, and its inputs are left alone.
ClientGetsOutputs ==
    rpcPhase = "done" =>
        \A i \in 1..Len(rpcDesc) :
            rpcArgs[i] = ArgBytes(rpcDesc[i].length, i,
                                  IF rpcDesc[i].output THEN "host" ELSE "client")

\* What is written to a message is what was allocated for it, and no value or
\* buffer of the host's function is shorter than what is copied to or from it.
BuffersFit ==
    /\ \A i \in 1..Len(rpcDesc) :
          rpcDesc[i].output \/ ~ rpcDesc[i].ptr => rpcDesc[i].length <= hostSize[i]
    /\ rpcPhase = "requested" =>
        rpcReq.length = 2 * IntSize + DescSize * Len(rpcReq.desc) + Len(rpcReq.params)
    /\ rpcPhase = "responded" => rpcResp.length = IntSize + Len(rpcResp.params)
=============================================================================
