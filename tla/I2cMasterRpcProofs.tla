------------------------ MODULE I2cMasterRpcProofs ------------------------
(***************************************************************************)
(* The I2C master and its remote procedure calls, for any threads, client  *)
(* tiles, devices and registers: calls do not mix, and a task of a client  *)
(* tile has the driver as if it were a task of the host tile.              *)
(***************************************************************************)
EXTENDS I2cMasterRpc, SequenceTheorems, TLAPS

Results == {"I2C_ACK", "I2C_NACK", "I2C_REGOP_DEVICE_NACK", "I2C_REGOP_INCOMPLETE",
            "I2C_REGOP_SUCCESS", None}

\* The record of a thread's call.
OpType ==
    [pc : {"idle", "outer", "lock", "transfer", "unlock", "outer_unlock", "done"},
     call : Calls \cup {None}, stage : {"write", "read", "stop", None},
     res : Results, got : Registers \cup {None}]

DriverType ==
    /\ owner \in Threads \cup {None}
    /\ depth \in Nat
    /\ pointer \in [Devices -> Registers]
    /\ op \in [Threads -> OpType]

\* The stages that a call of a function goes through.
StagesOf(fn) ==
    CASE fn \in {"write", "reg_write"} -> {"write"}
      [] fn = "read" -> {"read"}
      [] fn = "stop_bit_send" -> {"stop"}
      [] fn = "reg_read" -> {"write", "read"}

\* What the program counter of a call says of it.
CallShape(o) ==
    /\ o.pc = "idle" => o = NoOp
    /\ o.pc # "idle" => o.call \in Calls
    /\ o.pc = "done" => o.stage = None
    /\ o.pc \notin {"idle", "done"} => o.stage \in StagesOf(o.call.fn)
    /\ o.pc \in {"outer", "outer_unlock"} => o.call.fn = "reg_read"
    /\ o.pc = "outer" => o.stage = "write"

CallsShaped == \A t \in Threads : CallShape(op[t])

\* How often a call has taken the recursive mutex.
Held(o) ==
    IF o.pc = "outer_unlock" THEN 1
    ELSE IF o.pc = "lock" THEN IF o.call.fn = "reg_read" THEN 1 ELSE 0
    ELSE IF o.pc \in {"transfer", "unlock"} THEN IF o.call.fn = "reg_read" THEN 2 ELSE 1
    ELSE 0

\* The owner of the mutex is the thread whose call has taken it, so often as
\* the depth says.
MutexCounted ==
    /\ owner = None => depth = 0
    /\ \A t \in Threads : IF owner = t THEN depth = Held(op[t]) /\ depth > 0
                                       ELSE Held(op[t]) = 0

\* How far a register read has come: its write has moved the pointer of the
\* device to the register before it reads, and what it has got is the register.
RegReadShape(o) ==
    /\ o.stage = "write" /\ o.pc # "done" => o.got = None
    /\ o.stage = "write" /\ o.pc = "unlock" /\ o.res = "I2C_REGOP_SUCCESS"
           => pointer[o.call.dev] = o.call.reg
    /\ o.stage = "write" /\ o.pc = "outer_unlock" => o.res # "I2C_REGOP_SUCCESS"
    /\ o.stage = "read" /\ o.pc \in {"lock", "transfer"}
           => pointer[o.call.dev] = o.call.reg
    /\ o.pc = "done" \/ (o.stage = "read" /\ o.pc \in {"unlock", "outer_unlock"})
           => o.got = IF o.res = "I2C_REGOP_SUCCESS" THEN o.call.reg ELSE None

RegReads ==
    \A t \in Threads : op[t].pc # "idle" /\ op[t].call.fn = "reg_read" => RegReadShape(op[t])

\* The driver's part of the inductive invariant.
DriverInv == DriverType /\ CallsShaped /\ MutexCounted /\ RegReads

-----------------------------------------------------------------------------
ResponseType == [fcode : {"write", "read", "stop_bit_send", "reg_write", "reg_read"},
                 res : Results, got : Registers \cup {None}]

RpcType ==
    /\ request \in [Clients -> Seq(Calls)]
    /\ response \in [Clients -> Seq(ResponseType)]
    /\ client \in [Clients -> Calls \cup {None}]

\* A client's call is in one place: nowhere, in the request, in its host
\* thread, or in the response.
Nowhere(c) == client[c] = None /\ request[c] = <<>> /\ response[c] = <<>> /\ op[c].pc = "idle"
InRequest(c) ==
    /\ client[c] # None /\ op[c].pc = "idle" /\ response[c] = <<>>
    /\ request[c] = <<client[c]>>
InHost(c) ==
    /\ client[c] # None /\ request[c] = <<>> /\ response[c] = <<>>
    /\ op[c].pc # "idle" /\ op[c].call = client[c]
InResponse(c) ==
    /\ client[c] # None /\ op[c].pc = "idle" /\ request[c] = <<>>
    /\ Len(response[c]) = 1 /\ Head(response[c]).fcode = client[c].fn

OnePlace == \A c \in Clients : Nowhere(c) \/ InRequest(c) \/ InHost(c) \/ InResponse(c)

\* The inductive invariant.
RpcInv == DriverInv /\ RpcType /\ OnePlace

-----------------------------------------------------------------------------
(* The driver on the host tile.                                            *)

\* A step that only moves one call on, with the mutex as that call counts it.
LEMMA CallMoves ==
    ASSUME DriverInv, NEW t \in Threads, NEW new \in OpType,
           op' = [op EXCEPT ![t] = new], CallShape(new), pointer' = pointer,
           new.pc # "idle" /\ new.call.fn = "reg_read" => RegReadShape(new),
           \/ Held(new) = Held(op[t]) /\ UNCHANGED <<owner, depth>>
           \/ GetMutex(t) /\ Held(new) = Held(op[t]) + 1
           \/ PutMutex(t) /\ Held(new) = Held(op[t]) - 1 /\ Held(op[t]) \in {1, 2}
    PROVE  DriverInv'
  <1> USE DEF DriverInv
  <1>1. op' \in [Threads -> OpType]
      BY DEF DriverType
  <1>2. \A u \in Threads : op'[u] = IF u = t THEN new ELSE op[u]
      BY DEF DriverType
  <1>3. CallsShaped'
      BY <1>2 DEF CallsShaped, CallShape
  <1>4. RegReads'
      BY <1>2 DEF RegReads, RegReadShape
  <1>5. Held(new) \in 0..2 /\ \A u \in Threads : Held(op[u]) \in 0..2
      BY DEF Held
  <1>6. MutexCounted' /\ owner' \in Threads \cup {None} /\ depth' \in Nat
    <2>1. \A u \in Threads : Held(op'[u]) = IF u = t THEN Held(new) ELSE Held(op[u])
        BY <1>2
    <2>2. MutexCounted' <=>
              /\ owner' = None => depth' = 0
              /\ \A u \in Threads : IF owner' = u THEN depth' = Held(op'[u]) /\ depth' > 0
                                                 ELSE Held(op'[u]) = 0
        BY DEF MutexCounted, Held
    <2> HIDE DEF Held
    <2>3. CASE Held(new) = Held(op[t]) /\ UNCHANGED <<owner, depth>>
        BY <2>1, <2>2, <2>3 DEF MutexCounted, DriverType
    <2>4. CASE GetMutex(t) /\ Held(new) = Held(op[t]) + 1
        BY <1>5, <2>1, <2>2, <2>4, I2cAssumption DEF MutexCounted, DriverType, GetMutex
    <2>5. CASE PutMutex(t) /\ Held(new) = Held(op[t]) - 1 /\ Held(op[t]) \in {1, 2}
        BY <1>5, <2>1, <2>2, <2>5, I2cAssumption DEF MutexCounted, DriverType, PutMutex
    <2> QED
        BY <2>3, <2>4, <2>5
  <1> QED
      BY <1>1, <1>3, <1>4, <1>6 DEF DriverType

\* A call begins: from the call of a task of the host tile, or of a request.
LEMMA BegunShape ==
    ASSUME NEW c \in Calls
    PROVE  /\ Begun(c) \in OpType /\ CallShape(Begun(c)) /\ Held(Begun(c)) = 0
           /\ Begun(c).call = c /\ Begun(c).pc \in {"outer", "lock"}
           /\ c.fn = "reg_read" => RegReadShape(Begun(c))
  <1>1. c.fn \in {"write", "read", "stop_bit_send", "reg_write", "reg_read"}
      BY DEF Calls
  <1>2. Begun(c) \in OpType /\ Begun(c).call = c /\ Begun(c).pc \in {"outer", "lock"}
      BY <1>1 DEF Begun, OpType, Results
  <1>3. CallShape(Begun(c)) /\ Held(Begun(c)) = 0
      BY <1>1 DEF Begun, CallShape, StagesOf, Held
  <1>4. c.fn = "reg_read" => RegReadShape(Begun(c))
      BY DEF Begun, RegReadShape
  <1> QED
      BY <1>2, <1>3, <1>4

\* The idle call.
LEMMA NoOpShape == NoOp \in OpType /\ CallShape(NoOp) /\ Held(NoOp) = 0 /\ NoOp.pc = "idle"
  BY DEF NoOp, OpType, CallShape, Held, Results

LEMMA BeginInv ==
    ASSUME DriverInv, NEW t \in Threads, NEW c \in Calls, op[t].pc = "idle",
           op' = [op EXCEPT ![t] = Begun(c)], UNCHANGED <<owner, depth, pointer>>
    PROVE  DriverInv'
  <1>1. Held(op[t]) = 0
      BY DEF Held
  <1> QED
      BY <1>1, BegunShape, CallMoves

LEMMA ReturnInv ==
    ASSUME DriverInv, NEW t \in Threads, op[t].pc = "done",
           op' = [op EXCEPT ![t] = NoOp], UNCHANGED <<owner, depth, pointer>>
    PROVE  DriverInv'
  <1>1. Held(op[t]) = 0
      BY DEF Held
  <1> QED
      BY <1>1, NoOpShape, CallMoves

\* rtos_osal_mutex_get and rtos_osal_mutex_put around the transfers.
LEMMA MutexInv ==
    ASSUME DriverInv, NEW t \in Threads,
           OuterLock(t) \/ Lock(t) \/ Unlock(t) \/ OuterUnlock(t)
    PROVE  DriverInv'
  <1> DEFINE o == op[t]
  <1>1. o \in OpType /\ CallShape(o)
      BY DEF DriverInv, DriverType, CallsShaped
  <1>2. o.pc # "idle" /\ o.call.fn = "reg_read" => RegReadShape(o)
      BY DEF DriverInv, RegReads
  <1>3. o.pc # "idle" /\ o.call \in Calls =>
            o.call.fn \in {"write", "read", "stop_bit_send", "reg_write", "reg_read"}
      BY DEF Calls
  <1>4. CASE OuterLock(t)
    <2> DEFINE new == [o EXCEPT !.pc = "lock"]
    <2>1. new \in OpType /\ CallShape(new) /\ Held(new) = Held(o) + 1
        BY <1>1, <1>4 DEF OuterLock, OpType, CallShape, Held
    <2>2. RegReadShape(new)
        BY <1>1, <1>2, <1>4 DEF OuterLock, OpType, CallShape, RegReadShape, StagesOf
    <2>3. op' = [op EXCEPT ![t] = new] /\ GetMutex(t) /\ pointer' = pointer
        BY <1>4 DEF OuterLock
    <2> QED
        BY <2>1, <2>2, <2>3, CallMoves
  <1>5. CASE Lock(t)
    <2> DEFINE new == [o EXCEPT !.pc = "transfer"]
    <2>1. new \in OpType /\ CallShape(new) /\ Held(new) = Held(o) + 1
        BY <1>1, <1>5 DEF Lock, OpType, CallShape, Held
    <2>2. new.call.fn = "reg_read" => RegReadShape(new)
        BY <1>1, <1>2, <1>5 DEF Lock, OpType, CallShape, RegReadShape
    <2>3. op' = [op EXCEPT ![t] = new] /\ GetMutex(t) /\ pointer' = pointer
        BY <1>5 DEF Lock
    <2> QED
        BY <2>1, <2>2, <2>3, CallMoves
  <1>6. CASE Unlock(t)
    <2>1. CASE o.call.fn # "reg_read"
      <3> DEFINE new == Finished(o)
      <3>1. new \in OpType /\ CallShape(new) /\ new.call.fn # "reg_read"
          BY <1>1, <1>6, <2>1 DEF Unlock, OpType, CallShape, Finished
      <3>2. Held(new) = Held(o) - 1 /\ Held(o) = 1
          BY <1>1, <1>6, <2>1 DEF Unlock, OpType, Held, Finished
      <3>3. op' = [op EXCEPT ![t] = new] /\ PutMutex(t) /\ pointer' = pointer
          BY <1>6, <2>1 DEF Unlock
      <3> QED
          BY <3>1, <3>2, <3>3, CallMoves
    <2>2. CASE o.call.fn = "reg_read" /\ o.stage = "write" /\ o.res = "I2C_REGOP_SUCCESS"
      <3> DEFINE new == [o EXCEPT !.pc = "lock", !.stage = "read"]
      <3>1. new \in OpType /\ CallShape(new)
          BY <1>1, <1>6, <2>2 DEF Unlock, OpType, CallShape, StagesOf
      <3>2. Held(new) = Held(o) - 1 /\ Held(o) = 2
          BY <1>1, <1>6, <2>2 DEF Unlock, OpType, Held
      <3>3. RegReadShape(new)
          BY <1>1, <1>2, <1>6, <2>2 DEF Unlock, OpType, RegReadShape
      <3>4. op' = [op EXCEPT ![t] = new] /\ PutMutex(t) /\ pointer' = pointer
          BY <1>6, <2>2 DEF Unlock
      <3> QED
          BY <3>1, <3>2, <3>3, <3>4, CallMoves
    <2>3. CASE o.call.fn = "reg_read" /\ ~ (o.stage = "write" /\ o.res = "I2C_REGOP_SUCCESS")
      <3> DEFINE new == [o EXCEPT !.pc = "outer_unlock"]
      <3>1. new \in OpType /\ CallShape(new)
          BY <1>1, <1>6, <2>3 DEF Unlock, OpType, CallShape
      <3>2. Held(new) = Held(o) - 1 /\ Held(o) = 2
          BY <1>1, <1>6, <2>3 DEF Unlock, OpType, Held
      <3>3. RegReadShape(new)
          BY <1>1, <1>2, <1>6, <2>3 DEF Unlock, OpType, RegReadShape
      <3>4. op' = [op EXCEPT ![t] = new] /\ PutMutex(t) /\ pointer' = pointer
          BY <1>6, <2>3 DEF Unlock
      <3> QED
          BY <3>1, <3>2, <3>3, <3>4, CallMoves
    <2> QED
        BY <2>1, <2>2, <2>3
  <1>7. CASE OuterUnlock(t)
    <2> DEFINE new == Finished(o)
    <2>1. new \in OpType /\ CallShape(new)
        BY <1>1, <1>7 DEF OuterUnlock, OpType, CallShape, Finished
    <2>2. Held(new) = Held(o) - 1 /\ Held(o) = 1
        BY <1>1, <1>7 DEF OuterUnlock, OpType, Held, Finished
    <2>3. RegReadShape(new)
        BY <1>1, <1>2, <1>7
           DEF OuterUnlock, OpType, RegReadShape, Finished, CallShape, StagesOf
    <2>4. op' = [op EXCEPT ![t] = new] /\ PutMutex(t) /\ pointer' = pointer
        BY <1>7 DEF OuterUnlock
    <2> QED
        BY <2>1, <2>2, <2>3, <2>4, CallMoves
  <1> QED
      BY <1>4, <1>5, <1>6, <1>7

\* A read returns the register that the device points at, and so the one that
\* reg_read asked for.
LEMMA ReadInv ==
    ASSUME DriverInv, NEW t \in Threads, ReadTransfer(t) \/ StopBit(t)
    PROVE  DriverInv'
  <1> DEFINE o == op[t]
  <1>1. o \in OpType /\ CallShape(o)
      BY DEF DriverInv, DriverType, CallsShaped
  <1>2. o.pc # "idle" /\ o.call.fn = "reg_read" => RegReadShape(o)
      BY DEF DriverInv, RegReads
  <1>3. o.pc = "transfer"
      BY DEF ReadTransfer, StopBit
  <1>4. o.call \in Calls /\ o.call.dev \in Devices /\ pointer[o.call.dev] \in Registers
      BY <1>1, <1>3 DEF CallShape, Calls, DriverInv, DriverType
  <1>5. o.stage \in StagesOf(o.call.fn) /\
        o.call.fn \in {"write", "read", "stop_bit_send", "reg_write", "reg_read"}
      BY <1>1, <1>3, <1>4 DEF CallShape, Calls
  <1>6. CASE ReadTransfer(t)
    <2>1. PICK acked \in BOOLEAN :
              op' = [op EXCEPT ![t] =
                  [@ EXCEPT !.pc = "unlock", !.res = ReadResult(t, acked),
                            !.got = IF acked THEN pointer[op[t].call.dev] ELSE None]]
        BY <1>6 DEF ReadTransfer
    <2> DEFINE new == [o EXCEPT !.pc = "unlock", !.res = ReadResult(t, acked),
                                !.got = IF acked THEN pointer[op[t].call.dev] ELSE None]
    <2>2. o.call.fn \in {"read", "reg_read"} /\ o.stage = "read"
        BY <1>5, <1>6 DEF ReadTransfer, StagesOf
    <2>3. /\ ReadResult(t, acked) \in Results
          /\ o.call.fn = "reg_read" =>
                 ReadResult(t, acked) = IF acked THEN "I2C_REGOP_SUCCESS"
                                                 ELSE "I2C_REGOP_DEVICE_NACK"
        BY <2>2 DEF ReadResult, Results
    <2>4. new \in OpType /\ CallShape(new) /\ Held(new) = Held(o)
        BY <1>1, <1>3, <1>4, <2>3 DEF OpType, CallShape, Held
    <2>5. new.call.fn = "reg_read" => RegReadShape(new)
        BY <1>1, <1>2, <1>3, <2>2, <2>3 DEF OpType, RegReadShape
    <2>6. op' = [op EXCEPT ![t] = new] /\ UNCHANGED <<owner, depth, pointer>>
        BY <1>6, <2>1 DEF ReadTransfer
    <2> HIDE DEF new
    <2> QED
        BY <2>4, <2>5, <2>6, CallMoves
  <1>7. CASE StopBit(t)
    <2> DEFINE new == [o EXCEPT !.pc = "unlock"]
    <2>1. new \in OpType /\ CallShape(new) /\ Held(new) = Held(o)
        BY <1>1, <1>3 DEF OpType, CallShape, Held
    <2>2. new.call.fn # "reg_read"
        BY <1>1, <1>5, <1>7 DEF StopBit, StagesOf, OpType
    <2>3. op' = [op EXCEPT ![t] = new] /\ UNCHANGED <<owner, depth, pointer>>
        BY <1>7 DEF StopBit
    <2> QED
        BY <2>1, <2>2, <2>3, CallMoves
  <1> QED
      BY <1>6, <1>7

\* A write moves the pointer of its device, and no other thread is then in the
\* middle of a register read.
LEMMA WriteInv ==
    ASSUME DriverInv, NEW t \in Threads, WriteTransfer(t)
    PROVE  DriverInv'
  <1> DEFINE o == op[t]
  <1>1. o \in OpType /\ CallShape(o)
      BY DEF DriverInv, DriverType, CallsShaped
  <1>2. o.pc = "transfer" /\ o.stage = "write"
      BY DEF WriteTransfer
  <1>3. /\ o.call \in Calls /\ o.call.dev \in Devices /\ o.call.reg \in Registers
        /\ o.call.fn \in {"write", "reg_write", "reg_read"}
    <2>1. o.call \in Calls
        BY <1>1, <1>2 DEF CallShape
    <2> QED
        BY <1>1, <1>2, <2>1 DEF CallShape, Calls, StagesOf
  <1>4. PICK acked \in BOOLEAN, sent \in 0..BytesOf(t) :
            /\ pointer' = IF sent = 0 THEN pointer
                          ELSE [pointer EXCEPT ![op[t].call.dev] = op[t].call.reg]
            /\ op' = [op EXCEPT ![t] =
                   [@ EXCEPT !.pc = "unlock", !.res = WriteResult(t, acked, sent)]]
      BY DEF WriteTransfer
  <1> DEFINE new == [o EXCEPT !.pc = "unlock", !.res = WriteResult(t, acked, sent)]
  <1>5. /\ WriteResult(t, acked, sent) \in Results
        /\ o.call.fn = "reg_read" /\ WriteResult(t, acked, sent) = "I2C_REGOP_SUCCESS"
              => sent # 0
      BY <1>3 DEF WriteResult, Results
  <1>6. new \in OpType /\ CallShape(new) /\ Held(new) = Held(o) /\ Held(o) > 0
    <2> DEFINE res == WriteResult(t, acked, sent)
    <2> HIDE DEF res
    <2>1. [o EXCEPT !.pc = "unlock", !.res = res] \in OpType
        BY <1>1, <1>5 DEF OpType, res
    <2>2. CallShape([o EXCEPT !.pc = "unlock", !.res = res])
        BY <1>1, <1>2 DEF OpType, CallShape
    <2>3. Held([o EXCEPT !.pc = "unlock", !.res = res]) = Held(o) /\ Held(o) > 0
        BY <1>1, <1>2 DEF OpType, Held
    <2> QED
        BY <2>1, <2>2, <2>3 DEF res
  <1>7. new.pc = "unlock" /\ new.stage = "write" /\ new.call = o.call /\ new.got = o.got
        /\ new.res = WriteResult(t, acked, sent)
      BY <1>1, <1>2 DEF OpType
  <1>8. op' = [op EXCEPT ![t] = new] /\ UNCHANGED <<owner, depth>>
      BY <1>4 DEF WriteTransfer
  <1> HIDE DEF new
  <1>9. \A u \in Threads : op'[u] = IF u = t THEN new ELSE op[u]
      BY <1>8 DEF DriverInv, DriverType
  <1>10. pointer' \in [Devices -> Registers]
      BY <1>3, <1>4 DEF DriverInv, DriverType
  <1>11. DriverType' /\ CallsShaped'
      BY <1>6, <1>8, <1>9, <1>10 DEF DriverInv, DriverType, CallsShaped, CallShape
  <1>12. MutexCounted'
    <2>1. \A u \in Threads : Held(op[u])' = Held(op[u])
        BY <1>6, <1>9 DEF Held
    <2> QED
        BY <1>8, <2>1 DEF DriverInv, MutexCounted
  <1>13. RegReads'
    <2> SUFFICES ASSUME NEW u \in Threads, op'[u].pc # "idle",
                        op'[u].call.fn = "reg_read"
                 PROVE  RegReadShape(op[u])'
        BY DEF RegReads
    <2>1. CASE u = t
      <3>1. o.got = None
          BY <1>2, <1>7, <1>9, <2>1 DEF DriverInv, RegReads, RegReadShape
      <3>2. new.res = "I2C_REGOP_SUCCESS" => pointer'[o.call.dev] = o.call.reg
          BY <1>3, <1>4, <1>5, <1>7, <1>9, <2>1 DEF DriverInv, DriverType
      <3> QED
          BY <1>7, <1>9, <2>1, <3>1, <3>2 DEF RegReadShape
    <2>2. CASE u # t
      <3>1. op'[u] = op[u]
          BY <1>9, <2>2
      <3>2. Held(op[u]) = 0
          BY <1>6, <2>2 DEF DriverInv, MutexCounted
      <3>3. op[u].pc \notin {"lock", "transfer", "unlock", "outer_unlock"}
          BY <2>2, <3>1, <3>2 DEF Held
      <3>4. RegReadShape(op[u])
          BY <3>1 DEF DriverInv, RegReads
      <3> QED
          BY <3>1, <3>3, <3>4 DEF RegReadShape
    <2> QED
        BY <2>1, <2>2
  <1> QED
      BY <1>11, <1>12, <1>13 DEF DriverInv

\* Every step inside the driver preserves its invariant.
LEMMA DriverCodeInv ==
    ASSUME DriverInv, NEW t \in Threads, DriverCode(t)
    PROVE  DriverInv'
  BY MutexInv, ReadInv, WriteInv DEF DriverCode

\* A call inside the driver stays that call, and stays in the driver.
LEMMA DriverCodeCalls ==
    ASSUME DriverInv, NEW t \in Threads, DriverCode(t)
    PROVE  /\ op[t].pc \notin {"idle", "done"}
           /\ op'[t].pc # "idle" /\ op'[t].call = op[t].call
           /\ \A u \in Threads : u # t => op'[u] = op[u]
  <1> USE DEF DriverInv, DriverType, OpType
  <1>1. CASE OuterLock(t) \/ Lock(t)
      BY <1>1 DEF OuterLock, Lock
  <1>2. CASE WriteTransfer(t)
    <2>1. PICK res : op' = [op EXCEPT ![t] = [@ EXCEPT !.pc = "unlock", !.res = res]]
        BY <1>2 DEF WriteTransfer
    <2> QED
        BY <1>2, <2>1 DEF WriteTransfer
  <1>3. CASE ReadTransfer(t)
    <2>1. PICK res, got :
              op' = [op EXCEPT ![t] = [@ EXCEPT !.pc = "unlock", !.res = res, !.got = got]]
        BY <1>3 DEF ReadTransfer
    <2> QED
        BY <1>3, <2>1 DEF ReadTransfer
  <1>6. CASE StopBit(t)
      BY <1>6 DEF StopBit
  <1>4. CASE Unlock(t)
      BY <1>4 DEF Unlock, Finished
  <1>5. CASE OuterUnlock(t)
      BY <1>5 DEF OuterUnlock, Finished
  <1> QED
      BY <1>1, <1>2, <1>3, <1>4, <1>5, <1>6 DEF DriverCode

-----------------------------------------------------------------------------
(* Clients and the host threads that serve them.                           *)

\* A queue of one message is empty once it is received.
LEMMA LastMessage ==
    ASSUME NEW S, NEW s \in Seq(S), Len(s) = 1
    PROVE  s # <<>> /\ Head(s) \in S /\ Tail(s) = <<>>
  <1>1. s # <<>>
      BY EmptySeq
  <1>2. Head(s) \in S /\ Tail(s) \in Seq(S) /\ Len(Tail(s)) = 0
      BY <1>1, HeadTailProperties
  <1>3. Tail(s) = <<>>
      BY <1>2, EmptySeq
  <1> QED
      BY <1>1, <1>2, <1>3

\* A message sent on an empty queue is the one received.
LEMMA OneMessage ==
    ASSUME NEW S, NEW x \in S
    PROVE  /\ Append(<<>>, x) = <<x>> /\ <<x>> \in Seq(S) /\ <<>> \in Seq(S)
           /\ Head(<<x>>) = x /\ Tail(<<x>>) = <<>> /\ <<x>> # <<>> /\ Len(<<x>>) = 1
  OBVIOUS

\* A step that leaves a client, its messages and its host thread alone leaves
\* its call where it is.
LEMMA PlaceKept ==
    ASSUME NEW c \in Clients, client'[c] = client[c], request'[c] = request[c],
           response'[c] = response[c],
           \/ op'[c] = op[c]
           \/ op[c].pc # "idle" /\ op'[c].pc # "idle" /\ op'[c].call = op[c].call,
           Nowhere(c) \/ InRequest(c) \/ InHost(c) \/ InResponse(c)
    PROVE  (Nowhere(c) \/ InRequest(c) \/ InHost(c) \/ InResponse(c))'
  BY DEF Nowhere, InRequest, InHost, InResponse

\* The start state satisfies the invariant.
LEMMA RpcInitInv == RpcInit => RpcInv
  <1> SUFFICES ASSUME RpcInit PROVE RpcInv
      OBVIOUS
  <1> USE DEF RpcInit, I2cInit
  <1>1. \A t \in Threads : op[t] = NoOp
      OBVIOUS
  <1>2. DriverType /\ CallsShaped
      BY <1>1, NoOpShape DEF DriverType, CallsShaped
  <1>3. MutexCounted /\ RegReads
      BY <1>1, NoOpShape, I2cAssumption DEF MutexCounted, RegReads
  <1>4. RpcType
      BY DEF RpcType
  <1>5. OnePlace
      BY <1>1, NoOpShape, ClientsAssumption DEF OnePlace, Nowhere
  <1> QED
      BY <1>2, <1>3, <1>4, <1>5 DEF RpcInv, DriverInv

\* The client's call and its return.
LEMMA ClientInv ==
    ASSUME RpcInv, NEW c \in Clients,
           ClientReturn(c) \/ \E call \in Calls : ClientCall(c, call)
    PROVE  RpcInv'
  <1> USE DEF RpcInv
  <1>1. UNCHANGED <<owner, depth, pointer, op>>
      BY DEF ClientReturn, ClientCall, i2cVars
  <1>2. DriverInv'
      BY <1>1 DEF DriverInv, DriverType, CallsShaped, CallShape, MutexCounted, Held,
                  RegReads, RegReadShape
  <1>3. CASE ClientReturn(c)
    <2>1. InResponse(c)
        BY <1>3 DEF ClientReturn, OnePlace, Nowhere, InRequest, InHost
    <2>2. /\ response' = [response EXCEPT ![c] = <<>>] /\ request' = request
          /\ client' = [client EXCEPT ![c] = None]
        BY <1>3, <2>1, LastMessage DEF ClientReturn, InResponse, RpcType
    <2>3. RpcType'
        BY <2>2 DEF RpcType
    <2>4. Nowhere(c)'
        BY <1>1, <2>1, <2>2 DEF Nowhere, InResponse, RpcType
    <2>5. OnePlace'
        BY <1>1, <2>2, <2>4, PlaceKept DEF OnePlace, RpcType
    <2> QED
        BY <1>2, <2>3, <2>5
  <1>4. ASSUME NEW call \in Calls, ClientCall(c, call) PROVE RpcInv'
    <2>1. Nowhere(c)
        BY <1>4 DEF ClientCall, OnePlace, InRequest, InHost, InResponse
    <2>2. /\ request' = [request EXCEPT ![c] = <<call>>] /\ response' = response
          /\ client' = [client EXCEPT ![c] = call]
        BY <1>4, <2>1, OneMessage DEF ClientCall, Nowhere, RpcType
    <2>3. RpcType'
        BY <2>2, OneMessage DEF RpcType
    <2>4. InRequest(c)'
        BY <1>1, <2>1, <2>2, I2cAssumption DEF Nowhere, InRequest, RpcType
    <2>5. OnePlace'
        BY <1>1, <2>2, <2>4, PlaceKept DEF OnePlace, RpcType
    <2> QED
        BY <1>2, <2>3, <2>5
  <1> QED
      BY <1>3, <1>4

\* The host thread receives a request and sends the response of its call.
LEMMA HostInv ==
    ASSUME RpcInv, NEW c \in Clients, HostStep(c)
    PROVE  RpcInv'
  <1> USE ClientsAssumption DEF RpcInv
  <1>1. CASE HostReceive(c)
    <2>1. InRequest(c) /\ client[c] \in Calls
        BY <1>1 DEF HostReceive, OnePlace, Nowhere, InHost, InResponse, InRequest, RpcType
    <2>2. /\ request' = [request EXCEPT ![c] = <<>>] /\ UNCHANGED <<response, client>>
          /\ op' = [op EXCEPT ![c] = Begun(client[c])]
          /\ UNCHANGED <<owner, depth, pointer>>
        BY <1>1, <2>1, OneMessage DEF HostReceive, InRequest
    <2>3. DriverInv'
        BY <2>1, <2>2, BeginInv DEF InRequest
    <2>4. RpcType'
        BY <2>2 DEF RpcType
    <2>5. \A d \in Clients : op'[d] = IF d = c THEN Begun(client[c]) ELSE op[d]
        BY <2>2 DEF DriverInv, DriverType
    <2>6. InHost(c)'
        BY SMTT(60), <2>1, <2>2, <2>5, BegunShape DEF InRequest, InHost, RpcType
    <2>7. OnePlace'
        BY <2>2, <2>5, <2>6, PlaceKept DEF OnePlace, RpcType
    <2> QED
        BY <2>3, <2>4, <2>7
  <1>2. CASE HostReply(c)
    <2>1. InHost(c) /\ op[c].call \in Calls
        BY <1>2 DEF HostReply, OnePlace, Nowhere, InRequest, InResponse, InHost,
                    DriverInv, CallsShaped, CallShape
    <2>2. Response(c) \in ResponseType /\ Response(c).fcode = client[c].fn
        BY <2>1 DEF Response, ResponseType, InHost, DriverInv, DriverType, OpType, Calls
    <2>3. /\ response' = [response EXCEPT ![c] = <<Response(c)>>]
          /\ op' = [op EXCEPT ![c] = NoOp]
          /\ UNCHANGED <<request, client, owner, depth, pointer>>
        BY <1>2, <2>1, <2>2, OneMessage DEF HostReply, InHost
    <2>4. DriverInv'
        BY <1>2, <2>3, ReturnInv DEF HostReply
    <2>5. RpcType'
        BY <2>2, <2>3, OneMessage DEF RpcType
    <2>6. \A d \in Clients : op'[d] = IF d = c THEN NoOp ELSE op[d]
        BY <2>3 DEF DriverInv, DriverType
    <2>7. response'[c] = <<Response(c)>>
        BY <2>3 DEF RpcType
    <2>8. InResponse(c)'
        BY <2>1, <2>2, <2>3, <2>6, <2>7, NoOpShape, OneMessage DEF InHost, InResponse
    <2>9. OnePlace'
        BY <2>3, <2>6, <2>8, PlaceKept DEF OnePlace, RpcType
    <2> QED
        BY <2>4, <2>5, <2>9
  <1> QED
      BY <1>1, <1>2 DEF HostStep

\* Every step preserves the invariant.
LEMMA RpcStepInv ==
    ASSUME RpcInv, [RpcNext]_allVars
    PROVE  RpcInv'
  <1> USE ClientsAssumption DEF RpcInv
  <1>1. CASE UNCHANGED allVars
      BY <1>1 DEF allVars, i2cVars, rpcVars, DriverInv, DriverType, CallsShaped, CallShape,
                  MutexCounted, Held, RegReads, RegReadShape, RpcType, OnePlace, Nowhere,
                  InRequest, InHost, InResponse
  <1>2. ASSUME UNCHANGED rpcVars, DriverInv',
               \A d \in Clients : \/ op'[d] = op[d]
                                  \/ /\ op[d].pc # "idle" /\ op'[d].pc # "idle"
                                     /\ op'[d].call = op[d].call
        PROVE  RpcInv'
    <2>1. RpcType'
        BY <1>2 DEF rpcVars, RpcType
    <2>2. OnePlace'
        BY <1>2, PlaceKept DEF rpcVars, OnePlace
    <2> QED
        BY <1>2, <2>1, <2>2
  <1>3. ASSUME NEW t \in LocalTasks, LocalStep(t) PROVE RpcInv'
    <2>1. t \in Threads /\ t \notin Clients
        BY DEF LocalTasks
    <2>2. DriverInv' /\ UNCHANGED rpcVars
        BY <1>3, <2>1, BeginInv, ReturnInv DEF LocalStep, Begin, Return
    <2>3. \A d \in Clients : op'[d] = op[d]
        BY <1>3, <2>1 DEF LocalStep, Begin, Return, DriverInv, DriverType
    <2> QED
        BY <1>2, <2>2, <2>3
  <1>4. ASSUME NEW t \in Threads, DriverCode(t), UNCHANGED rpcVars PROVE RpcInv'
      BY <1>2, <1>4, DriverCodeInv, DriverCodeCalls
  <1> QED
      BY <1>1, <1>3, <1>4, HostInv, ClientInv DEF RpcNext

\* For any threads, client tiles, devices and registers: a register read that
\* succeeds has read its own register, the recursive mutex is given back on
\* every path, and the xassert of rpc_client_call_generic on the function code
\* of the response never fails.
THEOREM I2cCallsDoNotMix == RpcSpec => []CallsDoNotMix
  <1>1. RpcInv => ReadsItsRegister
      BY DEF RpcInv, DriverInv, RegReads, RegReadShape, ReadsItsRegister
  <1>2. RpcInv => MutexGivenBack
      BY I2cAssumption
         DEF RpcInv, DriverInv, DriverType, MutexCounted, Held, MutexGivenBack
  <1>3. RpcInv => ResponseIsMine
      BY DEF RpcInv, OnePlace, Nowhere, InRequest, InHost, InResponse, ResponseIsMine
  <1>4. RpcInv => CallsDoNotMix
      BY <1>1, <1>2, <1>3 DEF CallsDoNotMix
  <1> QED
      BY <1>4, RpcInitInv, RpcStepInv, PTL DEF RpcSpec

-----------------------------------------------------------------------------
(* A client's task has the driver as a task of the host tile has it.       *)

\* What the refinement mapping shows of a call, place by place.
LEMMA RemoteOpFacts ==
    ASSUME RpcInv
    PROVE  /\ \A t \in LocalTasks : RemoteOp[t] = op[t]
           /\ \A c \in Clients :
                 /\ Nowhere(c) => RemoteOp[c] = NoOp
                 /\ InRequest(c) => RemoteOp[c] = Begun(client[c])
                 /\ InHost(c) => RemoteOp[c] = op[c]
                 /\ InResponse(c) => RemoteOp[c] =
                        [pc |-> "done", call |-> client[c], stage |-> None,
                         res |-> Head(response[c]).res, got |-> Head(response[c]).got]
  <1> USE ClientsAssumption
  <1>1. \A t \in LocalTasks : RemoteOp[t] = op[t]
      BY DEF RemoteOp, LocalTasks
  <1>2. ASSUME NEW c \in Clients, Nowhere(c) PROVE RemoteOp[c] = NoOp
    <2>1. op[c] = NoOp
        BY <1>2 DEF RpcInv, DriverInv, CallsShaped, CallShape, Nowhere
    <2> QED
        BY <1>2, <2>1 DEF Nowhere, RemoteOp
  <1>3. ASSUME NEW c \in Clients, InRequest(c) PROVE RemoteOp[c] = Begun(client[c])
    <2>1. request[c] # <<>> /\ Head(request[c]) = client[c]
        BY <1>3, OneMessage DEF RpcInv, RpcType, InRequest
    <2> QED
        BY <2>1 DEF RemoteOp, LocalTasks
  <1>4. ASSUME NEW c \in Clients, InHost(c) PROVE RemoteOp[c] = op[c]
      BY <1>4 DEF InHost, RemoteOp
  <1>5. ASSUME NEW c \in Clients, InResponse(c)
        PROVE  RemoteOp[c] = [pc |-> "done", call |-> client[c], stage |-> None,
                              res |-> Head(response[c]).res, got |-> Head(response[c]).got]
    <2>1. response[c] # <<>> /\ request[c] = <<>>
        BY <1>5, LastMessage DEF RpcInv, RpcType, InResponse
    <2> QED
        BY <2>1 DEF RemoteOp, LocalTasks
  <1> QED
      BY <1>1, <1>2, <1>3, <1>4, <1>5

\* A thread that the step leaves alone looks the same.
LEMMA RemoteOpKept ==
    ASSUME NEW t \in Threads, op'[t] = op[t],
           t \in Clients => /\ request'[t] = request[t] /\ response'[t] = response[t]
                            /\ client'[t] = client[t]
    PROVE  RemoteOp'[t] = RemoteOp[t]
  BY DEF RemoteOp, LocalTasks

\* The initial states map to initial states.
LEMMA RemoteInit == RpcInit => AsLocal!I2cInit
  <1> SUFFICES ASSUME RpcInit PROVE AsLocal!I2cInit
      OBVIOUS
  <1>1. \A t \in Threads : RemoteOp[t] = NoOp
      BY DEF RpcInit, I2cInit, RemoteOp, LocalTasks
  <1>2. RemoteOp = [t \in Threads |-> NoOp]
      BY <1>1 DEF RemoteOp
  <1> QED
      BY <1>2 DEF RpcInit, I2cInit, AsLocal!I2cInit, AsLocal!NoOp, NoOp

\* A step that changes the mapped call of one thread, seen as a whole.
LEMMA RemoteOpChange ==
    ASSUME NEW t \in Threads, NEW new, RemoteOp'[t] = new,
           \A u \in Threads \ {t} : RemoteOp'[u] = RemoteOp[u]
    PROVE  RemoteOp' = [RemoteOp EXCEPT ![t] = new]
  BY ZenonT(60) DEF RemoteOp

\* A step inside the driver is the same step of the mapped call.
LEMMA RemoteDriverCode ==
    ASSUME RpcInv, RpcInv', NEW t \in Threads, DriverCode(t), UNCHANGED rpcVars
    PROVE  AsLocal!DriverCode(t)
  <1> USE ClientsAssumption
  <1>1. DriverInv
      BY DEF RpcInv
  <1>2. op[t].pc \notin {"idle", "done"} /\ op'[t].pc # "idle" /\ op'[t].call = op[t].call
      BY <1>1, DriverCodeCalls
  <1>3. \A u \in Threads \ {t} : op'[u] = op[u]
      BY <1>1, DriverCodeCalls
  <1>4. RemoteOp[t] = op[t] /\ RemoteOp'[t] = op'[t]
    <2>1. CASE t \in LocalTasks
        BY <2>1 DEF RemoteOp
    <2>2. CASE t \in Clients
      <3>1. InHost(t)
          BY <1>2, <2>2 DEF RpcInv, OnePlace, Nowhere, InRequest, InResponse
      <3> QED
          BY <3>1 DEF InHost, RemoteOp, rpcVars
    <2> QED
        BY <2>1, <2>2 DEF LocalTasks
  <1>5. \A u \in Threads \ {t} : RemoteOp'[u] = RemoteOp[u]
      BY <1>3, RemoteOpKept DEF rpcVars
  <1>6. \A new : op' = [op EXCEPT ![t] = new] => RemoteOp' = [RemoteOp EXCEPT ![t] = new]
    <2> SUFFICES ASSUME NEW new, op' = [op EXCEPT ![t] = new]
                 PROVE  RemoteOp' = [RemoteOp EXCEPT ![t] = new]
        OBVIOUS
    <2>1. op'[t] = new
        BY <1>1 DEF DriverInv, DriverType
    <2> QED
        BY <1>4, <1>5, <2>1, RemoteOpChange
  <1>7. CASE OuterLock(t)
      BY <1>4, <1>6, <1>7 DEF OuterLock, GetMutex, AsLocal!OuterLock, AsLocal!GetMutex,
                              AsLocal!DriverCode
  <1>8. CASE Lock(t)
      BY <1>4, <1>6, <1>8 DEF Lock, GetMutex, AsLocal!Lock, AsLocal!GetMutex,
                              AsLocal!DriverCode
  <1>9. CASE WriteTransfer(t)
    <2>1. BytesOf(t) = AsLocal!BytesOf(t)
        BY <1>4 DEF BytesOf, AsLocal!BytesOf
    <2>2. \A acked, sent : WriteResult(t, acked, sent) = AsLocal!WriteResult(t, acked, sent)
        BY <1>4, <2>1 DEF WriteResult, AsLocal!WriteResult
    <2>3. PICK acked \in BOOLEAN, sent \in 0..BytesOf(t) :
              /\ pointer' = IF sent = 0 THEN pointer
                            ELSE [pointer EXCEPT ![op[t].call.dev] = op[t].call.reg]
              /\ op' = [op EXCEPT ![t] =
                     [op[t] EXCEPT !.pc = "unlock", !.res = WriteResult(t, acked, sent)]]
        BY <1>9 DEF WriteTransfer
    <2>4. RemoteOp' = [RemoteOp EXCEPT ![t] = [RemoteOp[t] EXCEPT !.pc = "unlock",
                                      !.res = AsLocal!WriteResult(t, acked, sent)]]
        BY <1>4, <1>6, <2>2, <2>3
    <2>5. AsLocal!WriteTransfer(t)
        BY <1>4, <1>9, <2>1, <2>3, <2>4 DEF WriteTransfer, AsLocal!WriteTransfer
    <2> QED
        BY <2>5 DEF AsLocal!DriverCode
  <1>10. CASE ReadTransfer(t)
      BY <1>4, <1>6, <1>10
         DEF ReadTransfer, ReadResult, AsLocal!ReadTransfer, AsLocal!ReadResult,
             AsLocal!DriverCode
  <1>11. CASE StopBit(t)
      BY <1>4, <1>6, <1>11 DEF StopBit, AsLocal!StopBit, AsLocal!DriverCode
  <1>12. CASE Unlock(t)
      BY <1>4, <1>6, <1>12
         DEF Unlock, PutMutex, Finished, AsLocal!Unlock, AsLocal!PutMutex,
             AsLocal!Finished, AsLocal!DriverCode
  <1>13. CASE OuterUnlock(t)
      BY <1>4, <1>6, <1>13
         DEF OuterUnlock, PutMutex, Finished, AsLocal!OuterUnlock, AsLocal!PutMutex,
             AsLocal!Finished, AsLocal!DriverCode
  <1> QED
      BY <1>7, <1>8, <1>9, <1>10, <1>11, <1>12, <1>13 DEF DriverCode

\* Every step of the tiles is a step of the driver's callers, or a stutter: the
\* messages that carry a call and its results are not seen.
LEMMA RemoteStep ==
    ASSUME RpcInv, RpcInv', [RpcNext]_allVars
    PROVE  [AsLocal!I2cNext]_(AsLocal!i2cVars)
  <1> USE ClientsAssumption
  <1>1. ASSUME NEW t \in LocalTasks, LocalStep(t) PROVE AsLocal!I2cNext
    <2>1. t \in Threads /\ t \notin Clients /\ UNCHANGED rpcVars
        BY <1>1 DEF LocalTasks, LocalStep
    <2>2. op'[t] = RemoteOp'[t] /\ op[t] = RemoteOp[t]
        BY <2>1 DEF RemoteOp, LocalTasks
    <2>3. \A u \in Threads \ {t} : op'[u] = op[u]
        BY <1>1 DEF LocalStep, Begin, Return, RpcInv, DriverInv, DriverType
    <2>4. \A u \in Threads \ {t} : RemoteOp'[u] = RemoteOp[u]
        BY <2>1, <2>3, RemoteOpKept DEF rpcVars
    <2>5. CASE Return(t)
      <3>1. op'[t] = NoOp
          BY <2>1, <2>5 DEF Return, RpcInv, DriverInv, DriverType
      <3>2. RemoteOp' = [RemoteOp EXCEPT ![t] = NoOp]
          BY <2>1, <2>2, <2>4, <3>1, RemoteOpChange
      <3>3. AsLocal!Return(t)
          BY <2>2, <2>5, <3>2 DEF Return, AsLocal!Return, AsLocal!NoOp, NoOp
      <3> QED
          BY <2>1, <3>3 DEF AsLocal!I2cNext
    <2>6. ASSUME NEW c \in Calls, Begin(t, c) PROVE AsLocal!I2cNext
      <3>1. op'[t] = Begun(c)
          BY <2>1, <2>6 DEF Begin, RpcInv, DriverInv, DriverType
      <3>2. RemoteOp' = [RemoteOp EXCEPT ![t] = Begun(c)]
          BY <2>1, <2>2, <2>4, <3>1, RemoteOpChange
      <3>3. AsLocal!Begin(t, c)
          BY <2>2, <2>6, <3>2 DEF Begin, AsLocal!Begin, AsLocal!Begun, Begun
      <3> QED
          BY <2>1, <3>3 DEF AsLocal!I2cNext, AsLocal!Calls, Calls
    <2> QED
        BY <1>1, <2>5, <2>6 DEF LocalStep
  <1>2. ASSUME NEW t \in Threads, DriverCode(t), UNCHANGED rpcVars PROVE AsLocal!I2cNext
      BY <1>2, RemoteDriverCode DEF AsLocal!I2cNext
  <1>3. ASSUME NEW c \in Clients, HostReceive(c) PROVE UNCHANGED AsLocal!i2cVars
    <2>1. InRequest(c) /\ InHost(c)'
      <3>1. InRequest(c) /\ client[c] \in Calls
          BY <1>3 DEF HostReceive, RpcInv, OnePlace, Nowhere, InHost, InResponse, InRequest,
                      RpcType
      <3>2. op'[c] = Begun(client[c])
          BY <1>3, <3>1, OneMessage DEF HostReceive, InRequest, RpcInv, DriverInv, DriverType
      <3> QED
          BY <3>1, <3>2, BegunShape DEF RpcInv, OnePlace, Nowhere, InRequest, InResponse
    <2>2. op'[c] = Begun(client[c]) /\ UNCHANGED <<client, response, owner, depth, pointer>>
        BY <1>3, <2>1, OneMessage
           DEF HostReceive, InRequest, RpcInv, RpcType, DriverInv, DriverType
    <2>3. RemoteOp[c] = Begun(client[c])
        BY <2>1, RemoteOpFacts
    <2>4. RemoteOp'[c] = op'[c]
        BY <2>1 DEF InHost, RemoteOp
    <2>5. \A u \in Threads \ {c} :
              op'[u] = op[u] /\ (u \in Clients => request'[u] = request[u])
        BY <1>3 DEF HostReceive, RpcInv, RpcType, DriverInv, DriverType
    <2>6. \A u \in Threads \ {c} : RemoteOp'[u] = RemoteOp[u]
        BY <2>2, <2>5, RemoteOpKept
    <2>7. RemoteOp' = RemoteOp
        BY <2>2, <2>3, <2>4, <2>6 DEF RemoteOp
    <2> QED
        BY <2>2, <2>7 DEF AsLocal!i2cVars
  <1>4. ASSUME NEW c \in Clients, HostReply(c) PROVE UNCHANGED AsLocal!i2cVars
    <2>1. InHost(c)
        BY <1>4 DEF HostReply, RpcInv, OnePlace, Nowhere, InRequest, InResponse
    <2>2. response'[c] = <<Response(c)>> /\ op'[c] = NoOp
          /\ UNCHANGED <<client, request, owner, depth, pointer>>
        BY <1>4, <2>1, OneMessage
           DEF HostReply, InHost, RpcInv, RpcType, DriverInv, DriverType
    <2>3. RemoteOp[c] = op[c]
        BY <2>1, RemoteOpFacts
    <2>4. op[c] = [pc |-> "done", call |-> client[c], stage |-> None,
                   res |-> op[c].res, got |-> op[c].got]
        BY <1>4, <2>1 DEF HostReply, InHost, RpcInv, DriverInv, DriverType, OpType,
                          CallsShaped, CallShape
    <2>5. RemoteOp'[c] = [pc |-> "done", call |-> client[c], stage |-> None,
                          res |-> op[c].res, got |-> op[c].got]
      <3>1. Head(response'[c]) = Response(c) /\ response'[c] # <<>> /\ request'[c] = <<>>
          BY <2>1, <2>2, OneMessage DEF InHost
      <3> QED
          BY <2>2, <3>1 DEF RemoteOp, LocalTasks, Response
    <2>6. \A u \in Threads \ {c} :
              op'[u] = op[u] /\ (u \in Clients => response'[u] = response[u])
        BY <1>4 DEF HostReply, RpcInv, RpcType, DriverInv, DriverType
    <2>7. \A u \in Threads \ {c} : RemoteOp'[u] = RemoteOp[u]
        BY <2>2, <2>6, RemoteOpKept
    <2>8. RemoteOp' = RemoteOp
        BY <2>3, <2>4, <2>5, <2>7 DEF RemoteOp
    <2> QED
        BY <2>2, <2>8 DEF AsLocal!i2cVars
  <1>5. ASSUME NEW c \in Clients, ClientReturn(c) PROVE AsLocal!I2cNext
    <2>1. InResponse(c) /\ client'[c] = None
        BY <1>5 DEF ClientReturn, RpcInv, RpcType, OnePlace, Nowhere, InRequest, InHost
    <2>2. RemoteOp[c].pc = "done"
      <3>1. RemoteOp[c] = [pc |-> "done", call |-> client[c], stage |-> None,
                           res |-> Head(response[c]).res, got |-> Head(response[c]).got]
          BY <2>1, RemoteOpFacts
      <3> QED
          BY <3>1
    <2>3. Nowhere(c)'
        BY <2>1 DEF RpcInv, OnePlace, InRequest, InHost, InResponse
    <2>4. op'[c] = NoOp
        BY <2>3 DEF Nowhere, RpcInv, DriverInv, CallsShaped, CallShape
    <2>5. RemoteOp'[c] = NoOp
        BY <2>3, <2>4 DEF Nowhere, RemoteOp
    <2>6. \A u \in Threads \ {c} : op'[u] = op[u] /\
              (u \in Clients => /\ response'[u] = response[u] /\ request'[u] = request[u]
                                /\ client'[u] = client[u])
        BY <1>5 DEF ClientReturn, i2cVars, RpcInv, RpcType
    <2>7. \A u \in Threads \ {c} : RemoteOp'[u] = RemoteOp[u]
        BY <2>6, RemoteOpKept
    <2>8. RemoteOp' = [RemoteOp EXCEPT ![c] = NoOp]
        BY <2>5, <2>7, RemoteOpChange
    <2>9. AsLocal!Return(c)
        BY <1>5, <2>2, <2>8 DEF ClientReturn, i2cVars, AsLocal!Return, AsLocal!NoOp, NoOp
    <2> QED
        BY <2>9 DEF AsLocal!I2cNext
  <1>6. ASSUME NEW c \in Clients, NEW call \in Calls, ClientCall(c, call)
        PROVE  AsLocal!I2cNext
    <2>1. Nowhere(c) /\ client'[c] = call
        BY <1>6 DEF ClientCall, RpcInv, RpcType, OnePlace, InRequest, InHost, InResponse
    <2>2. RemoteOp[c].pc = "idle"
        BY <2>1, RemoteOpFacts, NoOpShape
    <2>3. request'[c] = <<call>>
        BY <1>6, <2>1, OneMessage DEF ClientCall, Nowhere, RpcInv, RpcType
    <2>4. RemoteOp'[c] = Begun(call)
        BY <2>3, OneMessage DEF RemoteOp, LocalTasks
    <2>5. \A u \in Threads \ {c} : op'[u] = op[u] /\
              (u \in Clients => /\ response'[u] = response[u] /\ request'[u] = request[u]
                                /\ client'[u] = client[u])
        BY <1>6 DEF ClientCall, i2cVars, RpcInv, RpcType
    <2>6. \A u \in Threads \ {c} : RemoteOp'[u] = RemoteOp[u]
        BY <2>5, RemoteOpKept
    <2>7. RemoteOp' = [RemoteOp EXCEPT ![c] = Begun(call)]
        BY <2>4, <2>6, RemoteOpChange
    <2>8. AsLocal!Begin(c, call)
        BY <1>6, <2>2, <2>7 DEF ClientCall, i2cVars, AsLocal!Begin, AsLocal!Begun, Begun
    <2> QED
        BY <2>8 DEF AsLocal!I2cNext, AsLocal!Calls, Calls
  <1>7. CASE UNCHANGED allVars
      BY <1>7 DEF allVars, i2cVars, rpcVars, AsLocal!i2cVars, RemoteOp
  <1> QED
      BY <1>1, <1>2, <1>3, <1>4, <1>5, <1>6, <1>7 DEF RpcNext, HostStep

\* The initial states and every step of I2cMasterRpc are those of I2cMaster
\* seen through RemoteOp, for any number of client tiles and threads: a remote
\* call is carried out once, and returns the results of its own execution.
\* (That it returns, the rest of ServedAsLocal, rests on fairness.)
THEOREM I2cServesAsLocal ==
    RpcSpec => AsLocal!I2cInit /\ [][AsLocal!I2cNext]_(AsLocal!i2cVars)
  <1>1. RpcInv /\ RpcInv' /\ [RpcNext]_allVars => [AsLocal!I2cNext]_(AsLocal!i2cVars)
      BY RemoteStep
  <1> QED
      BY <1>1, RemoteInit, RpcInitInv, RpcStepInv, PTL DEF RpcSpec
=============================================================================
