----------------------------- MODULE I2cMaster -----------------------------
(***************************************************************************)
(* The I2C master driver on the tile that owns the bus                     *)
(* (drivers/i2c/src/rtos_i2c_master.c).  Threads call write, read,         *)
(* stop_bit_send, reg_write and reg_read; the recursive mutex ctx->lock is *)
(* held for every transfer, and for both transfers of reg_read.            *)
(*                                                                         *)
(* A device holds a register pointer: the first byte written sets it, and  *)
(* a read returns the register it points at.  Which register a read        *)
(* returns is all the properties need, so bytes stand for register         *)
(* addresses.  The transfers themselves are lib_i2c's: a device may refuse *)
(* or cut short any of them.                                               *)
(***************************************************************************)
EXTENDS Integers

CONSTANTS
    Threads,    \* the threads of this tile that call the driver
    Devices,
    Registers,
    None

VARIABLES
    owner, depth,  \* ctx->lock, a recursive mutex
    pointer,       \* pointer[d]: the register the next read of d returns
    op             \* op[t]: the call of thread t

i2cVars == <<owner, depth, pointer, op>>

Calls == [fn : {"write", "read", "stop_bit_send", "reg_write", "reg_read"},
          dev : Devices, reg : Registers]

ASSUME I2cAssumption == None \notin Threads \cup Registers \cup Calls

\* stage: the transfer of the call that is being made; res: what it returned;
\* got: the register a read returned.
NoOp == [pc |-> "idle", call |-> None, stage |-> None, res |-> None, got |-> None]
Finished(o) == [o EXCEPT !.pc = "done", !.stage = None]

\* reg_read takes the mutex for both of its transfers, and starts with a write.
Begun(c) ==
    [pc |-> IF c.fn = "reg_read" THEN "outer" ELSE "lock", call |-> c,
     stage |-> CASE c.fn \in {"write", "reg_write", "reg_read"} -> "write"
                 [] c.fn = "read" -> "read"
                 [] c.fn = "stop_bit_send" -> "stop",
     res |-> None, got |-> None]

\* rtos_i2c_master_start
I2cInit ==
    /\ owner = None /\ depth = 0
    /\ pointer \in [Devices -> Registers]
    /\ op = [t \in Threads |-> NoOp]

-----------------------------------------------------------------------------
\* rtos_osal_mutex_get and rtos_osal_mutex_put on a recursive mutex.
GetMutex(t) ==
    /\ owner \in {None, t}
    /\ owner' = t /\ depth' = depth + 1

PutMutex(t) ==
    /\ depth' = depth - 1
    /\ owner' = IF depth = 1 THEN None ELSE owner

Begin(t, c) ==
    /\ op[t].pc = "idle"
    /\ op' = [op EXCEPT ![t] = Begun(c)]
    /\ UNCHANGED <<owner, depth, pointer>>

\* i2c_master_local_reg_read: the mutex for both transfers.
OuterLock(t) ==
    /\ op[t].pc = "outer" /\ GetMutex(t)
    /\ op' = [op EXCEPT ![t].pc = "lock"]
    /\ UNCHANGED pointer

\* i2c_master_local_write, _read, _stop_bit_send: the mutex for one transfer.
Lock(t) ==
    /\ op[t].pc = "lock" /\ GetMutex(t)
    /\ op' = [op EXCEPT ![t].pc = "transfer"]
    /\ UNCHANGED pointer

\* The bytes of a write: a register address, and the data of reg_write.
BytesOf(t) == IF op[t].call.fn = "reg_write" THEN 2 ELSE 1

\* i2c_master_write: acknowledged or not, with so many bytes sent.
WriteResult(t, acked, sent) ==
    CASE op[t].call.fn = "write" -> IF acked THEN "I2C_ACK" ELSE "I2C_NACK"
      [] ~ acked \/ sent = 0 -> "I2C_REGOP_DEVICE_NACK"
      [] sent < BytesOf(t) -> "I2C_REGOP_INCOMPLETE"
      [] OTHER -> "I2C_REGOP_SUCCESS"

WriteTransfer(t) ==
    /\ op[t].pc = "transfer" /\ op[t].stage = "write"
    /\ \E acked \in BOOLEAN, sent \in 0..BytesOf(t) :
        /\ pointer' = IF sent = 0 THEN pointer
                      ELSE [pointer EXCEPT ![op[t].call.dev] = op[t].call.reg]
        /\ op' = [op EXCEPT ![t] =
               [@ EXCEPT !.pc = "unlock", !.res = WriteResult(t, acked, sent)]]
    /\ UNCHANGED <<owner, depth>>

ReadResult(t, acked) ==
    CASE op[t].call.fn = "read" -> IF acked THEN "I2C_ACK" ELSE "I2C_NACK"
      [] op[t].call.fn = "reg_read" ->
            IF acked THEN "I2C_REGOP_SUCCESS" ELSE "I2C_REGOP_DEVICE_NACK"

ReadTransfer(t) ==
    /\ op[t].pc = "transfer" /\ op[t].stage = "read"
    /\ \E acked \in BOOLEAN :
        op' = [op EXCEPT ![t] =
            [@ EXCEPT !.pc = "unlock", !.res = ReadResult(t, acked),
                      !.got = IF acked THEN pointer[op[t].call.dev] ELSE None]]
    /\ UNCHANGED <<owner, depth, pointer>>

StopBit(t) ==
    /\ op[t].pc = "transfer" /\ op[t].stage = "stop"
    /\ op' = [op EXCEPT ![t].pc = "unlock"]
    /\ UNCHANGED <<owner, depth, pointer>>

\* Mutant of Unlock: reg_read holds the mutex for one transfer at a time.
UnlockBetween(t) ==
    /\ op[t].pc = "unlock"
    /\ owner' = None /\ depth' = 0
    /\ op' = [op EXCEPT ![t] =
           IF @.call.fn = "reg_read" /\ @.stage = "write" /\ @.res = "I2C_REGOP_SUCCESS"
           THEN [@ EXCEPT !.pc = "lock", !.stage = "read"] ELSE Finished(@)]
    /\ UNCHANGED pointer

\* The mutex is given back; reg_read goes on if its write succeeded.
Unlock(t) ==
    /\ op[t].pc = "unlock" /\ PutMutex(t)
    /\ op' = [op EXCEPT ![t] =
           IF @.call.fn # "reg_read" THEN Finished(@)
           ELSE IF @.stage = "write" /\ @.res = "I2C_REGOP_SUCCESS"
                THEN [@ EXCEPT !.pc = "lock", !.stage = "read"]
                ELSE [@ EXCEPT !.pc = "outer_unlock"]]
    /\ UNCHANGED pointer

OuterUnlock(t) ==
    /\ op[t].pc = "outer_unlock" /\ PutMutex(t)
    /\ op' = [op EXCEPT ![t] = Finished(@)]
    /\ UNCHANGED pointer

\* The call returns to its caller.
Return(t) ==
    /\ op[t].pc = "done"
    /\ op' = [op EXCEPT ![t] = NoOp]
    /\ UNCHANGED <<owner, depth, pointer>>

-----------------------------------------------------------------------------
DriverCode(t) ==
    \/ OuterLock(t) \/ Lock(t)
    \/ WriteTransfer(t) \/ ReadTransfer(t) \/ StopBit(t)
    \/ Unlock(t) \/ OuterUnlock(t)

I2cNext ==
    \E t \in Threads :
        \/ \E c \in Calls : Begin(t, c)
        \/ DriverCode(t)
        \/ Return(t)

\* A transfer ends, a thread that can run does, and the kernel gives a mutex
\* that becomes free again and again to everybody who waits for it.
CodeFairness(t) ==
    /\ SF_i2cVars(OuterLock(t) \/ Lock(t))
    /\ WF_i2cVars(DriverCode(t))

I2cSpec ==
    /\ I2cInit /\ [][I2cNext]_i2cVars
    /\ \A t \in Threads : CodeFairness(t) /\ WF_i2cVars(Return(t))

-----------------------------------------------------------------------------
I2cTypeOK ==
    /\ owner \in Threads \cup {None} /\ depth \in 0..2
    /\ pointer \in [Devices -> Registers]
    /\ \A t \in Threads :
        /\ op[t].pc \in {"idle", "outer", "lock", "transfer", "unlock",
                         "outer_unlock", "done"}
        /\ op[t].call \in Calls \cup {None}
        /\ op[t].stage \in {"write", "read", "stop", None}
        /\ op[t].got \in Registers \cup {None}

\* rtos_i2c_master_reg_read returns the register that it was asked for: no
\* other thread's transfer moves the device's pointer between its write and
\* its read, and a write that failed is not followed by a read.
ReadsItsRegister ==
    \A t \in Threads :
        op[t].pc = "done" /\ op[t].call.fn = "reg_read"
            => op[t].got = IF op[t].res = "I2C_REGOP_SUCCESS"
                           THEN op[t].call.reg ELSE None

\* The mutex is free once nobody is in a call, whatever path the calls took.
MutexGivenBack ==
    /\ (\A t \in Threads : op[t].pc \in {"idle", "outer", "done"}) => owner = None
    /\ owner = None <=> depth = 0
=============================================================================
