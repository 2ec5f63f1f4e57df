---------------------------- MODULE SampleBuffer ----------------------------
(***************************************************************************)
(* The ring buffers of the I2S driver (drivers/i2s/src/rtos_i2s.c) and of  *)
(* the microphone array driver (drivers/mic_array/src/rtos_mic_array.c).   *)
(* The bus thread of I2S, or the interrupt routine of the microphones,     *)
(* fills the receive buffer without ever waiting, and a task takes frames  *)
(* out of it; with I2S another task fills a send buffer that the bus       *)
(* thread empties.  A task that lacks frames, or room, says how many it    *)
(* requires and waits on a semaphore, perhaps not forever.                 *)
(*                                                                         *)
(* The unit is a frame, which lib_i2s exchanges in one callback.  A frame  *)
(* is named by its number among the frames stored, modulo SampleMod, as    *)
(* the counters are.  One access to a counter both sides use is one step.  *)
(***************************************************************************)
EXTENDS Integers, Sequences, FiniteSets

CONSTANTS
    SampleKinds,  \* the drivers looked at, among "i2s", "input" (I2S with
                  \* no outputs), "filtered" (both callbacks set) and "mic"
    RingSize,     \* frames in a buffer
    FrameCounts,  \* the frame_counts tasks ask for
    MicBlock,     \* MIC_ARRAY_CONFIG_SAMPLES_PER_FRAME
    SampleMod,    \* modulus of the counters (2^32 in the code), made small
    SameRetry     \* a call after a timeout asks for as many frames as before

\* The counters tell a full buffer from an empty one.
ASSUME SampleAssumption ==
    /\ RingSize \in Nat \ {0} /\ SampleMod \in Nat /\ RingSize < SampleMod
    /\ MicBlock \in Nat /\ FrameCounts \subseteq Nat

VARIABLES
    smpKind,      \* the driver
    ring,         \* ring[d]: the buffer of direction d
    bus,          \* where the bus thread or the interrupt routine is
    caller,       \* caller[d]: the call of the task of direction d
    isrCmd,       \* ctx->isr_cmd, the directions to resume
    isrChan       \* commands in c_i2s_isr

smpVars == <<smpKind, ring, bus, caller, isrCmd, isrChan>>

Dirs == IF smpKind \in {"mic", "input"} THEN {"rx"} ELSE {"rx", "tx"}

\* Frames that one callback or one interrupt brings.
Block == IF smpKind = "mic" THEN MicBlock ELSE 1

CountPlus(a, b) == (a + b) % SampleMod
Available(r) == (r.total_written - r.total_read) % SampleMod
Free(r) == (RingSize - Available(r)) % SampleMod

SampleInit ==
    /\ smpKind \in SampleKinds
    /\ ring = [d \in {"rx", "tx"} |->
                 [buf |-> [i \in 0..RingSize - 1 |-> 0],
                  write_index |-> 0, read_index |-> 0,
                  total_written |-> 0, total_read |-> 0,
                  required |-> 0, blocked |-> FALSE, sem |-> 0, intact |-> TRUE]]
    /\ bus = [pc |-> "receive", n |-> 0]
    /\ caller = [d \in {"rx", "tx"} |-> [pc |-> "idle", count |-> 0]]
    /\ isrCmd = {} /\ isrChan = <<>>

\* n frames copied to the ring from the write index on, and on at its start.
Stored(r, n) ==
    [r EXCEPT !.buf = [i \in 0..RingSize - 1 |->
                         LET k == (i - r.write_index) % RingSize
                         IN  IF k < n THEN CountPlus(r.total_written, k) ELSE r.buf[i]],
              !.write_index = (@ + n) % RingSize]

\* n frames copied out of the ring.  intact records, for the properties, that
\* they are the frames stored after the last one that was taken.
Taken(r, n) ==
    [r EXCEPT !.intact = /\ @ /\ n <= Available(r)
                         /\ \A k \in 0..n - 1 :
                              r.buf[(r.read_index + k) % RingSize] = CountPlus(r.total_read, k),
              !.read_index = (@ + n) % RingSize]

Written(r, n) == [r EXCEPT !.total_written = CountPlus(@, n)]
Read(r, n) == [r EXCEPT !.total_read = CountPlus(@, n)]

BusGoto(there, n) == bus' = [pc |-> there, n |-> n]

-----------------------------------------------------------------------------
(***************************************************************************)
(* i2s_receive and rtos_mic_array_isr.                                     *)
(***************************************************************************)

\* Frames that do not fit are dropped, and so is a frame that a receive filter
\* keeps back.
BusReceive ==
    /\ bus.pc = "receive"
    /\ \/ /\ Block <= Free(ring["rx"])
          /\ ring' = [ring EXCEPT !["rx"] = Stored(@, Block)]
          /\ BusGoto("received", Block)
       \/ /\ Block > Free(ring["rx"]) \/ smpKind = "filtered"
          /\ BusGoto("rx_check", 0)
          /\ UNCHANGED ring
    /\ UNCHANGED <<smpKind, caller, isrCmd, isrChan>>

BusReceived ==
    /\ bus.pc = "received"
    /\ ring' = [ring EXCEPT !["rx"] = Written(@, bus.n)]
    /\ BusGoto("rx_check", 0)
    /\ UNCHANGED <<smpKind, caller, isrCmd, isrChan>>

\* Mutant: the task is woken as soon as there is a frame.
RequiredReceivedAny(r) == r.required > 0 /\ Available(r) > 0

RequiredReceived(r) == r.required > 0 /\ Available(r) >= r.required

\* The I2S thread goes on with i2s_send, which sends the command, unless there
\* are no outputs; the microphones' interrupt routine puts the semaphore itself.
BusReceiveCheck ==
    /\ bus.pc = "rx_check"
    /\ LET resume == RequiredReceived(ring["rx"]) IN
       /\ ring' = IF resume
                  THEN [ring EXCEPT !["rx"].required = 0,
                                    !["rx"].sem = IF smpKind = "mic" THEN 1 ELSE @]
                  ELSE ring
       /\ isrCmd' = IF resume /\ "tx" \in Dirs THEN isrCmd \cup {"rx"} ELSE isrCmd
       /\ isrChan' = IF resume /\ smpKind = "input" THEN Append(isrChan, {"rx"}) ELSE isrChan
    /\ BusGoto(IF "tx" \in Dirs THEN "send" ELSE "receive", 0)
    /\ UNCHANGED <<smpKind, caller>>

(***************************************************************************)
(* i2s_send.                                                               *)
(***************************************************************************)

\* Without a filter a frame is taken when there is one; a filter takes any
\* number of the frames that lie before the end of the buffer.
BusSend ==
    /\ bus.pc = "send"
    /\ LET r == ring["tx"] IN
       \E n \in 0..RingSize - r.read_index :
          /\ n <= Available(r)
          /\ smpKind = "i2s" => n = IF Available(r) > 0 THEN 1 ELSE 0
          /\ ring' = [ring EXCEPT !["tx"] = IF n > 0 THEN Taken(@, n) ELSE @]
          /\ BusGoto("sent", n)
    /\ UNCHANGED <<smpKind, caller, isrCmd, isrChan>>

BusSent ==
    /\ bus.pc = "sent"
    /\ ring' = [ring EXCEPT !["tx"] = Read(@, bus.n)]
    /\ BusGoto("tx_check", 0)
    /\ UNCHANGED <<smpKind, caller, isrCmd, isrChan>>

\* Mutant: the command to resume the receiver is overwritten.
CommandOf(resume) == IF resume THEN {"tx"} ELSE {}

\* The command of both callbacks.
Command(resume) == isrCmd \cup (IF resume THEN {"tx"} ELSE {})

BusSendCheck ==
    /\ bus.pc = "tx_check"
    /\ LET r == ring["tx"]
           resume == r.required > 0 /\ Free(r) >= r.required
       IN  /\ ring' = IF resume THEN [ring EXCEPT !["tx"].required = 0] ELSE ring
           /\ isrChan' = IF Command(resume) # {} THEN Append(isrChan, Command(resume))
                                                 ELSE isrChan
    /\ isrCmd' = {}
    /\ BusGoto("receive", 0)
    /\ UNCHANGED <<smpKind, caller>>

\* rtos_i2s_isr
I2sIsr ==
    /\ isrChan # <<>>
    /\ ring' = [d \in {"rx", "tx"} |->
                  IF d \in Head(isrChan) THEN [ring[d] EXCEPT !.sem = 1] ELSE ring[d]]
    /\ isrChan' = Tail(isrChan)
    /\ UNCHANGED <<smpKind, bus, caller, isrCmd>>

-----------------------------------------------------------------------------
(***************************************************************************)
(* i2s_local_rx, i2s_local_tx and mic_array_local_rx.                      *)
(***************************************************************************)

CallerGoto(d, there) == caller' = [caller EXCEPT ![d].pc = there]

\* A call; the one after a timeout finds the direction still blocked.
SampleCall(d) ==
    /\ caller[d].pc = "idle"
    /\ \E n \in FrameCounts :
          /\ n <= RingSize
          /\ ring[d].blocked /\ SameRetry => n = caller[d].count
          /\ caller' = [caller EXCEPT ![d] =
                 [pc |-> IF ring[d].blocked THEN "wait" ELSE "look", count |-> n]]
    /\ UNCHANGED <<smpKind, ring, bus, isrCmd, isrChan>>

SampleLook(d) ==
    /\ caller[d].pc = "look"
    /\ LET there == IF d = "rx" THEN Available(ring[d]) ELSE Free(ring[d])
       IN  CallerGoto(d, IF caller[d].count > there THEN "require" ELSE "copy")
    /\ UNCHANGED <<smpKind, ring, bus, isrCmd, isrChan>>

SampleRequire(d) ==
    /\ caller[d].pc = "require"
    /\ ring' = [ring EXCEPT ![d].required = caller[d].count, ![d].blocked = TRUE]
    /\ CallerGoto(d, "wait")
    /\ UNCHANGED <<smpKind, bus, isrCmd, isrChan>>

SampleResume(d) ==
    /\ caller[d].pc = "wait" /\ ring[d].sem = 1
    /\ ring' = [ring EXCEPT ![d].sem = 0, ![d].blocked = FALSE]
    /\ CallerGoto(d, "copy")
    /\ UNCHANGED <<smpKind, bus, isrCmd, isrChan>>

\* The call returns no frames, and stays blocked for the next one.
SampleTimeout(d) ==
    /\ caller[d].pc = "wait" /\ ring[d].sem = 0
    /\ CallerGoto(d, "idle")
    /\ UNCHANGED <<smpKind, ring, bus, isrCmd, isrChan>>

SampleCopy(d) ==
    /\ caller[d].pc = "copy"
    /\ ring' = [ring EXCEPT ![d] = IF d = "rx" THEN Taken(@, caller[d].count)
                                               ELSE Stored(@, caller[d].count)]
    /\ CallerGoto(d, "count")
    /\ UNCHANGED <<smpKind, bus, isrCmd, isrChan>>

SampleReturn(d) ==
    /\ caller[d].pc = "count"
    /\ ring' = [ring EXCEPT ![d] = IF d = "rx" THEN Read(@, caller[d].count)
                                               ELSE Written(@, caller[d].count)]
    /\ caller' = [caller EXCEPT ![d] = [pc |-> "idle", count |-> 0]]
    /\ UNCHANGED <<smpKind, bus, isrCmd, isrChan>>

-----------------------------------------------------------------------------
BusCode == \/ BusReceive \/ BusReceived \/ BusReceiveCheck
           \/ BusSend \/ BusSent \/ BusSendCheck

SampleCode(d) == \/ SampleLook(d) \/ SampleRequire(d) \/ SampleResume(d)
                 \/ SampleCopy(d) \/ SampleReturn(d)

SampleNext ==
    \/ BusCode \/ I2sIsr
    \/ \E d \in Dirs : SampleCall(d) \/ SampleTimeout(d) \/ SampleCode(d)

\* The bus never stops, interrupts are served and tasks run.
SampleFairness ==
    /\ WF_smpVars(BusCode) /\ WF_smpVars(I2sIsr)
    /\ \A d \in {"rx", "tx"} : WF_smpVars(SampleCode(d))

SampleSpec == SampleInit /\ [][SampleNext]_smpVars /\ SampleFairness

SampleTypeOK ==
    /\ smpKind \in SampleKinds
    /\ ring \in [{"rx", "tx"} ->
          [buf : [0..RingSize - 1 -> 0..SampleMod - 1],
           write_index : 0..RingSize - 1, read_index : 0..RingSize - 1,
           total_written : 0..SampleMod - 1, total_read : 0..SampleMod - 1,
           required : {0} \cup FrameCounts, blocked : BOOLEAN, sem : {0, 1},
           intact : BOOLEAN]]
    /\ bus \in [pc : {"receive", "received", "rx_check", "send", "sent", "tx_check"},
                n : 0..RingSize]
    /\ caller \in [{"rx", "tx"} ->
          [pc : {"idle", "look", "require", "wait", "copy", "count"}, count : {0} \cup FrameCounts]]

\* Every frame taken from a buffer, by a task or by the bus, is the one stored
\* after the last one taken: nothing is read before it is written, written
\* over before it is read, or read twice, also when calls time out.
SamplesInOrder == \A d \in {"rx", "tx"} : ring[d].intact

\* A direction that is blocked has a wakeup on its way, and one only: the
\* required count, a command, or the semaphore.
WakeupPending ==
    \A d \in Dirs :
        LET ways == (IF ring[d].required > 0 THEN 1 ELSE 0)
                      + (IF d \in isrCmd THEN 1 ELSE 0)
                      + Cardinality({i \in DOMAIN isrChan : d \in isrChan[i]})
                      + ring[d].sem
        IN  ways = IF ring[d].blocked THEN 1 ELSE 0

\* A task waits for frames or for room, and may count on them.  A filter may keep
\* everything back, and a block of the microphones that does not fit while the
\* task still lacks frames is dropped again and again: the task must not ask for
\* more than the buffer holds less a block, plus one.
SampleAwaited(d) ==
    /\ smpKind # "filtered" /\ caller[d].count + Block <= RingSize + 1
    /\ caller[d].pc = "wait"
=============================================================================
