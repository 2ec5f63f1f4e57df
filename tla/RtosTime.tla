------------------------------ MODULE RtosTime ------------------------------
(***************************************************************************)
(* The clock of rtos_support (src/rtos_time.c) on top of its lock: the     *)
(* tick interrupt adds its period, tasks read and set the time.  The time  *)
(* is two words, seconds and microseconds; the latter is a fixed point     *)
(* number in 32 bits that wraps at a second, close to the end of its       *)
(* range.  One access to a word is one step.                               *)
(*                                                                         *)
(* The numbers are scaled: a second is OneSecond units, a microsecond      *)
(* UsUnits of them (2^12 in the code) and a word holds UintMod values.     *)
(***************************************************************************)
EXTENDS RtosLocks

CONSTANTS
    OneSecond,  \* ONE_SECOND_US, 4096000000 in the code
    UsUnits,    \* 2^US_FRACTIONAL_BITS
    UintMod,    \* modulus of uint32_t
    TickPeriod, \* what the tick interrupt adds
    SecondsMod  \* bound: the seconds wrap here (at 2^64 in the code)

\* A tick must fit between a second and the end of the range: 48 ms.
ASSUME TickAssumption ==
    /\ OneSecond \in Nat /\ TickPeriod \in 1..OneSecond
    /\ UintMod \in Nat /\ OneSecond + TickPeriod <= UintMod

\* A microsecond has units, and there are seconds to count.
ASSUME UnitsAssumption == UsUnits \in Nat \ {0} /\ SecondsMod \in Nat \ {0}

VARIABLES
    current_time,
    timeCall,   \* timeCall[c][l]: the call of a context, its stage and its time
    shown       \* the units that the clock ought to show

timeVars == <<vars, current_time, timeCall, shown>>

NoTime == [seconds |-> 0, microseconds |-> 0]
NoCall == [fn |-> "none", stage |-> "none", time |-> NoTime]

\* Times that tasks set.
NewTimes == [seconds : 0..SecondsMod - 1, microseconds : 0..(OneSecond \div UsUnits) - 1]

Units(time) == time.seconds * OneSecond + time.microseconds

TimeInit ==
    /\ Init
    /\ current_time = NoTime
    /\ timeCall = [c \in Cores |-> [l \in Levels |-> NoCall]]
    /\ shown = 0

Stage(c, l, stage) == timeCall' = [timeCall EXCEPT ![c][l].stage = stage]

-----------------------------------------------------------------------------
\* Mutant: the time is read without the lock.
TimeBeginUnlocked(c, l, fn, time) ==
    /\ Runs(c, l) /\ pc[c][l] = "run" /\ timeCall[c][l] = NoCall /\ depth[c][l] < MaxDepth
    /\ timeCall' = [timeCall EXCEPT ![c][l] =
           [fn |-> fn, stage |-> IF fn = "get" THEN "first" ELSE "enter", time |-> time]]
    /\ UNCHANGED <<vars, current_time, shown>>

TimeBegin(c, l, fn, time) ==
    /\ Runs(c, l) /\ pc[c][l] = "run" /\ timeCall[c][l] = NoCall /\ depth[c][l] < MaxDepth
    /\ timeCall' = [timeCall EXCEPT ![c][l] = [fn |-> fn, stage |-> "enter", time |-> time]]
    /\ UNCHANGED <<vars, current_time, shown>>

\* The interrupt increments, tasks get and set; what is set is shifted before
\* the lock is taken.
TimeCall(c) ==
    \/ TimeBegin(c, "isr", "increment", NoTime)
    \/ TimeBegin(c, "task", "get", NoTime)
    \/ \E new_time \in NewTimes :
          TimeBegin(c, "task", "set", [new_time EXCEPT !.microseconds = (@ * UsUnits) % UintMod])

\* rtos_lock_acquire and rtos_lock_release, of the calls and of other code.
TimeLock(c, l) ==
    /\ \/ /\ AcquireHw(c, l) /\ timeCall[c][l].stage \in {"none", "enter"}
          /\ UNCHANGED timeCall
       \/ /\ AcquireCount(c, l)
          /\ Stage(c, l, IF timeCall[c][l].fn = "none" THEN "none" ELSE "first")
       \/ /\ ReleaseCount(c, l) /\ timeCall[c][l].stage \in {"none", "leave"}
          /\ timeCall' = [timeCall EXCEPT ![c][l] = NoCall]
       \/ /\ ReleaseHw(c, l) /\ UNCHANGED timeCall
    /\ UNCHANGED <<current_time, shown>>

\* What the call does under the lock, in two accesses.
TimeStage(c, l, fn, stage) ==
    /\ Runs(c, l) /\ timeCall[c][l].fn = fn /\ timeCall[c][l].stage = stage
    /\ UNCHANGED vars

rtos_time_increment(c, l) ==
    \/ /\ TimeStage(c, l, "increment", "first") /\ Stage(c, l, "second")
       /\ current_time' = [current_time EXCEPT !.microseconds = (@ + TickPeriod) % UintMod]
       /\ shown' = (shown + TickPeriod) % (SecondsMod * OneSecond)
    \/ /\ TimeStage(c, l, "increment", "second") /\ Stage(c, l, "leave")
       /\ current_time' = IF current_time.microseconds >= OneSecond
                          THEN [seconds |-> (current_time.seconds + 1) % SecondsMod,
                                microseconds |-> current_time.microseconds - OneSecond]
                          ELSE current_time
       /\ UNCHANGED shown

rtos_time_set(c, l) ==
    LET new_time == timeCall[c][l].time IN
    \/ /\ TimeStage(c, l, "set", "first") /\ Stage(c, l, "second")
       /\ current_time' = [current_time EXCEPT !.seconds = new_time.seconds]
       /\ UNCHANGED shown
    \/ /\ TimeStage(c, l, "set", "second") /\ Stage(c, l, "leave")
       /\ current_time' = [current_time EXCEPT !.microseconds = new_time.microseconds]
       /\ shown' = Units(new_time)

\* The conversion to microseconds follows the release.
rtos_time_get(c, l) ==
    /\ \/ /\ TimeStage(c, l, "get", "first")
          /\ timeCall' = [timeCall EXCEPT ![c][l] =
                 [@ EXCEPT !.stage = "second", !.time.seconds = current_time.seconds]]
       \/ /\ TimeStage(c, l, "get", "second")
          /\ timeCall' = [timeCall EXCEPT ![c][l] =
                 [@ EXCEPT !.stage = "leave", !.time.microseconds = current_time.microseconds]]
    /\ UNCHANGED <<current_time, shown>>

\* Interrupt entry and return.
TimeIsr(c) ==
    /\ \/ IsrEnter(c) /\ (c \in MaskedTasks => timeCall[c]["task"] = NoCall)
       \/ IsrExit(c) /\ timeCall[c]["isr"] = NoCall
    /\ UNCHANGED <<current_time, timeCall, shown>>

TimeNext ==
    \E c \in Cores :
        \/ TimeIsr(c) \/ TimeCall(c)
        \/ \E l \in Levels :
              \/ TimeLock(c, l) \/ rtos_time_increment(c, l)
              \/ rtos_time_set(c, l) \/ rtos_time_get(c, l)

TimeSpec == TimeInit /\ [][TimeNext]_timeVars

-----------------------------------------------------------------------------
\* The clock shows every tick since it was set, across the wrap of the
\* microseconds, whenever no core is changing it; and a task that has read it
\* leaves with a time that the clock showed: seconds and microseconds that
\* belong together, though ticks and other tasks come between any two accesses.
TimeExact ==
    /\ (\A c \in Cores, l \in Levels : timeCall[c][l].stage # "second"
                                         \/ timeCall[c][l].fn = "get")
          => Units(current_time) = shown /\ current_time.microseconds < OneSecond
    /\ \A c \in Cores, l \in Levels :
          timeCall[c][l].fn = "get" /\ timeCall[c][l].stage = "leave"
              => timeCall[c][l].time = current_time
=============================================================================
