--------------------------- MODULE RtosTimeProofs ---------------------------
(***************************************************************************)
(* The recursive lock of rtos_support and the clock that it protects, for  *)
(* any number of cores, any nesting, any tick that fits, and any           *)
(* interleaving of interrupts, gets and sets, provided every task masks    *)
(* interrupts around its critical sections.                                *)
(***************************************************************************)
EXTENDS RtosTime, TLAPS

(***************************************************************************)
(* The lock.                                                               *)
(***************************************************************************)
\* A context that is not running on its core is outside: an interrupt routine
\* leaves all its sections before it returns, and a masking task is
\* interrupted only outside its own.
IdleOutside ==
    \A c \in Cores, l \in Levels : ~ Runs(c, l) => Outside(c, l)

\* Only the owner of the hardware lock is inside the functions or a section.
OnlyOwner ==
    \A c \in Cores, l \in Levels : ~ Outside(c, l) => owner = c

\* The counter is the nesting depth of the context that holds the lock.
CounterIsDepth ==
    /\ \A c \in Cores, l \in Levels : ~ Outside(c, l) => counter = depth[c][l]
    /\ owner = None => counter = 0

\* Inside the functions, the program counter says how the counter stands.
PcCounts ==
    \A c \in Cores, l \in Levels :
        /\ pc[c][l] = "releasing" => depth[c][l] = 0
        /\ pc[c][l] = "acquired" => depth[c][l] < MaxDepth

\* The inductive invariant.
LockInv ==
    /\ TypeOK
    /\ IdleOutside
    /\ OnlyOwner
    /\ CounterIsDepth
    /\ PcCounts
    /\ NotOrphaned

\* The start state satisfies the invariant.
LEMMA LockInit == Init => LockInv
  <1> SUFFICES ASSUME Init PROVE LockInv
      OBVIOUS
  <1> USE CoresAssumption, MaskedAssumption, DepthAssumption DEF Init, Levels
  <1>1. TypeOK
      BY DEF TypeOK
  <1>2. \A c \in Cores, l \in Levels : Outside(c, l)
      BY DEF Outside
  <1>3. IdleOutside /\ OnlyOwner /\ CounterIsDepth
      BY <1>2 DEF IdleOutside, OnlyOwner, CounterIsDepth
  <1>4. PcCounts /\ NotOrphaned
      BY DEF PcCounts, NotOrphaned
  <1> QED
      BY <1>1, <1>3, <1>4 DEF LockInv

\* Every step of every context preserves the invariant when all tasks mask.
LEMMA LockStep ==
    ASSUME MaskedTasks = Cores, LockInv, [Next]_vars
    PROVE  LockInv'
  <1> USE CoresAssumption, DepthAssumption DEF Levels
  <1>1. CASE UNCHANGED vars
      BY <1>1 DEF LockInv, vars, TypeOK, IdleOutside, OnlyOwner, CounterIsDepth,
                  PcCounts, NotOrphaned, Runs, Outside
  <1>2. ASSUME NEW c \in Cores, IsrEnter(c)
        PROVE  LockInv'
      BY <1>2 DEF LockInv, IsrEnter, TypeOK, IdleOutside, OnlyOwner,
                  CounterIsDepth, PcCounts, NotOrphaned, Runs, Outside
  <1>3. ASSUME NEW c \in Cores, IsrExit(c)
        PROVE  LockInv'
      BY <1>3 DEF LockInv, IsrExit, TypeOK, IdleOutside, OnlyOwner,
                  CounterIsDepth, PcCounts, NotOrphaned, Runs, Outside
  <1>4. ASSUME NEW c \in Cores, NEW l \in Levels, AcquireHw(c, l)
        PROVE  LockInv'
      BY <1>4 DEF LockInv, AcquireHw, TypeOK, IdleOutside, OnlyOwner,
                  CounterIsDepth, PcCounts, NotOrphaned, Runs, Outside
  <1>5. ASSUME NEW c \in Cores, NEW l \in Levels, AcquireCount(c, l)
        PROVE  LockInv'
      BY <1>5 DEF LockInv, AcquireCount, TypeOK, IdleOutside, OnlyOwner,
                  CounterIsDepth, PcCounts, NotOrphaned, Runs, Outside
  <1>6. ASSUME NEW c \in Cores, NEW l \in Levels, ReleaseCount(c, l)
        PROVE  LockInv'
      BY <1>6 DEF LockInv, ReleaseCount, TypeOK, IdleOutside, OnlyOwner,
                  CounterIsDepth, PcCounts, NotOrphaned, Runs, Outside
  <1>7. ASSUME NEW c \in Cores, NEW l \in Levels, ReleaseHw(c, l)
        PROVE  LockInv'
      BY <1>7 DEF LockInv, ReleaseHw, TypeOK, IdleOutside, OnlyOwner,
                  CounterIsDepth, PcCounts, NotOrphaned, Runs, Outside
  <1> QED
      BY <1>1, <1>2, <1>3, <1>4, <1>5, <1>6, <1>7 DEF Next, ContextStep

\* A step of the invariant: no two cores are inside sections at once.
LEMMA LockSafe == LockInv => MutualExclusion
  <1> SUFFICES ASSUME LockInv, NEW c \in Cores, NEW d \in Cores,
                      InSection(c), InSection(d)
               PROVE  c = d
      BY DEF MutualExclusion
  <1>1. PICK l \in Levels : ~ Outside(c, l)
      BY DEF InSection, Outside, LockInv, TypeOK
  <1>2. PICK m \in Levels : ~ Outside(d, m)
      BY DEF InSection, Outside, LockInv, TypeOK
  <1> QED
      BY <1>1, <1>2 DEF LockInv, OnlyOwner

\* rtos_lock_acquire and rtos_lock_release exclude the cores from each other,
\* for any number of cores and any nesting, when every task that takes the
\* lock masks interrupts first.
THEOREM LocksExclude ==
    ASSUME MaskedTasks = Cores
    PROVE  Spec => [](TypeOK /\ MutualExclusion)
  <1>1. Init => LockInv
      BY LockInit
  <1>2. LockInv /\ [Next]_vars => LockInv'
      BY LockStep
  <1>3. LockInv => TypeOK /\ MutualExclusion
      BY LockSafe DEF LockInv
  <1> QED
      BY <1>1, <1>2, <1>3, PTL DEF Spec

\* Under the same hypothesis the hardware lock is never left behind by a core
\* that is in no section: rtos_lock_release gives it back with the last one.
THEOREM LocksNotOrphaned ==
    ASSUME MaskedTasks = Cores
    PROVE  Spec => []NotOrphaned
  <1>1. Init => LockInv
      BY LockInit
  <1>2. LockInv /\ [Next]_vars => LockInv'
      BY LockStep
  <1>3. LockInv => NotOrphaned
      BY DEF LockInv
  <1> QED
      BY <1>1, <1>2, <1>3, PTL DEF Spec

-----------------------------------------------------------------------------
(***************************************************************************)
(* The clock.                                                              *)
(***************************************************************************)

\* Where a call of the time functions may stand, and what it carries.
Times == [seconds : 0..SecondsMod - 1, microseconds : Nat]
Calls == [fn : {"none", "increment", "get", "set"},
          stage : {"none", "enter", "first", "second", "leave"}, time : Times]

TimeType ==
    /\ current_time \in Times
    /\ timeCall \in [Cores -> [Levels -> Calls]]
    /\ shown \in Nat

\* A call that is past rtos_lock_acquire is inside a section, in no lock function.
CallsHoldLock ==
    \A c \in Cores, l \in Levels :
        /\ timeCall[c][l].fn = "none" <=> timeCall[c][l].stage = "none"
        /\ timeCall[c][l].fn = "none" => timeCall[c][l] = NoCall
        /\ timeCall[c][l].stage \in {"first", "second", "leave"}
               => depth[c][l] > 0 /\ pc[c][l] = "run"

\* What a call that sets the time carries is a time of the clock.
SetsATime ==
    \A c \in Cores, l \in Levels :
        timeCall[c][l].fn = "set" => timeCall[c][l].time.microseconds < OneSecond

\* A context between the two writes of an increment or of a set.
Writes(c, l, fn) == timeCall[c][l].fn = fn /\ timeCall[c][l].stage = "second"

\* Outside the two writes the clock shows what it ought to.
ClockRight ==
    (\A c \in Cores, l \in Levels : ~ Writes(c, l, "increment") /\ ~ Writes(c, l, "set"))
        => Units(current_time) = shown /\ current_time.microseconds < OneSecond

\* Between the two writes the tick is added but not carried over, or only the
\* seconds are new.
ClockBetween ==
    \A c \in Cores, l \in Levels :
        /\ Writes(c, l, "increment")
               => /\ current_time.microseconds < OneSecond + TickPeriod
                  /\ shown = Units(current_time) % (SecondsMod * OneSecond)
        /\ Writes(c, l, "set")
               => current_time.seconds = timeCall[c][l].time.seconds

\* What a task has read so far is what the clock still shows.
ReadIsCurrent ==
    \A c \in Cores, l \in Levels : timeCall[c][l].fn = "get" =>
        /\ timeCall[c][l].stage \in {"second", "leave"}
               => timeCall[c][l].time.seconds = current_time.seconds
        /\ timeCall[c][l].stage = "leave" => timeCall[c][l].time = current_time

\* The inductive invariant.
TimeInv ==
    /\ LockInv
    /\ TimeType
    /\ CallsHoldLock
    /\ SetsATime
    /\ ClockRight
    /\ ClockBetween
    /\ ReadIsCurrent

-----------------------------------------------------------------------------
\* A number below twice the modulus is reduced by at most one modulus.
LEMMA ModOnce ==
    ASSUME NEW m \in Nat \ {0}, NEW a \in Nat, a < m + m
    PROVE  a % m = IF a < m THEN a ELSE a - m
  OBVIOUS

\* The units of a time lie in the range of the clock.
LEMMA UnitsRange ==
    ASSUME NEW t \in Times
    PROVE  /\ Units(t) \in Nat
           /\ t.microseconds < OneSecond => Units(t) < SecondsMod * OneSecond
           /\ t.microseconds < OneSecond + OneSecond
                 => Units(t) < SecondsMod * OneSecond + SecondsMod * OneSecond
  <1> USE TickAssumption, UnitsAssumption
  <1>1. PICK s \in 0..SecondsMod - 1, u \in Nat : s = t.seconds /\ u = t.microseconds
      BY DEF Times
  <1>2. s * OneSecond \in Nat /\ SecondsMod * OneSecond \in Nat
      OBVIOUS
  <1>3. (SecondsMod - 1 - s) * OneSecond >= 0
      BY <1>1
  <1>4. (SecondsMod - 1 - s) * OneSecond = SecondsMod * OneSecond - OneSecond - s * OneSecond
      BY <1>1
  <1>5. s * OneSecond + OneSecond <= SecondsMod * OneSecond
      BY <1>2, <1>3, <1>4
  <1>6. SecondsMod * OneSecond >= OneSecond
      BY <1>2, <1>5
  <1>7. Units(t) = s * OneSecond + u
      BY <1>1 DEF Units
  <1> QED
      BY <1>1, <1>2, <1>5, <1>6, <1>7

\* Two contexts that are inside the lock functions or a section are the same.
LEMMA OneInside ==
    ASSUME LockInv, NEW c \in Cores, NEW d \in Cores, NEW l \in Levels, NEW m \in Levels,
           ~ Outside(c, l), ~ Outside(d, m)
    PROVE  c = d /\ l = m
  <1>1. c = d
      BY DEF LockInv, OnlyOwner
  <1>2. Runs(c, l) /\ Runs(c, m)
      BY <1>1 DEF LockInv, IdleOutside
  <1> QED
      BY <1>1, <1>2 DEF Runs, Levels

\* The clock's start state satisfies its invariant.
LEMMA TimeInit_TimeInv == TimeInit => TimeInv
  <1> SUFFICES ASSUME TimeInit PROVE TimeInv
      OBVIOUS
  <1> USE TickAssumption, UnitsAssumption DEF TimeInit
  <1>1. LockInv
      BY LockInit
  <1>2. NoTime \in Times /\ Units(NoTime) = 0
      BY DEF NoTime, Times, Units
  <1>3. \A c \in Cores, l \in Levels : timeCall[c][l] = NoCall
      OBVIOUS
  <1>4. TimeType
      BY <1>2 DEF TimeType, NoCall, Calls
  <1>5. CallsHoldLock /\ SetsATime /\ ClockBetween /\ ReadIsCurrent
      BY <1>3 DEF CallsHoldLock, SetsATime, ClockBetween, ReadIsCurrent, Writes, NoCall
  <1>6. ClockRight
      BY <1>2 DEF ClockRight, NoTime
  <1> QED
      BY <1>1, <1>4, <1>5, <1>6 DEF TimeInv

\* Carrying a full second over keeps the units modulo the range.
LEMMA CarryExact ==
    ASSUME NEW t \in Times, t.microseconds < OneSecond + TickPeriod
    PROVE  LET u == IF t.microseconds >= OneSecond
                    THEN [seconds |-> (t.seconds + 1) % SecondsMod,
                          microseconds |-> t.microseconds - OneSecond]
                    ELSE t
           IN  /\ u \in Times /\ u.microseconds < OneSecond
               /\ Units(u) = Units(t) % (SecondsMod * OneSecond)
  <1> USE TickAssumption, UnitsAssumption
  <1> DEFINE M == SecondsMod * OneSecond
  <1>1. M \in Nat \ {0}
      OBVIOUS
  <1>2. Units(t) \in Nat /\ Units(t) < M + M
      <2>1. t.microseconds < OneSecond + OneSecond
          BY DEF Times
      <2> QED
          BY <2>1, UnitsRange
  <1>3. Units(t) % M = IF Units(t) < M THEN Units(t) ELSE Units(t) - M
      BY <1>1, <1>2, ModOnce
  <1>4. CASE t.microseconds < OneSecond
      <2>1. Units(t) < M
          BY <1>4, UnitsRange
      <2> QED
          BY <1>3, <1>4, <2>1 DEF Times
  <1>5. CASE t.microseconds >= OneSecond
      <2> DEFINE u == [seconds |-> (t.seconds + 1) % SecondsMod,
                       microseconds |-> t.microseconds - OneSecond]
      <2>1. PICK s \in 0..SecondsMod - 1, m \in Nat : s = t.seconds /\ m = t.microseconds
          BY DEF Times
      <2>2. u \in Times /\ u.microseconds < OneSecond
          BY <1>5, <2>1 DEF Times
      <2>3. Units(t) = s * OneSecond + m
          BY <2>1 DEF Units
      <2>4. CASE s + 1 < SecondsMod
          <3>1. (s + 1) % SecondsMod = s + 1
              BY <2>1, <2>4, ModOnce
          <3>2. Units(u) = Units(t)
              BY <2>1, <2>3, <3>1 DEF Units
          <3>3. Units(u) < M
              BY <2>2, UnitsRange
          <3> QED
              BY <1>2, <1>3, <1>5, <2>2, <3>2, <3>3
      <2>5. CASE s + 1 = SecondsMod
          <3>1. (s + 1) % SecondsMod = 0
              BY <2>1, <2>5, ModOnce
          <3>2. Units(u) = m - OneSecond
              BY <2>1, <3>1 DEF Units
          <3>3. M = s * OneSecond + OneSecond
              BY <2>1, <2>5
          <3> QED
              BY <1>2, <1>3, <1>5, <2>1, <2>2, <2>3, <3>2, <3>3
      <2> QED
          BY <2>1, <2>4, <2>5
  <1> QED
      BY <1>4, <1>5 DEF Times

\* What a task sets is a time, below a second.
LEMMA SetTime ==
    ASSUME NEW t \in NewTimes
    PROVE  LET u == [t EXCEPT !.microseconds = (@ * UsUnits) % UintMod]
           IN  u \in Times /\ u.microseconds < OneSecond
  <1> USE TickAssumption, UnitsAssumption
  <1>1. PICK q \in Nat, m \in Nat : q = OneSecond \div UsUnits /\ m = t.microseconds /\ m < q
      BY DEF NewTimes
  <1>2. q * UsUnits <= OneSecond
      BY <1>1
  <1>3. (q - 1 - m) * UsUnits >= 0
      BY <1>1
  <1>4. m * UsUnits \in Nat /\ m * UsUnits < OneSecond
      BY <1>1, <1>2, <1>3
  <1>5. PICK n \in Nat : n = m * UsUnits
      BY <1>4
  <1>6. n % UintMod = n
      BY <1>4, <1>5, ModOnce
  <1> QED
      BY <1>1, <1>4, <1>5, <1>6 DEF NewTimes, Times

-----------------------------------------------------------------------------
\* Every step of the clock's module is a step of the lock's, or leaves it alone.
LEMMA TimeNext_Next == [TimeNext]_timeVars => [Next]_vars
  <1>1. ASSUME NEW c \in Cores, TimeIsr(c) PROVE Next
      BY <1>1 DEF TimeIsr, Next
  <1>2. ASSUME NEW c \in Cores, TimeCall(c) PROVE UNCHANGED vars
      BY <1>2 DEF TimeCall, TimeBegin
  <1>3. ASSUME NEW c \in Cores, NEW l \in Levels, TimeLock(c, l) PROVE Next
      BY <1>3 DEF TimeLock, Next, ContextStep
  <1>4. ASSUME NEW c \in Cores, NEW l \in Levels,
               rtos_time_increment(c, l) \/ rtos_time_set(c, l) \/ rtos_time_get(c, l)
        PROVE  UNCHANGED vars
      BY <1>4 DEF rtos_time_increment, rtos_time_set, rtos_time_get, TimeStage
  <1> QED
      BY <1>1, <1>2, <1>3, <1>4 DEF TimeNext, timeVars

\* What a change of stage does to the calls.
LEMMA StageMoves ==
    ASSUME TimeType, NEW c \in Cores, NEW l \in Levels,
           NEW s \in {"none", "enter", "first", "second", "leave"}, Stage(c, l, s)
    PROVE  /\ timeCall' \in [Cores -> [Levels -> Calls]]
           /\ \A d \in Cores, m \in Levels :
                 /\ timeCall'[d][m].fn = timeCall[d][m].fn
                 /\ timeCall'[d][m].time = timeCall[d][m].time
                 /\ timeCall'[d][m].stage = IF d = c /\ m = l THEN s ELSE timeCall[d][m].stage
                 /\ ~ (d = c /\ m = l) => timeCall'[d][m] = timeCall[d][m]
  BY DEF TimeType, Stage, Calls

\* An interrupt's entry and return change no call and no time.
LEMMA TimeIsr_TimeInv ==
    ASSUME TimeInv, LockInv', NEW c \in Cores, TimeIsr(c)
    PROVE  TimeInv'
  BY DEF TimeInv, TimeIsr, IsrEnter, IsrExit, TimeType, CallsHoldLock, SetsATime,
         ClockRight, ClockBetween, ReadIsCurrent, Writes, Units

\* A call that begins has done nothing yet.
LEMMA TimeBegin_TimeInv ==
    ASSUME TimeInv, LockInv', NEW c \in Cores, NEW l \in Levels,
           NEW fn \in {"increment", "get", "set"}, NEW time \in Times,
           time.microseconds < OneSecond, TimeBegin(c, l, fn, time)
    PROVE  TimeInv'
  <1> USE DEF TimeInv, TimeBegin, vars
  <1> DEFINE call == [fn |-> fn, stage |-> "enter", time |-> time]
  <1>1. call \in Calls
      BY DEF Calls
  <1>2. timeCall' = [timeCall EXCEPT ![c][l] = call]
      OBVIOUS
  <1>3. \A d \in Cores, m \in Levels :
            timeCall'[d][m] = IF d = c /\ m = l THEN call ELSE timeCall[d][m]
      BY <1>2 DEF TimeType
  <1>4. TimeType'
      BY <1>1, <1>2 DEF TimeType
  <1>5. CallsHoldLock' /\ SetsATime'
      BY <1>3 DEF CallsHoldLock, SetsATime
  <1>6. \A d \in Cores, m \in Levels :
            /\ Writes(d, m, "increment")' <=> Writes(d, m, "increment")
            /\ Writes(d, m, "set")' <=> Writes(d, m, "set")
      BY <1>3 DEF Writes, NoCall
  <1>7. ClockRight'
      BY <1>6 DEF ClockRight, Units
  <1>8. ClockBetween'
      BY <1>3, <1>6 DEF ClockBetween, Units, Writes, NoCall
  <1>9. ReadIsCurrent'
      BY <1>3 DEF ReadIsCurrent
  <1> QED
      BY <1>4, <1>5, <1>7, <1>8, <1>9

\* The lock functions move a call to its critical section and end it after.
LEMMA TimeLock_TimeInv ==
    ASSUME TimeInv, LockInv', NEW c \in Cores, NEW l \in Levels, TimeLock(c, l)
    PROVE  TimeInv'
  <1> USE DEF TimeInv, TimeLock, TimeType
  <1>1. CASE AcquireHw(c, l) /\ timeCall[c][l].stage \in {"none", "enter"} /\ UNCHANGED timeCall
      BY <1>1 DEF AcquireHw, CallsHoldLock, SetsATime, ClockRight, ClockBetween,
                  ReadIsCurrent, Writes, Units, Calls
  <1>2. CASE ReleaseHw(c, l) /\ UNCHANGED timeCall
      BY <1>2 DEF ReleaseHw, CallsHoldLock, SetsATime, ClockRight, ClockBetween,
                  ReadIsCurrent, Writes, Units, Calls
  <1>3. CASE /\ AcquireCount(c, l)
             /\ Stage(c, l, IF timeCall[c][l].fn = "none" THEN "none" ELSE "first")
      <2> DEFINE s == IF timeCall[c][l].fn = "none" THEN "none" ELSE "first"
      <2>1. /\ timeCall' \in [Cores -> [Levels -> Calls]]
            /\ \A d \in Cores, m \in Levels :
                 /\ timeCall'[d][m].fn = timeCall[d][m].fn
                 /\ timeCall'[d][m].time = timeCall[d][m].time
                 /\ timeCall'[d][m].stage = IF d = c /\ m = l THEN s ELSE timeCall[d][m].stage
                 /\ ~ (d = c /\ m = l) => timeCall'[d][m] = timeCall[d][m]
          BY <1>3, StageMoves
      <2>2. timeCall[c][l].stage \in {"none", "enter"}
          BY <1>3 DEF AcquireCount, CallsHoldLock, Calls
      <2>3. TimeType'
          BY <2>1
      <2>4. timeCall[c][l].fn = "none" => timeCall'[c][l] = timeCall[c][l]
          BY <1>3 DEF Stage, CallsHoldLock, NoCall
      <2>5. CallsHoldLock'
          BY <1>3, <2>1, <2>4 DEF CallsHoldLock, AcquireCount, LockInv, TypeOK, Levels
      <2>6. \A d \in Cores, m \in Levels :
                /\ Writes(d, m, "increment")' <=> Writes(d, m, "increment")
                /\ Writes(d, m, "set")' <=> Writes(d, m, "set")
          BY <2>1, <2>2 DEF Writes
      <2>7. SetsATime' /\ ClockBetween'
          BY <2>1, <2>6 DEF SetsATime, ClockBetween, Units
      <2>9. ClockRight'
          BY <2>6 DEF ClockRight, Units
      <2>8. ReadIsCurrent'
          BY <2>1 DEF ReadIsCurrent
      <2> QED
          BY <2>3, <2>5, <2>7, <2>8, <2>9
  <1>4. CASE /\ ReleaseCount(c, l) /\ timeCall[c][l].stage \in {"none", "leave"}
             /\ timeCall' = [timeCall EXCEPT ![c][l] = NoCall]
      <2>1. NoCall \in Calls /\ NoCall.fn = "none" /\ NoCall.stage = "none"
          BY UnitsAssumption DEF NoCall, NoTime, Calls, Times
      <2>2. /\ timeCall' \in [Cores -> [Levels -> Calls]]
            /\ \A d \in Cores, m \in Levels :
                 timeCall'[d][m] = IF d = c /\ m = l THEN NoCall ELSE timeCall[d][m]
          BY <1>4, <2>1
      <2>3. TimeType'
          BY <2>2
      <2>4. CallsHoldLock'
          BY <1>4, <2>1, <2>2 DEF CallsHoldLock, ReleaseCount, LockInv, TypeOK, Levels
      <2>5. \A d \in Cores, m \in Levels :
                /\ Writes(d, m, "increment")' <=> Writes(d, m, "increment")
                /\ Writes(d, m, "set")' <=> Writes(d, m, "set")
          BY <1>4, <2>1, <2>2 DEF Writes
      <2>6. SetsATime' /\ ClockBetween'
          BY <2>1, <2>2, <2>5 DEF SetsATime, ClockBetween, Units, Writes
      <2>8. ClockRight'
          BY <2>5 DEF ClockRight, Units
      <2>7. ReadIsCurrent'
          BY <2>1, <2>2 DEF ReadIsCurrent
      <2> QED
          BY <2>3, <2>4, <2>6, <2>7, <2>8
  <1> QED
      BY <1>1, <1>2, <1>3, <1>4

\* Only one call is past rtos_lock_acquire.
LEMMA OneCall ==
    ASSUME TimeInv, NEW c \in Cores, NEW l \in Levels,
           timeCall[c][l].stage \in {"first", "second", "leave"},
           NEW d \in Cores, NEW m \in Levels,
           timeCall[d][m].stage \in {"first", "second", "leave"}
    PROVE  d = c /\ m = l
  <1>1. ~ Outside(c, l) /\ ~ Outside(d, m)
      BY DEF TimeInv, CallsHoldLock, Outside, LockInv, TypeOK
  <1> QED
      BY <1>1, OneInside DEF TimeInv

\* The tick is added, and then carried over into the seconds.
LEMMA Increment_TimeInv ==
    ASSUME TimeInv, LockInv', NEW c \in Cores, NEW l \in Levels, rtos_time_increment(c, l)
    PROVE  TimeInv'
  <1> USE TickAssumption, UnitsAssumption DEF TimeInv, rtos_time_increment, TimeStage
  <1>1. PICK s \in {"second", "leave"} :
            /\ Stage(c, l, s)
            /\ s = IF timeCall[c][l].stage = "first" THEN "second" ELSE "leave"
      OBVIOUS
  <1>2. /\ timeCall' \in [Cores -> [Levels -> Calls]]
        /\ \A d \in Cores, m \in Levels :
             /\ timeCall'[d][m].fn = timeCall[d][m].fn
             /\ timeCall'[d][m].time = timeCall[d][m].time
             /\ timeCall'[d][m].stage = IF d = c /\ m = l THEN s ELSE timeCall[d][m].stage
             /\ ~ (d = c /\ m = l) => timeCall'[d][m] = timeCall[d][m]
      BY <1>1, StageMoves
  <1>3. timeCall[c][l].fn = "increment" /\ timeCall[c][l].stage \in {"first", "second"}
      OBVIOUS
  <1>4. \A d \in Cores, m \in Levels :
            timeCall[d][m].stage \in {"first", "second", "leave"} => d = c /\ m = l
      BY <1>3, OneCall
  <1>5. CallsHoldLock'
      BY <1>2, <1>3 DEF CallsHoldLock, vars
  <1>6. SetsATime'
      BY <1>2 DEF SetsATime
  <1>7. ReadIsCurrent'
      BY <1>2, <1>3, <1>4 DEF ReadIsCurrent
  <1>8. CASE timeCall[c][l].stage = "first"
      <2>1. \A d \in Cores, m \in Levels : ~ Writes(d, m, "increment") /\ ~ Writes(d, m, "set")
          BY <1>4, <1>8 DEF Writes
      <2>2. Units(current_time) = shown /\ current_time.microseconds < OneSecond
          BY <2>1 DEF ClockRight
      <2>3. PICK n \in Nat : n = current_time.microseconds
          BY DEF TimeType, Times
      <2>4. (n + TickPeriod) % UintMod = n + TickPeriod
          <3>1. PICK k \in Nat : k = n + TickPeriod
              OBVIOUS
          <3>2. k < UintMod /\ UintMod \in Nat \ {0}
              BY <2>2, <2>3, <3>1
          <3>3. k % UintMod = k
              BY SMTT(60), <3>2, ModOnce
          <3> QED
              BY <3>1, <3>3
      <2>5. current_time' = [current_time EXCEPT !.microseconds = n + TickPeriod]
          BY <1>8, <2>3, <2>4
      <2>6. current_time' \in Times
          BY <2>3, <2>5 DEF TimeType, Times
      <2>7. /\ current_time'.seconds = current_time.seconds
            /\ current_time'.microseconds = n + TickPeriod
          BY <2>5 DEF TimeType, Times
      <2>8. current_time.seconds * OneSecond \in Nat
          BY DEF TimeType, Times
      <2>9. Units(current_time)' = shown + TickPeriod
          BY <2>2, <2>3, <2>7, <2>8 DEF Units
      <2>10. shown' = (Units(current_time)') % (SecondsMod * OneSecond)
          BY <1>8, <2>9
      <2>11. Units(current_time)' \in Nat /\ SecondsMod * OneSecond \in Nat \ {0}
          BY <2>9 DEF TimeType
      <2>12. TimeType'
          BY <1>2, <2>6, <2>10, <2>11 DEF TimeType
      <2>13. Writes(c, l, "increment")'
          BY <1>1, <1>2, <1>3, <1>8 DEF Writes
      <2>14. ClockRight'
          BY <2>13 DEF ClockRight
      <2>15. \A d \in Cores, m \in Levels : ~ Writes(d, m, "set")'
          BY <1>2, <1>3, <1>4 DEF Writes
      <2>16. ClockBetween'
          BY <2>2, <2>3, <2>7, <2>10, <2>15 DEF ClockBetween
      <2> QED
          BY <1>5, <1>6, <1>7, <2>12, <2>14, <2>16
  <1>9. CASE timeCall[c][l].stage = "second"
      <2>1. /\ current_time.microseconds < OneSecond + TickPeriod
            /\ shown = Units(current_time) % (SecondsMod * OneSecond)
          BY <1>3, <1>9 DEF ClockBetween, Writes
      <2>2. /\ current_time' = IF current_time.microseconds >= OneSecond
                               THEN [seconds |-> (current_time.seconds + 1) % SecondsMod,
                                     microseconds |-> current_time.microseconds - OneSecond]
                               ELSE current_time
            /\ shown' = shown
          BY <1>9
      <2>3. /\ current_time' \in Times /\ current_time'.microseconds < OneSecond
            /\ Units(current_time') = Units(current_time) % (SecondsMod * OneSecond)
          BY <2>1, <2>2, CarryExact DEF TimeType
      <2>4. TimeType'
          BY <1>2, <2>2, <2>3 DEF TimeType
      <2>5. ClockRight'
          BY <2>1, <2>2, <2>3 DEF ClockRight, Units
      <2>6. \A d \in Cores, m \in Levels : ~ Writes(d, m, "set")' /\ ~ Writes(d, m, "increment")'
          BY <1>1, <1>2, <1>4, <1>9 DEF Writes
      <2>7. ClockBetween'
          BY <2>6 DEF ClockBetween
      <2> QED
          BY <1>5, <1>6, <1>7, <2>4, <2>5, <2>7
  <1> QED
      BY <1>3, <1>8, <1>9

\* The two writes of a set leave the time that the caller gave.
LEMMA Set_TimeInv ==
    ASSUME TimeInv, LockInv', NEW c \in Cores, NEW l \in Levels, rtos_time_set(c, l)
    PROVE  TimeInv'
  <1> USE TickAssumption, UnitsAssumption DEF TimeInv, rtos_time_set, TimeStage
  <1>1. PICK s \in {"second", "leave"} :
            /\ Stage(c, l, s)
            /\ s = IF timeCall[c][l].stage = "first" THEN "second" ELSE "leave"
      OBVIOUS
  <1>2. /\ timeCall' \in [Cores -> [Levels -> Calls]]
        /\ \A d \in Cores, m \in Levels :
             /\ timeCall'[d][m].fn = timeCall[d][m].fn
             /\ timeCall'[d][m].time = timeCall[d][m].time
             /\ timeCall'[d][m].stage = IF d = c /\ m = l THEN s ELSE timeCall[d][m].stage
             /\ ~ (d = c /\ m = l) => timeCall'[d][m] = timeCall[d][m]
      BY <1>1, StageMoves
  <1>3. timeCall[c][l].fn = "set" /\ timeCall[c][l].stage \in {"first", "second"}
      OBVIOUS
  <1>4. \A d \in Cores, m \in Levels :
            timeCall[d][m].stage \in {"first", "second", "leave"} => d = c /\ m = l
      BY <1>3, OneCall
  <1>5. CallsHoldLock'
      BY <1>2, <1>3 DEF CallsHoldLock, vars
  <1>6. SetsATime'
      BY <1>2 DEF SetsATime
  <1>7. ReadIsCurrent'
      BY <1>2, <1>3, <1>4 DEF ReadIsCurrent
  <1>8. timeCall[c][l].time \in Times /\ timeCall[c][l].time.microseconds < OneSecond
      BY <1>3 DEF TimeType, Calls, SetsATime
  <1>9. CASE timeCall[c][l].stage = "first"
      <2>1. /\ current_time' = [current_time EXCEPT !.seconds = timeCall[c][l].time.seconds]
            /\ shown' = shown
          BY <1>9
      <2>2. /\ current_time' \in Times
            /\ current_time'.seconds = timeCall[c][l].time.seconds
          BY <1>8, <2>1 DEF TimeType, Times
      <2>3. Writes(c, l, "set")' /\ TimeType'
          BY <1>1, <1>2, <1>3, <1>9, <2>1, <2>2 DEF Writes, TimeType
      <2>4. ClockRight'
          BY <2>3 DEF ClockRight
      <2>5. \A d \in Cores, m \in Levels :
                ~ Writes(d, m, "increment")' /\ (Writes(d, m, "set")' => d = c /\ m = l)
          BY <1>2, <1>3, <1>4 DEF Writes
      <2>6. ClockBetween'
          BY <1>2, <2>2, <2>5 DEF ClockBetween
      <2> QED
          BY <1>5, <1>6, <1>7, <2>3, <2>4, <2>6
  <1>10. CASE timeCall[c][l].stage = "second"
      <2>1. /\ current_time' =
                 [current_time EXCEPT !.microseconds = timeCall[c][l].time.microseconds]
            /\ shown' = Units(timeCall[c][l].time)
          BY <1>10
      <2>2. current_time.seconds = timeCall[c][l].time.seconds
          BY <1>3, <1>10 DEF ClockBetween, Writes
      <2>3. current_time' = timeCall[c][l].time
          BY <1>8, <2>1, <2>2 DEF TimeType, Times
      <2>4. TimeType'
          BY <1>2, <1>8, <2>1, <2>3, UnitsRange DEF TimeType
      <2>5. ClockRight'
          BY <1>8, <2>1, <2>3 DEF ClockRight, Units
      <2>6. \A d \in Cores, m \in Levels : ~ Writes(d, m, "set")' /\ ~ Writes(d, m, "increment")'
          BY <1>1, <1>2, <1>4, <1>10 DEF Writes
      <2>7. ClockBetween'
          BY <2>6 DEF ClockBetween
      <2> QED
          BY <1>5, <1>6, <1>7, <2>4, <2>5, <2>7
  <1> QED
      BY <1>3, <1>9, <1>10

\* The two reads of a get take one time of the clock.
LEMMA Get_TimeInv ==
    ASSUME TimeInv, LockInv', NEW c \in Cores, NEW l \in Levels, rtos_time_get(c, l)
    PROVE  TimeInv'
  <1> USE DEF TimeInv, rtos_time_get, TimeStage
  <1>1. timeCall[c][l].fn = "get" /\ timeCall[c][l].stage \in {"first", "second"}
      OBVIOUS
  <1>2. \A d \in Cores, m \in Levels :
            timeCall[d][m].stage \in {"first", "second", "leave"} => d = c /\ m = l
      BY <1>1, OneCall
  <1>3. /\ timeCall' \in [Cores -> [Levels -> Calls]]
        /\ \A d \in Cores, m \in Levels :
             /\ timeCall'[d][m].fn = timeCall[d][m].fn
             /\ ~ (d = c /\ m = l) => timeCall'[d][m] = timeCall[d][m]
        /\ timeCall'[c][l].stage = IF timeCall[c][l].stage = "first" THEN "second" ELSE "leave"
        /\ timeCall'[c][l].time.seconds = IF timeCall[c][l].stage = "first"
                                          THEN current_time.seconds
                                          ELSE timeCall[c][l].time.seconds
        /\ timeCall[c][l].stage = "second"
              => timeCall'[c][l].time.microseconds = current_time.microseconds
      <2> DEFINE old == timeCall[c][l]
      <2>1. old \in Calls /\ current_time \in Times
          BY DEF TimeType
      <2>2. CASE old.stage = "first"
          <3> DEFINE new == [old EXCEPT !.stage = "second",
                                        !.time.seconds = current_time.seconds]
          <3>1. timeCall' = [timeCall EXCEPT ![c][l] = new]
              BY <2>2 DEF TimeType, Calls
          <3>2. /\ new \in Calls /\ new.fn = old.fn /\ new.stage = "second"
                /\ new.time.seconds = current_time.seconds
              BY <2>1 DEF Calls, Times
          <3> HIDE DEF new
          <3> QED
              BY <2>2, <3>1, <3>2 DEF TimeType
      <2>3. CASE old.stage = "second"
          <3> DEFINE new == [old EXCEPT !.stage = "leave",
                                        !.time.microseconds = current_time.microseconds]
          <3>1. timeCall' = [timeCall EXCEPT ![c][l] = new]
              BY <2>3 DEF TimeType, Calls
          <3>2. /\ new \in Calls /\ new.fn = old.fn /\ new.stage = "leave"
                /\ new.time.seconds = old.time.seconds
                /\ new.time.microseconds = current_time.microseconds
              BY <2>1 DEF Calls, Times
          <3> HIDE DEF new
          <3> QED
              BY <2>3, <3>1, <3>2 DEF TimeType
      <2> QED
          BY <1>1, <2>2, <2>3
  <1>4. UNCHANGED <<current_time, shown, vars>>
      OBVIOUS
  <1>5. TimeType'
      BY <1>3, <1>4 DEF TimeType
  <1>6. CallsHoldLock'
      BY <1>1, <1>3, <1>4 DEF CallsHoldLock, vars
  <1>7. SetsATime'
      BY <1>1, <1>3 DEF SetsATime
  <1>8. \A d \in Cores, m \in Levels :
            /\ Writes(d, m, "increment")' <=> Writes(d, m, "increment")
            /\ Writes(d, m, "set")' <=> Writes(d, m, "set")
      BY <1>1, <1>3 DEF Writes
  <1>9. ClockRight'
      BY <1>4, <1>8 DEF ClockRight, Units
  <1>10. ClockBetween'
      BY <1>1, <1>3, <1>4, <1>8 DEF ClockBetween, Units, Writes
  <1>11. timeCall'[c][l].time.seconds = current_time.seconds
      BY <1>1, <1>3 DEF ReadIsCurrent
  <1>12. timeCall'[c][l].stage = "leave" => timeCall'[c][l].time = current_time
      <2>1. timeCall'[c][l].time \in Times /\ current_time \in Times
          BY <1>3 DEF Calls, TimeType
      <2>2. \A t, u \in Times :
                t.seconds = u.seconds /\ t.microseconds = u.microseconds => t = u
          BY DEF Times
      <2>3. timeCall'[c][l].stage = "leave"
                => timeCall'[c][l].time.microseconds = current_time.microseconds
          BY <1>1, <1>3
      <2> QED
          BY <1>11, <2>1, <2>2, <2>3
  <1>13. ReadIsCurrent'
      <2>1. SUFFICES ASSUME NEW d \in Cores, NEW m \in Levels,
                            timeCall'[d][m].stage \in {"second", "leave"}
                     PROVE  d = c /\ m = l
          BY <1>4, <1>11, <1>12 DEF ReadIsCurrent
      <2> QED
          BY <1>2, <1>3, <2>1
  <1> QED
      BY <1>5, <1>6, <1>7, <1>9, <1>10, <1>13

\* Every step of the clock's module preserves the invariant.
LEMMA TimeNext_TimeInv ==
    ASSUME MaskedTasks = Cores, TimeInv, [TimeNext]_timeVars
    PROVE  TimeInv'
  <1>1. LockInv'
      BY LockStep, TimeNext_Next DEF TimeInv
  <1>2. CASE UNCHANGED timeVars
      BY <1>1, <1>2 DEF timeVars, vars, TimeInv, TimeType, CallsHoldLock, SetsATime,
                        ClockRight, ClockBetween, ReadIsCurrent, Writes, Units
  <1>3. ASSUME NEW c \in Cores, TimeIsr(c) PROVE TimeInv'
      BY <1>1, <1>3, TimeIsr_TimeInv
  <1>4. ASSUME NEW c \in Cores, TimeCall(c) PROVE TimeInv'
      <2>1. NoTime \in Times /\ NoTime.microseconds < OneSecond
          BY TickAssumption, UnitsAssumption DEF NoTime, Times
      <2>2. CASE TimeBegin(c, "isr", "increment", NoTime)
          BY <1>1, <2>1, <2>2, TimeBegin_TimeInv DEF Levels
      <2>3. CASE TimeBegin(c, "task", "get", NoTime)
          BY <1>1, <2>1, <2>3, TimeBegin_TimeInv DEF Levels
      <2>4. ASSUME NEW t \in NewTimes,
                   TimeBegin(c, "task", "set",
                             [t EXCEPT !.microseconds = (@ * UsUnits) % UintMod])
            PROVE  TimeInv'
          <3> DEFINE u == [t EXCEPT !.microseconds = (@ * UsUnits) % UintMod]
          <3>1. u \in Times /\ u.microseconds < OneSecond
              BY SetTime
          <3>2. TimeBegin(c, "task", "set", u)
              BY <2>4
          <3> HIDE DEF u
          <3> QED
              BY <1>1, <3>1, <3>2, TimeBegin_TimeInv DEF Levels
      <2> QED
          BY <1>4, <2>2, <2>3, <2>4 DEF TimeCall
  <1>5. ASSUME NEW c \in Cores, NEW l \in Levels, TimeLock(c, l) PROVE TimeInv'
      BY <1>1, <1>5, TimeLock_TimeInv
  <1>6. ASSUME NEW c \in Cores, NEW l \in Levels, rtos_time_increment(c, l) PROVE TimeInv'
      BY <1>1, <1>6, Increment_TimeInv
  <1>7. ASSUME NEW c \in Cores, NEW l \in Levels, rtos_time_set(c, l) PROVE TimeInv'
      BY <1>1, <1>7, Set_TimeInv
  <1>8. ASSUME NEW c \in Cores, NEW l \in Levels, rtos_time_get(c, l) PROVE TimeInv'
      BY <1>1, <1>8, Get_TimeInv
  <1> QED
      BY <1>2, <1>3, <1>4, <1>5, <1>6, <1>7, <1>8 DEF TimeNext

\* The calls of rtos_time.c use the lock as its module says: the clock
\* implements the lock's specification, so that what is proved of the lock
\* holds of the clock's locks.
THEOREM TimeKeepsLock == TimeSpec => Spec
  <1>1. TimeInit => Init
      BY DEF TimeInit
  <1> QED
      BY <1>1, TimeNext_Next, PTL DEF TimeSpec, Spec

\* The clock of rtos_time.c never shows a wrong time while nobody writes it,
\* whatever the tick, the second and the word that hold it, and a task reads
\* seconds and microseconds that belong together: the lock is what makes the
\* two accesses of increment, set and get one.
THEOREM TimeIsExact ==
    ASSUME MaskedTasks = Cores
    PROVE  TimeSpec => []TimeExact
  <1>1. TimeInit => TimeInv
      BY TimeInit_TimeInv
  <1>2. TimeInv /\ [TimeNext]_timeVars => TimeInv'
      BY TimeNext_TimeInv
  <1>3. TimeInv => TimeExact
      BY DEF TimeInv, TimeType, Calls, ClockRight, ReadIsCurrent, Writes, TimeExact
  <1> QED
      BY <1>1, <1>2, <1>3, PTL DEF TimeSpec
=============================================================================
