---------------------- MODULE PeriodicExecutor_proofs ----------------------
(***************************************************************************)
(* Proofs about PeriodicExecutor, for any threads, periods and bounds.     *)
(***************************************************************************)
EXTENDS PeriodicExecutor, TLAPS

-----------------------------------------------------------------------------
(* The inductive invariant.                                                *)

\* Busy_ is set while a thread is in RunCallback, and only then, or for good
\* after a callback has thrown.  A callback that cleanup posts beyond MaxPosted
\* has been taken up before the next one.
BusyExact ==
    /\ OneAtATime
    /\ busy = "yes" => posted <= MaxPosted /\ (thrown = "yes" \/ \E t \in Threads : phase[t] # "free")

\* ExecutingCallback_ says whether a callback has yet to reach its cleanup, or
\* never will.
ExecutingExact ==
    executing = "yes" <=> thrown = "yes" \/ \E t \in Threads : phase[t] \in {"running", "unwound"}

Thrown == thrown = "yes"
NothingRuns == \A t \in Threads : phase[t] = "free"

\* After a callback has thrown Busy_ is set, and nothing runs.
DeadWhenThrown == thrown = "yes" => busy = "yes" /\ NothingRuns

\* A cleanup that is about to answer the Stop of the present Start has seen it.
NotedMatches ==
    \A t \in Threads :
        noted[t][1] # 0 => phase[t] = "cleanup" /\ (noted[t][1] = starts => started = "no")

\* An answer to a Stop means that its callback has come to its cleanup, and
\* that no other one has begun unless Start was called again.
IdleMatches ==
    /\ started = "yes" => idlePromise = 0
    /\ \A n \in 1 .. MaxStarts :
           idle[n] = "ok" => n <= starts /\ (n = starts => started = "no" /\ executing = "no")

\* The last Stop waits for a callback that is still executing.
StopWaits ==
    /\ started = "yes" => starts > 0
    /\ started = "no" /\ executing = "yes" => starts > 0 /\ lastStop = starts

\* The promise that an invocation has taken is not given to later callers.
TakenMatches ==
    \A t \in Threads :
        taken[t] # 0 => /\ phase[t] \in {"running", "unwound", "cleanup"}
                        /\ executedPromise # taken[t]
                        /\ taken[t] \notin during

IInv ==
    /\ TypeOK
    /\ BusyExact
    /\ ExecutingExact
    /\ DeadWhenThrown
    /\ NotedMatches
    /\ IdleMatches
    /\ StopWaits
    /\ TakenMatches
    /\ NeverStalls

-----------------------------------------------------------------------------
(* The actions.                                                            *)

\* Start: a stop of the earlier run that nobody answers any more is abandoned.
LEMMA StartStep == ASSUME IInv, Start PROVE IInv'
<1> USE PeriodicExecutorAssumption DEF IInv
<1>1. TypeOK'
  BY DEF Start, TrySet, Abandoned, IsEnabled, threadVars, historyVars, TypeOK, YesNo, PromiseStates
<1>2. BusyExact'
  BY DEF Start, historyVars, threadVars, BusyExact, OneAtATime
<1>3. ExecutingExact'
  BY DEF Start, historyVars, threadVars, ExecutingExact
<1>4. NotedMatches'
  BY DEF Start, threadVars, NotedMatches, TypeOK
<1>5. IdleMatches'
  BY DEF Start, TrySet, Abandoned, IsEnabled, IdleMatches, TypeOK
<1>6. StopWaits'
  BY DEF Start, historyVars, StopWaits, TypeOK
<1>7. TakenMatches'
  BY DEF Start, threadVars, historyVars, TakenMatches
<1>8. NeverStalls'
  BY DEF Start, historyVars, IsEnabled, threadVars, NeverStalls
<1>9. DeadWhenThrown'
  BY DEF Start, threadVars, historyVars, DeadWhenThrown, NothingRuns
<1> QED BY <1>1, <1>2, <1>3, <1>4, <1>5, <1>6, <1>7, <1>8, <1>9

\* Stop: waits for the callback that executes.
LEMMA StopStep == ASSUME IInv, Stop PROVE IInv'
<1> USE PeriodicExecutorAssumption DEF IInv
<1>1. TypeOK'
  BY DEF Stop, ReturnIdle, MustWait, DoStop, TrySet, TypeOK, YesNo, PromiseStates
<1>2. BusyExact'
  BY DEF Stop, BusyExact, OneAtATime
<1>3. ExecutingExact'
  BY DEF Stop, ExecutingExact
<1>4. NotedMatches'
  BY DEF Stop, NotedMatches
<1>5. IdleMatches'
  BY DEF Stop, ReturnIdle, MustWait, DoStop, TrySet, IdleMatches, TypeOK
<1>6. StopWaits'
  BY DEF Stop, ReturnIdle, MustWait, DoStop, TrySet, StopWaits
<1>7. TakenMatches'
  BY DEF Stop, TakenMatches
<1>8. NeverStalls'
  BY DEF Stop, ReturnIdle, MustWait, DoStop, TrySet, NeverStalls, IsEnabled
<1>9. DeadWhenThrown'
  BY DEF Stop, DeadWhenThrown, NothingRuns
<1> QED BY <1>1, <1>2, <1>3, <1>4, <1>5, <1>6, <1>7, <1>8, <1>9

\* Stop of an executor that is stopped.
LEMMA StopAgainStep == ASSUME IInv, StopAgain PROVE IInv'
<1> USE PeriodicExecutorAssumption DEF IInv
<1>1. TypeOK'
  <2>1. CASE executing = "yes"
    <3>1. /\ idlePromise' = starts /\ lastStop' = starts
          /\ idle' = [idle EXCEPT ![starts] = IF idle[starts] = "none" THEN "unset" ELSE idle[starts]]
      BY <2>1 DEF StopAgain, ReturnIdle, MustWait
    <3>2. starts \in 1 .. MaxStarts
      BY DEF StopAgain, TypeOK
    <3>3. idle' \in [1 .. MaxStarts -> PromiseStates]
      BY <3>1, <3>2 DEF TypeOK, PromiseStates
    <3> QED BY <3>1, <3>3 DEF StopAgain, flagVars, queueVars, threadVars, TypeOK
  <2>2. CASE executing # "yes"
    BY <2>2 DEF StopAgain, ReturnIdle, MustWait, flagVars, queueVars, threadVars, TypeOK
  <2> QED BY <2>1, <2>2
<1>2. BusyExact'
  BY DEF StopAgain, flagVars, queueVars, threadVars, BusyExact, OneAtATime
<1>3. ExecutingExact'
  BY DEF StopAgain, flagVars, threadVars, ExecutingExact
<1>4. NotedMatches'
  BY DEF StopAgain, flagVars, threadVars, NotedMatches
<1>5. IdleMatches'
  BY DEF StopAgain, ReturnIdle, MustWait, flagVars, IdleMatches, TypeOK
<1>6. StopWaits'
  BY DEF StopAgain, ReturnIdle, MustWait, flagVars, StopWaits
<1>7. TakenMatches'
  BY DEF StopAgain, threadVars, TakenMatches
<1>8. NeverStalls'
  BY DEF StopAgain, flagVars, queueVars, threadVars, NeverStalls, IsEnabled
<1>9. DeadWhenThrown'
  BY DEF StopAgain, flagVars, threadVars, DeadWhenThrown, NothingRuns
<1> QED BY <1>1, <1>2, <1>3, <1>4, <1>5, <1>6, <1>7, <1>8, <1>9

\* ScheduleOutOfBand: a callback is posted, or the running one will see to it.
LEMMA ScheduleOutOfBandStep == ASSUME IInv, ScheduleOutOfBand PROVE IInv'
<1> USE PeriodicExecutorAssumption DEF IInv
<1>1. TypeOK'
  <2>1. {started', busy', outOfBand', executing', timer', wanted', thrown'} \subseteq YesNo
    BY DEF ScheduleOutOfBand, TypeOK, YesNo
  <2>2. posted' \in 0 .. MaxPosted + 1
    BY DEF ScheduleOutOfBand, TypeOK
  <2> QED BY <2>1, <2>2 DEF ScheduleOutOfBand, promiseVars, threadVars, TypeOK
<1>2. BusyExact'
  BY DEF ScheduleOutOfBand, threadVars, BusyExact, OneAtATime
<1>3. ExecutingExact'
  BY DEF ScheduleOutOfBand, threadVars, ExecutingExact
<1>4. NotedMatches'
  BY DEF ScheduleOutOfBand, promiseVars, threadVars, NotedMatches
<1>5. IdleMatches'
  BY DEF ScheduleOutOfBand, promiseVars, IdleMatches
<1>6. StopWaits'
  BY DEF ScheduleOutOfBand, promiseVars, StopWaits
<1>7. TakenMatches'
  BY DEF ScheduleOutOfBand, promiseVars, threadVars, TakenMatches
<1>8. NeverStalls'
  BY DEF ScheduleOutOfBand, threadVars, NeverStalls, IsEnabled, TypeOK
<1>9. DeadWhenThrown'
  BY DEF ScheduleOutOfBand, threadVars, DeadWhenThrown, NothingRuns
<1> QED BY <1>1, <1>2, <1>3, <1>4, <1>5, <1>6, <1>7, <1>8, <1>9

\* GetExecutedEvent: a new promise is younger than every promise taken.
LEMMA GetExecutedEventStep == ASSUME IInv, GetExecutedEvent PROVE IInv'
<1> USE PeriodicExecutorAssumption DEF IInv
<1>1. TypeOK'
  <2>1. CASE executedPromise # 0
    <3>1. executedPromise' = executedPromise /\ events' = events /\ executed' = executed
      BY <2>1 DEF GetExecutedEvent
    <3>2. executedPromise \in 1 .. events /\ during \subseteq 1 .. events
      BY <2>1 DEF TypeOK
    <3>3. during' = during \/ during' = during \cup {executedPromise}
      BY <3>1 DEF GetExecutedEvent
    <3>4. during' \subseteq 1 .. events
      BY <3>2, <3>3
    <3> QED BY <3>1, <3>4 DEF GetExecutedEvent, flagVars, queueVars, threadVars, TypeOK
  <2>2. CASE executedPromise = 0
    <3>1. /\ events' = events + 1 /\ executedPromise' = events + 1 /\ events < MaxEvents
          /\ executed' = [executed EXCEPT ![events + 1] = IF started = "yes" THEN "unset" ELSE "error"]
          /\ during' \subseteq during \cup {events + 1}
      BY <2>2 DEF GetExecutedEvent
    <3>2. /\ events' \in 0 .. MaxEvents /\ executedPromise' \in 0 .. events'
          /\ 0 .. events \subseteq 0 .. events' /\ during' \subseteq 1 .. events'
      BY <3>1 DEF TypeOK
    <3>3. taken' \in [Threads -> 0 .. events']
      BY <3>2 DEF GetExecutedEvent, threadVars, TypeOK
    <3>4. executed' \in [1 .. MaxEvents -> PromiseStates]
      BY <3>1 DEF TypeOK, PromiseStates
    <3> QED BY <3>2, <3>3, <3>4 DEF GetExecutedEvent, flagVars, queueVars, threadVars, TypeOK
  <2> QED BY <2>1, <2>2
<1>2. BusyExact'
  BY DEF GetExecutedEvent, flagVars, queueVars, threadVars, BusyExact, OneAtATime
<1>3. ExecutingExact'
  BY DEF GetExecutedEvent, flagVars, threadVars, ExecutingExact
<1>4. NotedMatches'
  BY DEF GetExecutedEvent, flagVars, threadVars, NotedMatches
<1>5. IdleMatches'
  BY DEF GetExecutedEvent, flagVars, IdleMatches
<1>6. StopWaits'
  BY DEF GetExecutedEvent, flagVars, StopWaits
<1>7. TakenMatches'
  BY DEF GetExecutedEvent, threadVars, TakenMatches, TypeOK
<1>8. NeverStalls'
  BY DEF GetExecutedEvent, flagVars, queueVars, threadVars, NeverStalls, IsEnabled
<1>9. DeadWhenThrown'
  BY DEF GetExecutedEvent, flagVars, threadVars, DeadWhenThrown, NothingRuns
<1> QED BY <1>1, <1>2, <1>3, <1>4, <1>5, <1>6, <1>7, <1>8, <1>9

\* SetOptions: a period that comes to be set starts the timer.
LEMMA SetPeriodStep == ASSUME IInv, NEW p \in Periods, SetPeriod(p) PROVE IInv'
<1> USE PeriodicExecutorAssumption DEF IInv
<1>1. TypeOK'
  BY DEF SetPeriod, promiseVars, threadVars, historyVars, TypeOK, YesNo, PromiseStates
<1>2. BusyExact'
  BY DEF SetPeriod, historyVars, threadVars, BusyExact, OneAtATime
<1>3. ExecutingExact'
  BY DEF SetPeriod, historyVars, threadVars, ExecutingExact
<1>4. NotedMatches'
  BY DEF SetPeriod, promiseVars, threadVars, NotedMatches
<1>5. IdleMatches'
  BY DEF SetPeriod, promiseVars, IdleMatches
<1>6. StopWaits'
  BY DEF SetPeriod, promiseVars, historyVars, StopWaits
<1>7. TakenMatches'
  BY DEF SetPeriod, promiseVars, threadVars, historyVars, TakenMatches
<1>8. NeverStalls'
  <2> SUFFICES ASSUME thrown = "no", started = "yes", p # 0, timer' # "yes", ~ posted > 0,
                      \A t \in Threads : phase[t] = "free"
               PROVE  FALSE
    BY DEF SetPeriod, promiseVars, threadVars, historyVars, NeverStalls, IsEnabled
  <2>1. busy = "no"
    BY DEF BusyExact, TypeOK, YesNo
  <2>2. timer' = IF ShouldKickstart(p) THEN "yes" ELSE timer
    BY <2>1 DEF SetPeriod
  <2>3. CASE period = 0
    BY <2>2, <2>3 DEF ShouldKickstart
  <2>4. CASE period # 0
    BY <2>2, <2>4 DEF NeverStalls, IsEnabled
  <2> QED BY <2>3, <2>4
<1>9. DeadWhenThrown'
  BY DEF SetPeriod, threadVars, historyVars, DeadWhenThrown, NothingRuns
<1> QED BY <1>1, <1>2, <1>3, <1>4, <1>5, <1>6, <1>7, <1>8, <1>9

\* OnTimer
LEMMA OnTimerStep == ASSUME IInv, OnTimer PROVE IInv'
<1> USE PeriodicExecutorAssumption DEF IInv
<1>1. TypeOK'
  BY DEF OnTimer, flagVars, promiseVars, threadVars, historyVars, TypeOK, YesNo, PromiseStates
<1>2. BusyExact'
  BY DEF OnTimer, historyVars, flagVars, threadVars, BusyExact, OneAtATime, TypeOK
<1>3. ExecutingExact'
  BY DEF OnTimer, historyVars, flagVars, threadVars, ExecutingExact
<1>4. NotedMatches'
  BY DEF OnTimer, flagVars, promiseVars, threadVars, NotedMatches
<1>5. IdleMatches'
  BY DEF OnTimer, flagVars, promiseVars, IdleMatches
<1>6. StopWaits'
  BY DEF OnTimer, flagVars, promiseVars, historyVars, StopWaits
<1>7. TakenMatches'
  BY DEF OnTimer, promiseVars, threadVars, historyVars, TakenMatches
<1>8. NeverStalls'
  BY DEF OnTimer, historyVars, flagVars, threadVars, NeverStalls, IsEnabled, TypeOK
<1>9. DeadWhenThrown'
  BY DEF OnTimer, flagVars, threadVars, historyVars, DeadWhenThrown, NothingRuns
<1> QED BY <1>1, <1>2, <1>3, <1>4, <1>5, <1>6, <1>7, <1>8, <1>9

\* OnCallbackCancelled: the timer takes the place of the callback.
LEMMA OnCallbackCancelledStep == ASSUME IInv, OnCallbackCancelled PROVE IInv'
<1> USE PeriodicExecutorAssumption DEF IInv
<1>1. TypeOK'
  <2>1. posted' \in 0 .. MaxPosted + 1 /\ cancels' \in 0 .. MaxCancels
    BY DEF OnCallbackCancelled, TypeOK
  <2>2. timer' \in YesNo /\ wanted' \in YesNo
    BY DEF OnCallbackCancelled, TypeOK, YesNo
  <2> QED BY <2>1, <2>2 DEF OnCallbackCancelled, flagVars, promiseVars, threadVars, TypeOK
<1>2. BusyExact'
  BY DEF OnCallbackCancelled, flagVars, threadVars, BusyExact, OneAtATime, TypeOK
<1>3. ExecutingExact'
  BY DEF OnCallbackCancelled, flagVars, threadVars, ExecutingExact
<1>4. NotedMatches'
  BY DEF OnCallbackCancelled, flagVars, promiseVars, threadVars, NotedMatches
<1>5. IdleMatches'
  BY DEF OnCallbackCancelled, flagVars, promiseVars, IdleMatches
<1>6. StopWaits'
  BY DEF OnCallbackCancelled, flagVars, promiseVars, StopWaits
<1>7. TakenMatches'
  BY DEF OnCallbackCancelled, promiseVars, threadVars, TakenMatches
<1>8. NeverStalls'
  BY DEF OnCallbackCancelled, IsEnabled, flagVars, threadVars, NeverStalls
<1>9. DeadWhenThrown'
  BY DEF OnCallbackCancelled, flagVars, threadVars, DeadWhenThrown, NothingRuns
<1> QED BY <1>1, <1>2, <1>3, <1>4, <1>5, <1>6, <1>7, <1>8, <1>9

\* RunCallback of a stopped or busy executor: if it is busy, a thread will see to the next callback.
LEMMA SkipCallbackStep == ASSUME IInv, SkipCallback PROVE IInv'
<1> USE PeriodicExecutorAssumption DEF IInv
<1>1. TypeOK'
  BY DEF SkipCallback, flagVars, promiseVars, threadVars, historyVars, TypeOK, YesNo, PromiseStates
<1>2. BusyExact'
  BY DEF SkipCallback, historyVars, flagVars, threadVars, BusyExact, OneAtATime, TypeOK
<1>3. ExecutingExact'
  BY DEF SkipCallback, historyVars, flagVars, threadVars, ExecutingExact
<1>4. NotedMatches'
  BY DEF SkipCallback, flagVars, promiseVars, threadVars, NotedMatches
<1>5. IdleMatches'
  BY DEF SkipCallback, flagVars, promiseVars, IdleMatches
<1>6. StopWaits'
  BY DEF SkipCallback, flagVars, promiseVars, historyVars, StopWaits
<1>7. TakenMatches'
  BY DEF SkipCallback, promiseVars, threadVars, historyVars, TakenMatches
<1>8. NeverStalls'
  BY DEF SkipCallback, MustSkip, vars, flagVars, queueVars, promiseVars, threadVars, historyVars, NeverStalls,
         IsEnabled, BusyExact, TypeOK
<1>9. DeadWhenThrown'
  BY DEF SkipCallback, flagVars, threadVars, historyVars, DeadWhenThrown, NothingRuns
<1> QED BY <1>1, <1>2, <1>3, <1>4, <1>5, <1>6, <1>7, <1>8, <1>9

\* RunCallback: all threads were free, and no Stop of this Start was answered.
LEMMA RunCallbackStep == ASSUME IInv, NEW t \in Threads, RunCallback(t) PROVE IInv'
<1> USE PeriodicExecutorAssumption DEF IInv
<1>1. TypeOK'
  <2>1. taken' \in [Threads -> 0 .. events] /\ phase' \in [Threads -> {"free", "running", "unwound", "cleanup", "set"}]
    BY DEF RunCallback, TypeOK
  <2>2. posted' \in 0 .. MaxPosted + 1 /\ executedPromise' \in 0 .. events /\ during' \subseteq 1 .. events
    BY DEF RunCallback, LeftPromise, TypeOK
  <2> QED BY <2>1, <2>2 DEF RunCallback, TypeOK, YesNo
<1>2. BusyExact'
  BY DEF RunCallback, MustSkip, LeftPromise, BusyExact, OneAtATime, TypeOK
<1>3. ExecutingExact'
  BY DEF RunCallback, ExecutingExact, TypeOK
<1>4. NotedMatches'
  BY DEF RunCallback, NotedMatches
<1>5. IdleMatches'
  BY DEF RunCallback, MustSkip, LeftPromise, IdleMatches
<1>6. StopWaits'
  BY DEF RunCallback, MustSkip, LeftPromise, StopWaits
<1>7. TakenMatches'
  BY DEF RunCallback, MustSkip, LeftPromise, TakenMatches, TypeOK
<1>8. NeverStalls'
  BY DEF RunCallback, NeverStalls, IsEnabled, TypeOK
<1>9. DeadWhenThrown'
  BY DEF RunCallback, MustSkip, BusyExact, TypeOK, YesNo, DeadWhenThrown, NothingRuns
<1> QED BY <1>1, <1>2, <1>3, <1>4, <1>5, <1>6, <1>7, <1>8, <1>9

\* A callback that unwinds has still to be cleaned up.
LEMMA UnwindStep == ASSUME IInv, NEW t \in Threads, Unwind(t) PROVE IInv'
<1> USE PeriodicExecutorAssumption DEF IInv
<1>1. TypeOK'
  BY DEF Unwind, flagVars, queueVars, promiseVars, historyVars, TypeOK, YesNo, PromiseStates
<1>2. BusyExact'
  BY DEF Unwind, historyVars, flagVars, queueVars, BusyExact, OneAtATime
<1>3. ExecutingExact'
  BY DEF Unwind, historyVars, flagVars, ExecutingExact
<1>4. NotedMatches'
  BY DEF Unwind, flagVars, promiseVars, NotedMatches
<1>5. IdleMatches'
  BY DEF Unwind, flagVars, promiseVars, IdleMatches
<1>6. StopWaits'
  BY DEF Unwind, flagVars, promiseVars, historyVars, StopWaits
<1>7. TakenMatches'
  BY DEF Unwind, promiseVars, historyVars, TakenMatches
<1>8. NeverStalls'
  BY DEF Unwind, historyVars, flagVars, queueVars, NeverStalls, IsEnabled
<1>9. DeadWhenThrown'
  BY DEF Unwind, flagVars, historyVars, DeadWhenThrown, NothingRuns
<1> QED BY <1>1, <1>2, <1>3, <1>4, <1>5, <1>6, <1>7, <1>8, <1>9

\* A callback that throws: nothing runs any more, and the flags tell so for good.
LEMMA ThrowStep == ASSUME IInv, NEW t \in Threads, Throw(t) PROVE IInv'
<1> USE PeriodicExecutorAssumption DEF IInv
<1>a. \A u \in Threads : phase'[u] = "free"
  BY DEF Throw, BusyExact, OneAtATime, TypeOK
<1>1. TypeOK'
  <2>1. executed' \in [1 .. MaxEvents -> PromiseStates]
    BY DEF Throw, TrySet, TypeOK, PromiseStates
  <2>2. /\ taken' \in [Threads -> 0 .. events]
        /\ phase' \in [Threads -> {"free", "running", "unwound", "cleanup", "set"}]
    BY DEF Throw, TypeOK
  <2> QED BY <2>1, <2>2 DEF Throw, flagVars, queueVars, TypeOK, YesNo
<1>2. BusyExact'
  BY <1>a DEF Throw, flagVars, queueVars, BusyExact, OneAtATime
<1>3. ExecutingExact'
  BY DEF Throw, flagVars, ExecutingExact
<1>4. NotedMatches'
  <2>1. noted' = noted /\ started' = started /\ starts' = starts
    BY DEF Throw, flagVars
  <2>2. \A u \in Threads : phase[u] = "cleanup" => FALSE
    BY DEF Throw, BusyExact, OneAtATime
  <2> QED BY <2>1, <2>2 DEF NotedMatches
<1>5. IdleMatches'
  BY DEF Throw, flagVars, IdleMatches
<1>6. StopWaits'
  BY DEF Throw, flagVars, StopWaits
<1>7. TakenMatches'
  <2>1. \A u \in Threads : u # t => taken[u] = 0
    BY DEF Throw, BusyExact, OneAtATime, TakenMatches
  <2> QED BY <2>1 DEF Throw, TakenMatches, TypeOK
<1>8. NeverStalls'
  BY DEF Throw, NeverStalls
<1>9. DeadWhenThrown'
  BY <1>a DEF Throw, flagVars, BusyExact, OneAtATime, DeadWhenThrown, NothingRuns
<1> QED BY <1>1, <1>2, <1>3, <1>4, <1>5, <1>6, <1>7, <1>8, <1>9

\* The first part of cleanup: no callback executes any more.
LEMMA BeginCleanupStep == ASSUME IInv, NEW t \in Threads, BeginCleanup(t) PROVE IInv'
<1> USE PeriodicExecutorAssumption DEF IInv
<1>1. TypeOK'
  <2>1. noted' \in [Threads -> (0 .. starts) \X (0 .. starts)]
    BY DEF BeginCleanup, TypeOK
  <2> QED BY <2>1 DEF BeginCleanup, queueVars, promiseVars, historyVars, TypeOK, YesNo
<1>2. BusyExact'
  BY DEF BeginCleanup, historyVars, queueVars, BusyExact, OneAtATime
<1>3. ExecutingExact'
  BY DEF BeginCleanup, vars, flagVars, queueVars, promiseVars, threadVars, historyVars, ExecutingExact,
         DeadWhenThrown, NothingRuns, BusyExact, OneAtATime, TypeOK
<1>4. NotedMatches'
  <2>1. /\ noted'[t] = <<idlePromise, starts>> /\ phase'[t] = "cleanup"
        /\ \A u \in Threads \ {t} : noted'[u] = noted[u] /\ phase'[u] = phase[u]
    BY DEF BeginCleanup, TypeOK
  <2>2. started' = started /\ starts' = starts
    BY DEF BeginCleanup, promiseVars
  <2>3. idlePromise # 0 => started = "no"
    BY DEF IdleMatches, TypeOK, YesNo
  <2> QED BY <2>1, <2>2, <2>3 DEF NotedMatches
<1>5. IdleMatches'
  BY DEF BeginCleanup, promiseVars, IdleMatches
<1>6. StopWaits'
  BY DEF BeginCleanup, promiseVars, historyVars, StopWaits
<1>7. TakenMatches'
  BY DEF BeginCleanup, promiseVars, historyVars, TakenMatches
<1>8. NeverStalls'
  BY DEF BeginCleanup, historyVars, queueVars, NeverStalls, IsEnabled
<1>9. DeadWhenThrown'
  BY DEF BeginCleanup, historyVars, DeadWhenThrown, NothingRuns
<1> QED BY <1>1, <1>2, <1>3, <1>4, <1>5, <1>6, <1>7, <1>8, <1>9

\* The second part of cleanup answers a Stop that has seen this callback, or none.
LEMMA SetPromisesStep == ASSUME IInv, NEW t \in Threads, SetPromises(t) PROVE IInv'
<1> USE PeriodicExecutorAssumption DEF IInv
<1>1. TypeOK'
  <2>1. /\ idle' \in [1 .. MaxStarts -> PromiseStates] /\ first' \in [1 .. MaxStarts -> PromiseStates]
        /\ executed' \in [1 .. MaxEvents -> PromiseStates]
    BY DEF SetPromises, TrySet, TypeOK, PromiseStates
  <2>2. /\ taken' \in [Threads -> 0 .. events] /\ noted' \in [Threads -> (0 .. starts) \X (0 .. starts)]
        /\ phase' \in [Threads -> {"free", "running", "unwound", "cleanup", "set"}]
    BY DEF SetPromises, TypeOK
  <2> QED BY <2>1, <2>2 DEF SetPromises, flagVars, queueVars, historyVars, TypeOK
<1>2. BusyExact'
  BY DEF SetPromises, historyVars, flagVars, queueVars, BusyExact, OneAtATime
<1>3. ExecutingExact'
  BY DEF SetPromises, historyVars, flagVars, ExecutingExact
<1>4. NotedMatches'
  BY DEF SetPromises, flagVars, NotedMatches, TypeOK
<1>5. IdleMatches'
  <2>1. /\ started' = started /\ starts' = starts /\ executing' = executing /\ idlePromise' = idlePromise
        /\ phase[t] = "cleanup"
    BY DEF SetPromises, flagVars
  <2>2. executing = "no"
    BY <2>1 DEF ExecutingExact, DeadWhenThrown, NothingRuns, BusyExact, OneAtATime, TypeOK, YesNo
  <2>3. ASSUME NEW n \in 1 .. MaxStarts, idle'[n] = "ok"
        PROVE  n <= starts /\ (n = starts => started = "no")
    <3>1. CASE idle[n] = "ok"
      BY <3>1 DEF IdleMatches
    <3>2. CASE n = noted[t][1]
      <4>1. noted[t] \in (0 .. starts) \X (0 .. starts)
        BY DEF TypeOK
      <4>2. n <= starts /\ noted[t][1] # 0
        BY <4>1, <3>2 DEF TypeOK
      <4> QED BY <4>2, <3>2 DEF NotedMatches
    <3> QED BY <3>1, <3>2, <2>3 DEF SetPromises, TrySet, NotedIdle, TypeOK
  <2> QED BY <2>1, <2>2, <2>3 DEF IdleMatches
<1>6. StopWaits'
  BY DEF SetPromises, flagVars, historyVars, StopWaits
<1>7. TakenMatches'
  BY DEF SetPromises, historyVars, TakenMatches, TypeOK
<1>8. NeverStalls'
  BY DEF SetPromises, historyVars, flagVars, queueVars, NeverStalls, IsEnabled
<1>9. DeadWhenThrown'
  BY DEF SetPromises, flagVars, historyVars, DeadWhenThrown, NothingRuns
<1> QED BY <1>1, <1>2, <1>3, <1>4, <1>5, <1>6, <1>7, <1>8, <1>9

\* The third part of cleanup: all threads are free, and the next invocation is in sight.
LEMMA EndCleanupStep == ASSUME IInv, NEW t \in Threads, EndCleanup(t) PROVE IInv'
<1> USE PeriodicExecutorAssumption DEF IInv
<1>1. TypeOK'
  <2>1. posted <= MaxPosted
    BY DEF EndCleanup, BusyExact, OneAtATime
  <2>2. posted' \in 0 .. MaxPosted + 1
    BY <2>1 DEF EndCleanup, TypeOK
  <2> QED BY <2>2 DEF EndCleanup, promiseVars, historyVars, TypeOK, YesNo
<1>2. BusyExact'
  BY DEF EndCleanup, historyVars, BusyExact, OneAtATime, TypeOK
<1>3. ExecutingExact'
  BY DEF EndCleanup, historyVars, ExecutingExact
<1>4. NotedMatches'
  BY DEF EndCleanup, promiseVars, NotedMatches
<1>5. IdleMatches'
  BY DEF EndCleanup, promiseVars, IdleMatches
<1>6. StopWaits'
  BY DEF EndCleanup, promiseVars, historyVars, StopWaits
<1>7. TakenMatches'
  BY DEF EndCleanup, promiseVars, historyVars, TakenMatches
<1>8. NeverStalls'
  BY DEF EndCleanup, historyVars, IsEnabled, NeverStalls, TypeOK
<1>9. DeadWhenThrown'
  BY DEF EndCleanup, historyVars, DeadWhenThrown, NothingRuns
<1> QED BY <1>1, <1>2, <1>3, <1>4, <1>5, <1>6, <1>7, <1>8, <1>9

-----------------------------------------------------------------------------
(* The theorems.                                                           *)

\* A new executor satisfies the invariant.
LEMMA InvariantInit == Init => IInv
BY PeriodicExecutorAssumption
   DEF Init, IInv, TypeOK, YesNo, PromiseStates, BusyExact, OneAtATime, ExecutingExact, NotedMatches, IdleMatches,
       StopWaits, TakenMatches, NeverStalls, DeadWhenThrown

\* Every step keeps the invariant.
LEMMA InvariantStep == IInv /\ [Next]_vars => IInv'
<1> SUFFICES ASSUME IInv, [Next]_vars PROVE IInv'
  OBVIOUS
<1>1. CASE Calls
  BY <1>1, StartStep, StopStep, StopAgainStep, ScheduleOutOfBandStep, GetExecutedEventStep, SetPeriodStep DEF Calls
<1>2. CASE RunSome
  BY <1>2, SkipCallbackStep, RunCallbackStep DEF RunSome
<1>3. CASE \E t \in Threads : Finish(t)
  BY <1>3, UnwindStep, ThrowStep, BeginCleanupStep, SetPromisesStep, EndCleanupStep DEF Finish
<1>4. CASE UNCHANGED vars
  BY <1>4 DEF vars, flagVars, queueVars, promiseVars, threadVars, historyVars, IInv, TypeOK, BusyExact, OneAtATime,
              ExecutingExact, NotedMatches, IdleMatches, StopWaits, TakenMatches, NeverStalls, IsEnabled,
              DeadWhenThrown, NothingRuns
<1> QED BY <1>1, <1>2, <1>3, <1>4, OnTimerStep, OnCallbackCancelledStep DEF Next

\* The invariant holds in every behaviour of the executor.
THEOREM Invariance == Spec => []IInv
BY InvariantInit, InvariantStep, PTL DEF Spec

\* TPeriodicExecutorBase::RunCallback never runs the callback in two threads,
\* whatever was posted, cancelled, stopped and started again.
THEOREM RunsOneAtATime == Spec => []OneAtATime
<1>1. IInv => OneAtATime
  BY DEF IInv, BusyExact
<1> QED BY <1>1, Invariance, PTL

\* When the future of Stop is set, the callback does not run and nothing that
\* is still posted begins.
THEOREM IsQuietAfterStop == Spec => []QuietAfterStop
<1>1. IInv => QuietAfterStop
  <2> SUFFICES ASSUME IInv, started = "no", lastStop = 0 \/ idle[lastStop] = "ok",
                      NEW t \in Threads, phase[t] = "running"
               PROVE  FALSE
    BY DEF QuietAfterStop
  <2>1. executing = "yes"
    BY DEF IInv, ExecutingExact
  <2>2. starts > 0 /\ lastStop = starts /\ starts \in 1 .. MaxStarts
    BY <2>1, PeriodicExecutorAssumption DEF IInv, StopWaits, TypeOK
  <2> QED BY <2>1, <2>2, PeriodicExecutorAssumption DEF IInv, IdleMatches
<1> QED BY <1>1, Invariance, PTL

\* A started executor with a period has a timer, a posted callback or a
\* running one, whatever the order of Start, Stop, SetPeriod and cancellation,
\* as long as no callback has thrown past the cleanup of RunCallback.
THEOREM DoesNotStall == Spec => []NeverStalls
<1>1. IInv => NeverStalls
  BY DEF IInv
<1> QED BY <1>1, Invariance, PTL

\* A callback that throws anything but the cancelation of its fiber is the last
\* one: RunCallback is left without cleanup, nothing else resets Busy_, and no
\* invocation begins again, whatever Start, Stop, SetPeriod and
\* ScheduleOutOfBand do.
THEOREM ThrowIsFinal == Spec => [](Thrown => []NothingRuns)
<1>1. IInv => (Thrown => NothingRuns)
  BY DEF IInv, DeadWhenThrown, Thrown
<1>2. Thrown /\ [Next]_vars => Thrown'
  BY DEF Thrown, Next, Calls, Start, Stop, StopAgain, ScheduleOutOfBand, GetExecutedEvent, SetPeriod, OnTimer,
         OnCallbackCancelled, RunSome, SkipCallback, RunCallback, Finish, Unwind, Throw, BeginCleanup, SetPromises,
         EndCleanup, vars, historyVars
<1> QED BY <1>1, <1>2, Invariance, PTL DEF Spec

\* A future of GetExecutedEvent is set by an invocation that began after the call.
THEOREM EventsFromTheStart == Spec => ExecutedFromTheStart
<1> DEFINE A == \A n \in 1 .. MaxEvents : executed[n] = "unset" /\ executed'[n] = "ok" => n \notin during
<1>1. IInv /\ [Next]_vars => [A]_vars
  <2> SUFFICES ASSUME IInv, Next, NEW n \in 1 .. MaxEvents, executed[n] = "unset", executed'[n] = "ok"
               PROVE  n \notin during
    OBVIOUS
  <2>1. PICK t \in Threads : SetPromises(t)
    BY PeriodicExecutorAssumption
       DEF Next, Calls, Start, Stop, DoStop, StopAgain, ScheduleOutOfBand, GetExecutedEvent, SetPeriod, OnTimer,
           OnCallbackCancelled, RunSome, SkipCallback, RunCallback, Finish, Unwind, Throw, BeginCleanup,
           EndCleanup, TrySet, vars, promiseVars, IInv, TypeOK
  <2>2. n = taken[t] /\ taken[t] # 0
    BY <2>1, PeriodicExecutorAssumption DEF SetPromises, TrySet, IInv, TypeOK
  <2> QED BY <2>2 DEF IInv, TakenMatches
<1> QED BY <1>1, Invariance, PTL DEF Spec, ExecutedFromTheStart
=============================================================================
