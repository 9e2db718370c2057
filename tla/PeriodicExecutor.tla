-------------------------- MODULE PeriodicExecutor -------------------------
(***************************************************************************)
(* TPeriodicExecutor (yt/yt/core/concurrency/periodic_executor_base-inl.h, *)
(* periodic_executor.cpp): invokes a callback again and again, in an       *)
(* invoker that may have several threads, until it is stopped.             *)
(*                                                                         *)
(* A callback that was posted cannot be called back: it may come late, in  *)
(* a second thread, or after a Stop and another Start.  Posting follows a  *)
(* section under the lock at once and is part of it, as is what DoStop     *)
(* does after it has left the lock.                                        *)
(*                                                                         *)
(* IdlePromise_ and FirstExecutedEventPromise_ are made at most once       *)
(* between two calls of Start, and are named after the number of the call. *)
(***************************************************************************)
EXTENDS Integers, FiniteSets

CONSTANTS
    Threads,      \* threads of the invoker
    Periods,      \* the values Period is set to; 0 stands for none
    MaxStarts,    \* how often the executor is started
    MaxEvents,    \* how many promises GetExecutedEvent makes
    MaxPosted,    \* how many callbacks may be in the invoker's queue
    MaxCancels    \* how many posted callbacks the invoker drops

ASSUME PeriodicExecutorAssumption ==
    /\ Periods \subseteq Nat
    /\ {MaxStarts, MaxEvents, MaxPosted, MaxCancels} \subseteq Nat

VARIABLES
    started,          \* Started_, "yes" or "no"
    busy,             \* Busy_
    outOfBand,        \* OutOfBandScheduled_
    executing,        \* ExecutingCallback_
    period,           \* Period of the policy
    timer,            \* whether the timer of Cookie_ is still to fire
    posted,           \* callbacks in the invoker
    cancels,          \* callbacks that the invoker has dropped
    starts,           \* number of calls of Start that had an effect
    idlePromise,      \* IdlePromise_, 0 if it is null
    executedPromise,  \* ExecutedPromise_, 0 if it is null
    events,           \* number of promises that GetExecutedEvent has made
    idle,             \* idle[n]: state of promise n, returned by Stop
    executed,         \* executed[n]: state of promise n, returned by GetExecutedEvent
    first,            \* first[n]: state of promise n, returned by Start
    phase,            \* phase[t]: where thread t is in RunCallback
    taken,            \* taken[t]: the executedPromise of RunCallback
    noted,            \* noted[t]: the idlePromise and firstExecutedEventPromise of cleanup
    doomed,           \* threads whose fiber was canceled
    lastStop,         \* history: the promise that the last Stop returned, 0 for OKFuture
    wanted,           \* history: whether an out of band invocation has yet to begin
    during,           \* history: promises asked for since the invocation began
    thrown            \* history: whether a callback has thrown

flagVars == <<started, busy, outOfBand, executing, period>>
queueVars == <<timer, posted, cancels>>
promiseVars == <<starts, idlePromise, executedPromise, events, idle, executed, first>>
threadVars == <<phase, taken, noted, doomed>>
historyVars == <<lastStop, wanted, during, thrown>>
vars == <<flagVars, queueVars, promiseVars, threadVars, historyVars>>

Init ==
    /\ started = "no" /\ busy = "no" /\ outOfBand = "no" /\ executing = "no"
    /\ period \in Periods
    /\ timer = "no" /\ posted = 0 /\ cancels = 0
    /\ starts = 0 /\ idlePromise = 0 /\ executedPromise = 0 /\ events = 0
    /\ idle = [n \in 1 .. MaxStarts |-> "none"]
    /\ executed = [n \in 1 .. MaxEvents |-> "none"]
    /\ first = [n \in 1 .. MaxStarts |-> "none"]
    /\ phase = [t \in Threads |-> "free"]
    /\ taken = [t \in Threads |-> 0]
    /\ noted = [t \in Threads |-> <<0, 0>>]
    /\ doomed = {}
    /\ lastStop = 0 /\ wanted = "no" /\ during = {} /\ thrown = "no"

\* TrySet of promise n, if there is one.
TrySet(promises, n, value) ==
    [k \in DOMAIN promises |-> IF k = n /\ promises[k] = "unset" THEN value ELSE promises[k]]

IsEnabled == period # 0

-----------------------------------------------------------------------------
\* The caller.

\* The promise of idle that is lost when IdlePromise_ is set to null: it is
\* abandoned, unless a cleanup still has it.
Abandoned == IF \E t \in Threads : noted[t][1] = idlePromise THEN 0 ELSE idlePromise

\* StartAndGetFirstExecutedEvent
Start ==
    /\ started = "no" /\ starts < MaxStarts
    /\ started' = "yes"
    /\ starts' = starts + 1
    /\ first' = [first EXCEPT ![starts + 1] = "unset"]
    /\ executedPromise' = 0
    /\ idlePromise' = 0
    /\ idle' = TrySet(idle, Abandoned, "error")
    /\ timer' = IF IsEnabled THEN "yes" ELSE timer
    /\ UNCHANGED <<busy, outOfBand, executing, period, posted, cancels, events, executed, threadVars,
                   historyVars>>

\* DoStop, of an executor that is started
DoStop ==
    /\ started' = "no"
    /\ outOfBand' = "no"
    /\ timer' = "no"
    /\ executed' = TrySet(executed, executedPromise, "error")
    /\ first' = TrySet(first, starts, "error")
    /\ doomed' = {t \in Threads : phase[t] = "running"}
    /\ wanted' = "no"

\* Mutant: Stop does not wait for a callback that is running.
MustWaitNever == FALSE

\* Whether Stop has to wait for the end of a callback.
MustWait == executing = "yes"

\* InitIdlePromise and the future that Stop returns
ReturnIdle ==
    IF MustWait
    THEN /\ idlePromise' = starts
         /\ idle' = [idle EXCEPT ![starts] = IF @ = "none" THEN "unset" ELSE @]
         /\ lastStop' = starts
    ELSE /\ lastStop' = 0
         /\ UNCHANGED <<idlePromise, idle>>

Stop ==
    /\ started = "yes"
    /\ ReturnIdle
    /\ DoStop
    /\ UNCHANGED <<busy, executing, period, posted, cancels, starts, executedPromise, events, phase,
                   taken, noted, during, thrown>>

\* Stop, of an executor that is not started
StopAgain ==
    /\ started = "no" /\ starts > 0
    /\ ReturnIdle
    /\ UNCHANGED <<flagVars, queueVars, starts, executedPromise, events, executed, first, threadVars,
                   wanted, during, thrown>>

\* ScheduleOutOfBand
ScheduleOutOfBand ==
    /\ started = "yes"
    /\ \/ busy = "yes" /\ outOfBand' = "yes" /\ UNCHANGED posted
       \/ busy = "no" /\ posted < MaxPosted /\ posted' = posted + 1 /\ UNCHANGED outOfBand
    /\ wanted' = "yes"
    /\ UNCHANGED <<started, busy, executing, period, timer, cancels, promiseVars, threadVars, lastStop,
                   during, thrown>>

\* GetExecutedEvent
GetExecutedEvent ==
    /\ \/ executedPromise # 0 /\ UNCHANGED <<executedPromise, events, executed>>
       \/ /\ executedPromise = 0 /\ events < MaxEvents
          /\ events' = events + 1
          /\ executedPromise' = events + 1
          /\ executed' = [executed EXCEPT ![events + 1] = IF started = "yes" THEN "unset" ELSE "error"]
    /\ during' = IF executing = "yes" THEN during \cup {executedPromise'} ELSE during
    /\ UNCHANGED <<flagVars, queueVars, starts, idlePromise, idle, first, threadVars, lastStop, wanted,
                   thrown>>

\* Mutant: a new period counts only from the next invocation on.
ShouldKickstartNever(newPeriod) == FALSE

\* ShouldKickstart of the default policy
ShouldKickstart(newPeriod) == newPeriod # 0 /\ (period = 0 \/ newPeriod < period)

\* SetOptions
SetPeriod(newPeriod) ==
    /\ newPeriod # period
    /\ period' = newPeriod
    /\ timer' = IF started = "yes" /\ busy = "no" /\ ShouldKickstart(newPeriod) THEN "yes" ELSE timer
    /\ UNCHANGED <<started, busy, outOfBand, executing, posted, cancels, promiseVars, threadVars,
                   historyVars>>

-----------------------------------------------------------------------------
\* The timer and the invoker.

\* OnTimer; the timer may have been due already when it was canceled, but then
\* this comes before.
OnTimer ==
    /\ timer = "yes" /\ posted < MaxPosted
    /\ timer' = "no"
    /\ posted' = posted + 1
    /\ UNCHANGED <<flagVars, cancels, promiseVars, threadVars, historyVars>>

\* OnCallbackCancelled: the invoker drops a callback.
OnCallbackCancelled ==
    /\ posted > 0 /\ cancels < MaxCancels
    /\ posted' = posted - 1
    /\ cancels' = cancels + 1
    /\ timer' = IF started = "yes" /\ IsEnabled THEN "yes" ELSE timer
    /\ wanted' = "no"
    /\ UNCHANGED <<flagVars, promiseVars, threadVars, lastStop, during, thrown>>

\* Mutant: callbacks that come while another one runs are not held off.
MustSkipStopped == started = "no"

\* RunCallback does nothing.
MustSkip == started = "no" \/ busy = "yes"

SkipCallback ==
    /\ posted > 0 /\ MustSkip
    /\ posted' = posted - 1
    /\ UNCHANGED <<flagVars, timer, cancels, promiseVars, threadVars, historyVars>>

\* Mutant: the promise stays for whoever asks during the invocation.
LeftPromiseShared == executedPromise

\* What RunCallback leaves in ExecutedPromise_.
LeftPromise == 0

\* RunCallback up to the call of Callback_; IdlePromise_ is null by now, since
\* Start has reset it and only Stop makes one.
RunCallback(t) ==
    /\ phase[t] = "free"
    /\ posted > 0 /\ ~MustSkip
    /\ posted' = posted - 1
    /\ busy' = "yes" /\ executing' = "yes"
    /\ timer' = "no"
    /\ taken' = [taken EXCEPT ![t] = executedPromise]
    /\ executedPromise' = LeftPromise
    /\ phase' = [phase EXCEPT ![t] = "running"]
    /\ wanted' = "no" /\ during' = {}
    /\ UNCHANGED <<started, outOfBand, period, cancels, starts, idlePromise, events, idle, executed,
                   first, noted, doomed, lastStop, thrown>>

\* The fiber of the callback unwinds; cleanup is left to the delayed executor.
Unwind(t) ==
    /\ phase[t] = "running" /\ t \in doomed
    /\ phase' = [phase EXCEPT ![t] = "unwound"]
    /\ UNCHANGED <<flagVars, queueVars, promiseVars, taken, noted, doomed, historyVars>>

\* The callback throws anything else than the cancelation of its fiber: there
\* is no cleanup, the flags stay as they are and the promise that was taken is
\* abandoned.  The fiber goes on to its next callback.
Throw(t) ==
    /\ phase[t] = "running"
    /\ phase' = [phase EXCEPT ![t] = "free"]
    /\ executed' = TrySet(executed, taken[t], "error")
    /\ taken' = [taken EXCEPT ![t] = 0]
    /\ doomed' = doomed \ {t}
    /\ thrown' = "yes"
    /\ UNCHANGED <<flagVars, queueVars, starts, idlePromise, executedPromise, events, idle, first, noted,
                   lastStop, wanted, during>>

\* The callback has returned or was unwound: the first part of cleanup, under
\* the lock.
BeginCleanup(t) ==
    /\ phase[t] \in {"running", "unwound"}
    /\ phase' = [phase EXCEPT ![t] = "cleanup"]
    /\ noted' = [noted EXCEPT ![t] = <<idlePromise, starts>>]
    /\ executing' = "no"
    /\ doomed' = doomed \ {t}
    /\ UNCHANGED <<started, busy, outOfBand, period, queueVars, promiseVars, taken, historyVars>>

\* Mutant: the promise of Stop is left alone when the executor is started again.
NotedIdleStopped(t) == IF started = "no" THEN noted[t][1] ELSE 0

\* The promise of Stop that cleanup sets.
NotedIdle(t) == noted[t][1]

\* The second part of cleanup: sets promises without the lock.
SetPromises(t) ==
    /\ phase[t] = "cleanup"
    /\ phase' = [phase EXCEPT ![t] = "set"]
    /\ idle' = TrySet(idle, NotedIdle(t), "ok")
    /\ executed' = TrySet(executed, taken[t], "ok")
    /\ first' = TrySet(first, noted[t][2], "ok")
    /\ taken' = [taken EXCEPT ![t] = 0]
    /\ noted' = [noted EXCEPT ![t] = <<0, 0>>]
    /\ UNCHANGED <<flagVars, queueVars, starts, idlePromise, executedPromise, events, doomed, historyVars>>

\* Mutant: an invocation asked for during the last one waits for the timer.
PostsNextNever == FALSE

\* Whether the next invocation was asked for during the last one.
PostsNext == outOfBand = "yes"

\* The third part of cleanup: the next invocation.
EndCleanup(t) ==
    /\ phase[t] = "set"
    /\ phase' = [phase EXCEPT ![t] = "free"]
    /\ busy' = "no"
    /\ \/ started = "no" /\ UNCHANGED <<outOfBand, timer, posted>>
       \/ started = "yes" /\ PostsNext /\ outOfBand' = "no" /\ posted' = posted + 1 /\ UNCHANGED timer
       \/ /\ started = "yes" /\ ~PostsNext
          /\ outOfBand' = "no"
          /\ timer' = IF IsEnabled THEN "yes" ELSE timer
          /\ UNCHANGED posted
    /\ UNCHANGED <<started, executing, period, cancels, promiseVars, taken, noted, doomed, historyVars>>

-----------------------------------------------------------------------------

Calls ==
    \/ Start \/ Stop \/ StopAgain \/ ScheduleOutOfBand \/ GetExecutedEvent
    \/ \E newPeriod \in Periods : SetPeriod(newPeriod)

RunSome == SkipCallback \/ \E t \in Threads : RunCallback(t)

Finish(t) == Unwind(t) \/ Throw(t) \/ BeginCleanup(t) \/ SetPromises(t) \/ EndCleanup(t)

Next == Calls \/ OnTimer \/ OnCallbackCancelled \/ RunSome \/ \E t \in Threads : Finish(t)

Spec == Init /\ [][Next]_vars

\* Timers fire, the invoker gets to what was posted, and callbacks end, one way
\* or another.
FairSpec == Spec /\ WF_vars(OnTimer) /\ WF_vars(RunSome) /\ \A t \in Threads : WF_vars(Finish(t))

-----------------------------------------------------------------------------

YesNo == {"yes", "no"}
PromiseStates == {"none", "unset", "ok", "error"}

TypeOK ==
    /\ {started, busy, outOfBand, executing, timer, wanted, thrown} \subseteq YesNo
    /\ period \in Periods
    /\ posted \in 0 .. MaxPosted + 1 /\ cancels \in 0 .. MaxCancels
    /\ starts \in 0 .. MaxStarts /\ events \in 0 .. MaxEvents
    /\ idlePromise \in 0 .. starts /\ lastStop \in 0 .. starts /\ executedPromise \in 0 .. events
    /\ idle \in [1 .. MaxStarts -> PromiseStates] /\ first \in [1 .. MaxStarts -> PromiseStates]
    /\ executed \in [1 .. MaxEvents -> PromiseStates]
    /\ phase \in [Threads -> {"free", "running", "unwound", "cleanup", "set"}]
    /\ taken \in [Threads -> 0 .. events] /\ noted \in [Threads -> (0 .. starts) \X (0 .. starts)]
    /\ doomed \subseteq Threads /\ during \subseteq 1 .. events

\* The callback runs in one thread at a time, whatever was posted and however
\* the executor was stopped and started; YT_VERIFY(Busy_) in cleanup holds.
OneAtATime ==
    \A t, u \in Threads : phase[t] # "free" => busy = "yes" /\ (phase[u] # "free" => t = u)

\* When the future of Stop is set, nothing runs any more: nothing that was
\* posted before begins again, until the next Start.
QuietAfterStop ==
    started = "no" /\ (lastStop = 0 \/ idle[lastStop] = "ok") => \A t \in Threads : phase[t] # "running"

\* A started executor with a period has a next invocation in sight: its timer
\* runs, a callback is posted, or one runs that will see to it.  No way of
\* canceling, stopping, starting or changing the period stalls it; only a
\* callback that throws does.
NeverStalls ==
    started = "yes" /\ IsEnabled /\ thrown = "no"
        => timer = "yes" \/ posted > 0 \/ \E t \in Threads : phase[t] # "free"

\* A future of GetExecutedEvent is set by an invocation that has begun after
\* the call, not by one that was running at the time.
ExecutedFromTheStart ==
    [][\A n \in 1 .. MaxEvents : executed[n] = "unset" /\ executed'[n] = "ok" => n \notin during]_vars

\* An invocation asked for with ScheduleOutOfBand begins, also when it is asked
\* for during another one and the executor has no period, unless the executor
\* is stopped, the invoker drops the callback, or a callback throws, after which
\* the request is noted in OutOfBandScheduled_ and never read.
OutOfBandBegins == []<>(wanted = "no" \/ thrown = "yes")

\* Every future is set: of Start and GetExecutedEvent unless the executor is
\* started and has no period or was stalled by a callback that has thrown; of
\* Stop unless a callback has thrown, and then only the last one is not set,
\* until Start is called again.
FuturesSet ==
    []<>(/\ \A n \in 1 .. MaxStarts : idle[n] = "unset" => thrown = "yes" /\ n = idlePromise
         /\ \/ started = "yes" /\ (~IsEnabled \/ thrown = "yes")
            \/ /\ \A n \in 1 .. MaxStarts : first[n] # "unset"
               /\ \A n \in 1 .. MaxEvents : executed[n] # "unset")
=============================================================================
