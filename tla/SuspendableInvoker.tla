------------------------- MODULE SuspendableInvoker -------------------------
(***************************************************************************)
(* TSuspendableInvoker (yt/yt/core/concurrency/suspendable_invoker.cpp):   *)
(* passes callbacks on to an underlying invoker until it is suspended, and *)
(* reports by a future when the callbacks that were out have finished.     *)
(*                                                                         *)
(* The object is built from atomics: each read, write or exchange of one,  *)
(* and each section that holds SpinLock_, is a step of its own.  pc[t]     *)
(* names the next step of thread t in Invoke, ScheduleMore, OnFinished,    *)
(* Suspend or Resume.  Suspend and Resume are not thread-safe and are      *)
(* called by one thread, the controller.                                   *)
(***************************************************************************)
EXTENDS Integers, Sequences, FiniteSets

CONSTANTS
    Workers,       \* threads that call Invoke and run callbacks
    Controller,    \* the thread that calls Suspend and Resume
    Callbacks,     \* callbacks, each invoked at most once
    MaxSuspends    \* bound on the calls of Suspend

ASSUME ThreadsAssumption == IsFiniteSet(Workers) /\ Controller \notin Workers
ASSUME CallbacksAssumption == IsFiniteSet(Callbacks)
ASSUME MaxSuspendsAssumption == MaxSuspends \in Nat

Threads == Workers \cup {Controller}

VARIABLES
    Suspended,               \* Suspended_, "yes" or "no"
    SchedulingMore,          \* SchedulingMore_, "yes" or "no"
    ActiveInvocationCount,   \* ActiveInvocationCount_
    Queue,                   \* Queue_
    FreeEvent,               \* FreeEvent_: the number of a suspension, 0 if null
    event,                   \* event[n]: the promise of the n-th suspension
    suspends,                \* number of Suspend calls made
    pc,                      \* the next step of each thread
    returnTo,                \* where OnFinished returns to
    freeEvent,               \* freeEvent, a local of OnFinished and Resume
    status                   \* status[c]: where callback c is

eventVars == <<FreeEvent, event, suspends>>
threadVars == <<pc, returnTo, freeEvent>>
vars == <<Suspended, SchedulingMore, ActiveInvocationCount, Queue, eventVars, threadVars, status>>

Events == 1..MaxSuspends

Steps == {"idle", "enter", "claim", "loop", "count", "check", "take", "unclaim", "recheck",
          "finished", "last", "lookup", "signal", "suspend", "resume", "cancel"}

TypeOK ==
    /\ Suspended \in {"yes", "no"}
    /\ SchedulingMore \in {"yes", "no"}
    /\ ActiveInvocationCount \in Nat
    /\ Queue \in Seq(Callbacks)
    /\ FreeEvent \in Events \cup {0}
    /\ event \in [Events -> {"none", "pending", "set", "canceled"}]
    /\ suspends \in Events \cup {0}
    /\ pc \in [Threads -> Steps]
    /\ returnTo \in [Threads -> {"idle", "unclaim"}]
    /\ freeEvent \in [Threads -> Events \cup {0}]
    /\ status \in [Callbacks -> {"new", "queued", "submitted", "running", "finished"}]

Init ==
    /\ Suspended = "no"
    /\ SchedulingMore = "no"
    /\ ActiveInvocationCount = 0
    /\ Queue = <<>>
    /\ FreeEvent = 0
    /\ event = [n \in Events |-> "none"]
    /\ suspends = 0
    /\ pc = [t \in Threads |-> "idle"]
    /\ returnTo = [t \in Threads |-> "idle"]
    /\ freeEvent = [t \in Threads |-> 0]
    /\ status = [c \in Callbacks |-> "new"]

At(t, step) == pc[t] = step
Goto(t, step) == pc' = [pc EXCEPT ![t] = step]

-----------------------------------------------------------------------------
(* Invoke and ScheduleMore.                                                *)

Invoke(t, c) ==
    /\ At(t, "idle")
    /\ status[c] = "new"
    /\ Queue' = Append(Queue, c)
    /\ status' = [status EXCEPT ![c] = "queued"]
    /\ Goto(t, "enter")
    /\ UNCHANGED <<Suspended, SchedulingMore, ActiveInvocationCount, eventVars, returnTo, freeEvent>>

\* if (Suspended_ || ...) return
Enter(t) ==
    /\ At(t, "enter")
    /\ Goto(t, IF Suspended = "yes" THEN "idle" ELSE "claim")
    /\ UNCHANGED <<Suspended, SchedulingMore, ActiveInvocationCount, Queue, eventVars, returnTo, freeEvent, status>>

\* SchedulingMore_.exchange(true)
Claim(t) ==
    /\ At(t, "claim")
    /\ SchedulingMore' = "yes"
    /\ Goto(t, IF SchedulingMore = "yes" THEN "idle" ELSE "loop")
    /\ UNCHANGED <<Suspended, ActiveInvocationCount, Queue, eventVars, returnTo, freeEvent, status>>

\* while (!Suspended_)
Loop(t) ==
    /\ At(t, "loop")
    /\ Goto(t, IF Suspended = "yes" THEN "unclaim" ELSE "count")
    /\ UNCHANGED <<Suspended, SchedulingMore, ActiveInvocationCount, Queue, eventVars, returnTo, freeEvent, status>>

\* ++ActiveInvocationCount_, and a TInvocationGuard that will undo it
Count(t) ==
    /\ At(t, "count")
    /\ ActiveInvocationCount' = ActiveInvocationCount + 1
    /\ Goto(t, "check")
    /\ UNCHANGED <<Suspended, SchedulingMore, Queue, eventVars, returnTo, freeEvent, status>>

\* Mutant: the loop is left without the guard undoing the count.
CheckLeaks(t) ==
    /\ At(t, "check")
    /\ Goto(t, IF Suspended = "yes" THEN "unclaim" ELSE "take")
    /\ returnTo' = [returnTo EXCEPT ![t] = "unclaim"]
    /\ UNCHANGED <<Suspended, SchedulingMore, ActiveInvocationCount, Queue, eventVars, freeEvent, status>>

\* if (Suspended_ || ...) break: the guard goes, then the loop
Check(t) ==
    /\ At(t, "check")
    /\ Goto(t, IF Suspended = "yes" THEN "finished" ELSE "take")
    /\ returnTo' = [returnTo EXCEPT ![t] = "unclaim"]
    /\ UNCHANGED <<Suspended, SchedulingMore, ActiveInvocationCount, Queue, eventVars, freeEvent, status>>

\* !Queue_.Dequeue(&callback): break, or pass the callback on with the guard
Take(t) ==
    /\ At(t, "take")
    /\ IF Queue = <<>>
         THEN Goto(t, "finished") /\ UNCHANGED <<Queue, status>>
         ELSE /\ Queue' = Tail(Queue)
              /\ status' = [status EXCEPT ![Head(Queue)] = "submitted"]
              /\ Goto(t, "loop")
    /\ returnTo' = [returnTo EXCEPT ![t] = "unclaim"]
    /\ UNCHANGED <<Suspended, SchedulingMore, ActiveInvocationCount, eventVars, freeEvent>>

\* SchedulingMore_ = false
Unclaim(t) ==
    /\ At(t, "unclaim")
    /\ SchedulingMore' = "no"
    /\ Goto(t, "recheck")
    /\ UNCHANGED <<Suspended, ActiveInvocationCount, Queue, eventVars, returnTo, freeEvent, status>>

\* Mutant: the queue is not looked at again.
RecheckSkipped(t) ==
    /\ At(t, "recheck")
    /\ Goto(t, "idle")
    /\ UNCHANGED <<Suspended, SchedulingMore, ActiveInvocationCount, Queue, eventVars, returnTo, freeEvent, status>>

\* if (!Queue_.IsEmpty()) ScheduleMore()
Recheck(t) ==
    /\ At(t, "recheck")
    /\ Goto(t, IF Queue = <<>> THEN "idle" ELSE "enter")
    /\ UNCHANGED <<Suspended, SchedulingMore, ActiveInvocationCount, Queue, eventVars, returnTo, freeEvent, status>>

-----------------------------------------------------------------------------
(* Callbacks and OnFinished.                                               *)

\* The underlying invoker starts a callback.
Start(c) ==
    /\ status[c] = "submitted"
    /\ status' = [status EXCEPT ![c] = "running"]
    /\ UNCHANGED <<Suspended, SchedulingMore, ActiveInvocationCount, Queue, eventVars, threadVars>>

\* A callback ends, or gives up its thread for the first time: OnFinished.
End(t, c) ==
    /\ At(t, "idle")
    /\ status[c] = "running"
    /\ status' = [status EXCEPT ![c] = "finished"]
    /\ returnTo' = [returnTo EXCEPT ![t] = "idle"]
    /\ Goto(t, "finished")
    /\ UNCHANGED <<Suspended, SchedulingMore, ActiveInvocationCount, Queue, eventVars, freeEvent>>

\* --ActiveInvocationCount_ == 0
Finished(t) ==
    /\ At(t, "finished")
    /\ ActiveInvocationCount' = ActiveInvocationCount - 1
    /\ Goto(t, IF ActiveInvocationCount = 1 THEN "last" ELSE returnTo[t])
    /\ UNCHANGED <<Suspended, SchedulingMore, Queue, eventVars, returnTo, freeEvent, status>>

\* ... && Suspended_
Last(t) ==
    /\ At(t, "last")
    /\ Goto(t, IF Suspended = "yes" THEN "lookup" ELSE returnTo[t])
    /\ UNCHANGED <<Suspended, SchedulingMore, ActiveInvocationCount, Queue, eventVars, returnTo, freeEvent, status>>

\* if (FreeEvent_ && !FreeEvent_.IsSet()) freeEvent = FreeEvent_
Lookup(t) ==
    /\ At(t, "lookup")
    /\ IF FreeEvent # 0 /\ event[FreeEvent] = "pending"
         THEN freeEvent' = [freeEvent EXCEPT ![t] = FreeEvent] /\ Goto(t, "signal")
         ELSE Goto(t, returnTo[t]) /\ UNCHANGED freeEvent
    /\ UNCHANGED <<Suspended, SchedulingMore, ActiveInvocationCount, Queue, eventVars, returnTo, status>>

\* TrySet of a promise: the first result stays.
TrySet(n, result) ==
    event' = [event EXCEPT ![n] = IF @ = "pending" THEN result ELSE @]

\* freeEvent.TrySet()
Signal(t) ==
    /\ At(t, "signal")
    /\ TrySet(freeEvent[t], "set")
    /\ freeEvent' = [freeEvent EXCEPT ![t] = 0]
    /\ Goto(t, returnTo[t])
    /\ UNCHANGED <<Suspended, SchedulingMore, ActiveInvocationCount, Queue, FreeEvent, suspends, returnTo, status>>

-----------------------------------------------------------------------------
(* Suspend and Resume, by the controller.                                  *)

\* Suspended_.exchange(true)
BeginSuspend ==
    /\ At(Controller, "idle")
    /\ Suspended = "no"
    /\ suspends < MaxSuspends
    /\ Suspended' = "yes"
    /\ suspends' = suspends + 1
    /\ Goto(Controller, "suspend")
    /\ UNCHANGED <<SchedulingMore, ActiveInvocationCount, Queue, FreeEvent, event, returnTo, freeEvent, status>>

\* Mutant: the count is not looked at when the event is made.
EndSuspendBlind ==
    /\ At(Controller, "suspend")
    /\ FreeEvent' = suspends
    /\ event' = [event EXCEPT ![suspends] = "pending"]
    /\ Goto(Controller, "idle")
    /\ UNCHANGED <<Suspended, SchedulingMore, ActiveInvocationCount, Queue, suspends, returnTo, freeEvent, status>>

\* FreeEvent_ = NewPromise(), set at once if nothing is out
EndSuspend ==
    /\ At(Controller, "suspend")
    /\ FreeEvent' = suspends
    /\ event' = [event EXCEPT ![suspends] = IF ActiveInvocationCount = 0 THEN "set" ELSE "pending"]
    /\ Goto(Controller, "idle")
    /\ UNCHANGED <<Suspended, SchedulingMore, ActiveInvocationCount, Queue, suspends, returnTo, freeEvent, status>>

\* Suspended_.exchange(false)
BeginResume ==
    /\ At(Controller, "idle")
    /\ Suspended = "yes"
    /\ Suspended' = "no"
    /\ Goto(Controller, "resume")
    /\ UNCHANGED <<SchedulingMore, ActiveInvocationCount, Queue, eventVars, returnTo, freeEvent, status>>

\* freeEvent = std::move(FreeEvent_)
TakeFreeEvent ==
    /\ At(Controller, "resume")
    /\ freeEvent' = [freeEvent EXCEPT ![Controller] = FreeEvent]
    /\ FreeEvent' = 0
    /\ Goto(Controller, "cancel")
    /\ UNCHANGED <<Suspended, SchedulingMore, ActiveInvocationCount, Queue, event, suspends, returnTo, status>>

\* an unfinished suspension is reported as canceled; then ScheduleMore
EndResume ==
    /\ At(Controller, "cancel")
    /\ TrySet(freeEvent[Controller], "canceled")
    /\ freeEvent' = [freeEvent EXCEPT ![Controller] = 0]
    /\ Goto(Controller, "enter")
    /\ UNCHANGED <<Suspended, SchedulingMore, ActiveInvocationCount, Queue, FreeEvent, suspends, returnTo, status>>

-----------------------------------------------------------------------------

ThreadStep(t) ==
    \/ Enter(t) \/ Claim(t) \/ Loop(t) \/ Count(t) \/ Check(t) \/ Take(t) \/ Unclaim(t) \/ Recheck(t)
    \/ Finished(t) \/ Last(t) \/ Lookup(t) \/ Signal(t)

Next ==
    \/ \E t \in Workers, c \in Callbacks : Invoke(t, c) \/ End(t, c)
    \/ \E c \in Callbacks : Start(c)
    \/ \E t \in Threads : ThreadStep(t)
    \/ BeginSuspend \/ EndSuspend \/ BeginResume \/ TakeFreeEvent \/ EndResume

Spec == Init /\ [][Next]_vars

\* Threads inside the invoker keep running, callbacks run to their end, and
\* the controller finishes a Suspend or a Resume it has begun.
Fairness ==
    /\ \A t \in Threads : WF_vars(ThreadStep(t))
    /\ \A c \in Callbacks : WF_vars(Start(c)) /\ WF_vars(\E t \in Workers : End(t, c))
    /\ WF_vars(EndSuspend) /\ WF_vars(TakeFreeEvent) /\ WF_vars(EndResume)

FairSpec == Spec /\ Fairness

-----------------------------------------------------------------------------

Out(c) == status[c] \in {"submitted", "running"}

\* Threads that hold a TInvocationGuard: between the increment and the
\* decrement of the count.
GuardHolders == {t \in Threads : pc[t] \in {"check", "take", "finished"}}

\* ActiveInvocationCount_ counts the callbacks that are out and the guards of
\* the threads, so that it never drops to zero, or below, too early.
ActiveCountExact ==
    ActiveInvocationCount = Cardinality({c \in Callbacks : Out(c)}) + Cardinality(GuardHolders)

\* When the future of Suspend is set and the invoker is still suspended, no
\* callback is executing, nor about to.
QuietWhenSuspended ==
    (Suspended = "yes" /\ FreeEvent # 0 /\ event[FreeEvent] = "set") => \A c \in Callbacks : ~Out(c)

\* No callback is forgotten: when the invoker is not suspended and all threads
\* are out of it, its queue is empty.
NothingForgotten ==
    (Suspended = "no" /\ \A t \in Threads : pc[t] = "idle") => Queue = <<>>

\* Every Suspend is answered.
SuspensionReported ==
    \A n \in Events : event[n] = "pending" ~> event[n] \in {"set", "canceled"}

=============================================================================
