---------------------- MODULE BoundedConcurrencyInvoker ----------------------
(***************************************************************************)
(* TBoundedConcurrencyInvoker                                              *)
(* (yt/yt/core/concurrency/bounded_concurrency_invoker.cpp): passes        *)
(* callbacks on to an underlying invoker, at most MaxConcurrentInvocations *)
(* of them at a time, and queues the others.  The limit can be changed     *)
(* while callbacks are out; a decrease waits until few enough are left.    *)
(*                                                                         *)
(* A step is a section that holds SpinLock_, or one call of the underlying *)
(* invoker, which is made with the lock free.  The underlying invoker runs *)
(* callbacks on threads of its own; once terminated it drops them, on the  *)
(* spot when they are handed over.                                         *)
(***************************************************************************)
EXTENDS Integers, Sequences, FiniteSets

CONSTANTS
    Threads,        \* threads that call the invoker or finish a callback
    Callbacks,      \* callbacks, each invoked at most once
    InitialMax,     \* argument of the constructor
    Limits,         \* arguments of SetMaxConcurrentInvocations
    MaxSetCalls,    \* bound on the calls of SetMaxConcurrentInvocations
    MayTerminate    \* whether the underlying invoker may be terminated

ASSUME CallbacksAssumption == IsFiniteSet(Callbacks)
ASSUME LimitsAssumption == InitialMax \in Nat /\ Limits \subseteq Nat /\ MaxSetCalls \in Nat

VARIABLES
    MaxConcurrentInvocations,   \* MaxConcurrentInvocations_
    Pending,                    \* PendingMaxConcurrentInvocations_, NoPending if empty
    Queue,                      \* Queue_
    Semaphore,                  \* Semaphore_
    launch,                     \* launch[t]: callbacks t has still to pass on (RunCallback)
    status,                     \* status[c]: where callback c is
    terminated,                 \* state of the underlying invoker, "yes" or "no"
    requested,                  \* the limit asked for last (history)
    setCalls                    \* number of SetMaxConcurrentInvocations calls

limitVars == <<MaxConcurrentInvocations, Pending, Semaphore>>
vars == <<limitVars, Queue, launch, status, terminated, requested, setCalls>>

NoPending == -1

Statuses == {"new", "queued", "launching", "submitted", "running", "finished", "dropped"}

TypeOK ==
    /\ MaxConcurrentInvocations \in Nat
    /\ Pending \in Nat \cup {NoPending}
    /\ Queue \in Seq(Callbacks)
    /\ Semaphore \in Nat
    /\ launch \in [Threads -> Seq(Callbacks)]
    /\ status \in [Callbacks -> Statuses]
    /\ terminated \in {"yes", "no"}
    /\ requested \in Nat
    /\ setCalls \in Nat

Init ==
    /\ MaxConcurrentInvocations = InitialMax
    /\ Pending = NoPending
    /\ Queue = <<>>
    /\ Semaphore = 0
    /\ launch = [t \in Threads |-> <<>>]
    /\ status = [c \in Callbacks |-> "new"]
    /\ terminated = "no"
    /\ requested = InitialMax
    /\ setCalls = 0

\* The callbacks that hold a permit: handed to RunCallback and not finished.
Active == {c \in Callbacks : status[c] \in {"launching", "submitted", "running"}}

Idle(t) == launch[t] = <<>>

-----------------------------------------------------------------------------

\* Mutant: a decrease that is due is applied one invocation too early.
DecrementSemaphoreEarly ==
    /\ Semaphore' = Semaphore - 1
    /\ IF Pending # NoPending /\ Semaphore - 1 <= Pending + 1
         THEN MaxConcurrentInvocations' = Pending /\ Pending' = NoPending
         ELSE UNCHANGED <<MaxConcurrentInvocations, Pending>>

\* Mutant: a decrease that is due is forgotten.
DecrementSemaphoreForgets ==
    /\ Semaphore' = Semaphore - 1
    /\ UNCHANGED <<MaxConcurrentInvocations, Pending>>

\* IncrementSemaphore(-1): a permit is returned, and a decrease that waited
\* for it takes effect.
DecrementSemaphore ==
    /\ Semaphore' = Semaphore - 1
    /\ IF Pending # NoPending /\ Semaphore - 1 <= Pending
         THEN MaxConcurrentInvocations' = Pending /\ Pending' = NoPending
         ELSE UNCHANGED <<MaxConcurrentInvocations, Pending>>

HasFreePermit == Semaphore < MaxConcurrentInvocations /\ Pending = NoPending

Invoke(t, c) ==
    /\ Idle(t)
    /\ status[c] = "new"
    /\ IF HasFreePermit
         THEN /\ Semaphore' = Semaphore + 1
              /\ launch' = [launch EXCEPT ![t] = <<c>>]
              /\ status' = [status EXCEPT ![c] = "launching"]
              /\ UNCHANGED Queue
         ELSE /\ Queue' = Append(Queue, c)
              /\ status' = [status EXCEPT ![c] = "queued"]
              /\ UNCHANGED <<Semaphore, launch>>
    /\ UNCHANGED <<MaxConcurrentInvocations, Pending, terminated, requested, setCalls>>

\* Thread t takes the first k callbacks of the queue, to pass them on.
TakeFromQueue(t, k) ==
    /\ Queue' = SubSeq(Queue, k + 1, Len(Queue))
    /\ launch' = [launch EXCEPT ![t] = SubSeq(Queue, 1, k)]
    /\ status' = [c \in Callbacks |->
                    IF \E i \in 1..k : Queue[i] = c THEN "launching" ELSE status[c]]

\* The new limit leaves room: it holds at once, and the queue moves up.
RaiseLimit(t, limit) ==
    /\ limit >= Semaphore
    /\ Pending' = NoPending
    /\ MaxConcurrentInvocations' = limit
    /\ LET room == limit - Semaphore
           k == IF room <= Len(Queue) THEN room ELSE Len(Queue)
       IN Semaphore' = Semaphore + k /\ TakeFromQueue(t, k)

\* More callbacks are out than the new limit admits: it has to wait.
ScheduleLowerLimit(limit) ==
    /\ limit < Semaphore
    /\ Pending' = limit
    /\ UNCHANGED <<MaxConcurrentInvocations, Semaphore, Queue, launch, status>>

SetMaxConcurrentInvocations(t, limit) ==
    /\ Idle(t)
    /\ setCalls < MaxSetCalls
    /\ setCalls' = setCalls + 1
    /\ requested' = limit
    /\ IF limit = MaxConcurrentInvocations
         THEN UNCHANGED <<limitVars, Queue, launch, status>>
         ELSE RaiseLimit(t, limit) \/ ScheduleLowerLimit(limit)
    /\ UNCHANGED terminated

\* RunCallback: the callback goes to the underlying invoker ...
Submit(t) ==
    /\ ~Idle(t)
    /\ terminated = "no"
    /\ status' = [status EXCEPT ![Head(launch[t])] = "submitted"]
    /\ launch' = [launch EXCEPT ![t] = Tail(@)]
    /\ UNCHANGED <<limitVars, Queue, terminated, requested, setCalls>>

\* Mutant: a callback dropped inside RunCallback keeps its permit.
SubmitDroppedKeepsPermit(t) ==
    /\ ~Idle(t)
    /\ terminated = "yes"
    /\ status' = [status EXCEPT ![Head(launch[t])] = "dropped"]
    /\ launch' = [launch EXCEPT ![t] = Tail(@)]
    /\ UNCHANGED <<limitVars, Queue, terminated, requested, setCalls>>

\* ... which, once terminated, drops it inside RunCallback: OnFinished sees
\* CurrentBoundedConcurrencyInvoker and only returns the permit.
SubmitDropped(t) ==
    /\ ~Idle(t)
    /\ terminated = "yes"
    /\ status' = [status EXCEPT ![Head(launch[t])] = "dropped"]
    /\ launch' = [launch EXCEPT ![t] = Tail(@)]
    /\ DecrementSemaphore
    /\ UNCHANGED <<Queue, terminated, requested, setCalls>>

\* The underlying invoker starts a callback, or is terminated.
Start(c) ==
    /\ status[c] = "submitted"
    /\ status' = [status EXCEPT ![c] = "running"]
    /\ UNCHANGED <<limitVars, Queue, launch, terminated, requested, setCalls>>

Terminate ==
    /\ MayTerminate
    /\ terminated = "no"
    /\ terminated' = "yes"
    /\ UNCHANGED <<limitVars, Queue, launch, status, requested, setCalls>>

\* OnFinished passes the permit on to the front of the queue, unless the
\* queue is empty or a decrease of the limit waits for permits.
PassPermitOn == Queue # <<>> /\ Pending = NoPending

\* OnFinished, on thread t: callback c has run, or was destroyed unrun with
\* the queue of the terminated underlying invoker.
Finish(t, c) ==
    /\ Idle(t)
    /\ status[c] = "running" \/ (status[c] = "submitted" /\ terminated = "yes")
    /\ LET over == IF status[c] = "running" THEN "finished" ELSE "dropped"
       IN IF PassPermitOn
            THEN /\ Queue' = Tail(Queue)
                 /\ launch' = [launch EXCEPT ![t] = <<Head(Queue)>>]
                 /\ status' = [status EXCEPT ![c] = over, ![Head(Queue)] = "launching"]
                 /\ UNCHANGED limitVars
            ELSE /\ DecrementSemaphore
                 /\ status' = [status EXCEPT ![c] = over]
                 /\ UNCHANGED <<Queue, launch>>
    /\ UNCHANGED <<terminated, requested, setCalls>>

-----------------------------------------------------------------------------

Next ==
    \/ Terminate
    \/ \E c \in Callbacks : Start(c)
    \/ \E t \in Threads :
         \/ \E c \in Callbacks : Invoke(t, c) \/ Finish(t, c)
         \/ \E limit \in Limits : SetMaxConcurrentInvocations(t, limit)
         \/ Submit(t)
         \/ SubmitDropped(t)

Spec == Init /\ [][Next]_vars

\* Threads pass on what they took, and the underlying invoker runs every
\* callback it accepted to its end.
Fairness ==
    /\ \A t \in Threads : WF_vars(Submit(t) \/ SubmitDropped(t))
    /\ \A c \in Callbacks : WF_vars(Start(c)) /\ WF_vars(\E t \in Threads : Finish(t, c))

FairSpec == Spec /\ Fairness

-----------------------------------------------------------------------------

\* Semaphore_ counts the callbacks that are out, one by one, across the calls
\* of the underlying invoker made with the lock free.
PermitsExact == Semaphore = Cardinality(Active)

\* Never more callbacks are out than the limit in force admits (the YT_ASSERT
\* of IncrementSemaphore), also at the moment a decrease takes effect.
WithinLimit == Semaphore <= MaxConcurrentInvocations

\* An Invoke that could be made now passes its YT_VERIFY(Queue_.empty()): it
\* does not find callbacks in the queue when there is a permit.
InvokePassesVerify ==
    \A t \in Threads, c \in Callbacks :
        (Idle(t) /\ status[c] = "new" /\ HasFreePermit) => Queue = <<>>

\* The limit in force, or about to be, is the one asked for last.
LastRequestWins ==
    requested = IF Pending = NoPending THEN MaxConcurrentInvocations ELSE Pending

\* Every callback the invoker accepted is run, unless the limit is zero or the
\* underlying invoker is terminated.
EveryCallbackRuns ==
    \A c \in Callbacks :
        status[c] = "queued" ~> \/ status[c] = "finished"
                                \/ MaxConcurrentInvocations = 0
                                \/ terminated = "yes"

\* A decrease of the limit takes effect.
DecreaseTakesEffect == Pending # NoPending ~> Pending = NoPending
=============================================================================
