------------------------- MODULE SerializedInvoker -------------------------
(***************************************************************************)
(* TSerializedInvoker (yt/yt/core/concurrency/serialized_invoker.cpp):     *)
(* runs callbacks one at a time, in order, on the threads of an underlying *)
(* invoker that is not serialized itself.                                  *)
(*                                                                         *)
(* The queue never goes to the underlying invoker.  What goes there is a   *)
(* ticket, RunCallback with a TInvocationGuard, which runs the callback    *)
(* that is first in the queue by then.  A step is a section that holds     *)
(* Lock_ or one call made with the lock free.  A terminated underlying     *)
(* invoker destroys the tickets it has or is given, unrun: the guard is    *)
(* then not activated, and its destructor kills the serialized invoker.    *)
(***************************************************************************)
EXTENDS Integers, Sequences, FiniteSets

CONSTANTS
    Threads,      \* threads that call Invoke, or run or destroy tickets
    Callbacks,    \* callbacks, each invoked at most once
    MayTerminate  \* whether the underlying invoker may be terminated

VARIABLES
    Queue,               \* Queue_
    CallbackScheduled,   \* CallbackScheduled_, "yes" or "no"
    Dead,                \* Dead_, "yes" or "no"
    tickets,             \* number of tickets in the underlying invoker
    terminated,          \* state of the underlying invoker, "yes" or "no"
    pc,                  \* pc[t]: where thread t is
    running,             \* running[t]: the callback thread t executes, as a set
    status,              \* status[c]: what became of callback c
    accepted,            \* callbacks in the order of their Invoke calls (history)
    started              \* callbacks in the order in which they started (history)

lockVars == <<Queue, CallbackScheduled, Dead>>
history == <<accepted, started>>
vars == <<lockVars, tickets, terminated, pc, running, status, history>>

TypeOK ==
    /\ Queue \in Seq(Callbacks)
    /\ CallbackScheduled \in {"yes", "no"}
    /\ Dead \in {"yes", "no"}
    /\ tickets \in Nat
    /\ terminated \in {"yes", "no"}
    /\ pc \in [Threads -> {"idle", "post", "run", "finish", "discard"}]
    /\ running \in [Threads -> SUBSET Callbacks]
    /\ status \in [Callbacks -> {"new", "queued", "running", "finished", "dropped"}]
    /\ accepted \in Seq(Callbacks)
    /\ started \in Seq(Callbacks)

Init ==
    /\ Queue = <<>>
    /\ CallbackScheduled = "no"
    /\ Dead = "no"
    /\ tickets = 0
    /\ terminated = "no"
    /\ pc = [t \in Threads |-> "idle"]
    /\ running = [t \in Threads |-> {}]
    /\ status = [c \in Callbacks |-> "new"]
    /\ accepted = <<>>
    /\ started = <<>>

-----------------------------------------------------------------------------

\* Mutant: CallbackScheduled_ is not looked at, every Invoke makes a ticket.
TryScheduleAlways(t, scheduled) ==
    /\ CallbackScheduled' = "yes"
    /\ pc' = [pc EXCEPT ![t] = "post"]

\* TrySchedule, where scheduled is the value of CallbackScheduled_ on entry.
TrySchedule(t, scheduled) ==
    /\ CallbackScheduled' = "yes"
    /\ pc' = [pc EXCEPT ![t] = IF scheduled = "no" THEN "post" ELSE "idle"]

Accept(t, c) ==
    /\ Dead = "no"
    /\ Queue' = Append(Queue, c)
    /\ accepted' = Append(accepted, c)
    /\ status' = [status EXCEPT ![c] = "queued"]
    /\ TrySchedule(t, CallbackScheduled)

Refuse(c) ==
    /\ Dead = "yes"
    /\ status' = [status EXCEPT ![c] = "dropped"]
    /\ UNCHANGED <<Queue, accepted, CallbackScheduled, pc>>

\* Invoke, up to the call of the underlying invoker.
Invoke(t, c) ==
    /\ pc[t] = "idle"
    /\ status[c] = "new"
    /\ Accept(t, c) \/ Refuse(c)
    /\ UNCHANGED <<Dead, tickets, terminated, running, started>>

\* Mutant: Lock_ is still held, and a ticket destroyed on the spot waits for it.
PostHoldingLock(t) ==
    /\ pc[t] = "post"
    /\ terminated = "no"
    /\ tickets' = tickets + 1
    /\ pc' = [pc EXCEPT ![t] = "idle"]
    /\ UNCHANGED <<lockVars, terminated, running, status, history>>

\* UnderlyingInvoker_->Invoke: the ticket is taken, or destroyed on the spot.
Post(t) ==
    /\ pc[t] = "post"
    /\ IF terminated = "no"
         THEN tickets' = tickets + 1 /\ pc' = [pc EXCEPT ![t] = "idle"]
         ELSE pc' = [pc EXCEPT ![t] = "discard"] /\ UNCHANGED tickets
    /\ UNCHANGED <<lockVars, terminated, running, status, history>>

\* RunCallback takes the callback that is first now, if there is one.
RunCallback(t) ==
    /\ pc[t] = "idle"
    /\ tickets > 0
    /\ tickets' = tickets - 1
    /\ IF Queue = <<>>
         THEN /\ pc' = [pc EXCEPT ![t] = "finish"]
              /\ UNCHANGED <<Queue, running, status, started>>
         ELSE /\ pc' = [pc EXCEPT ![t] = "run"]
              /\ Queue' = Tail(Queue)
              /\ running' = [running EXCEPT ![t] = {Head(Queue)}]
              /\ status' = [status EXCEPT ![Head(Queue)] = "running"]
              /\ started' = Append(started, Head(Queue))
    /\ UNCHANGED <<CallbackScheduled, Dead, terminated, accepted>>

\* Mutant: the ticket is given up while the callback is still running.
EndCallbackEarly(t) ==
    /\ pc[t] = "run"
    /\ pc' = [pc EXCEPT ![t] = "finish"]
    /\ UNCHANGED <<lockVars, tickets, terminated, running, status, history>>

\* The callback ends, or gives up its thread for the first time: what is left
\* of it then comes back through Invoke, as a callback of its own.
EndCallback(t) ==
    /\ pc[t] = "run"
    /\ pc' = [pc EXCEPT ![t] = "finish"]
    /\ running' = [running EXCEPT ![t] = {}]
    /\ status' = [c \in Callbacks |-> IF c \in running[t] THEN "finished" ELSE status[c]]
    /\ UNCHANGED <<lockVars, tickets, terminated, history>>

\* Mutant: OnFinished does not look at the queue.
OnFinishedForgets(t) ==
    /\ pc[t] = "finish"
    /\ CallbackScheduled' = "no"
    /\ pc' = [pc EXCEPT ![t] = "idle"]
    /\ UNCHANGED <<Queue, Dead, tickets, terminated, running, status, history>>

\* OnFinished(true): the next ticket, if callbacks are waiting.
OnFinished(t) ==
    /\ pc[t] = "finish"
    /\ IF Queue = <<>>
         THEN CallbackScheduled' = "no" /\ pc' = [pc EXCEPT ![t] = "idle"]
         ELSE TrySchedule(t, "no")
    /\ UNCHANGED <<Queue, Dead, tickets, terminated, running, status, history>>

\* OnFinished(false) and DrainQueue: the guard was destroyed unactivated.
Discard(t) ==
    /\ pc[t] = "discard"
    /\ pc' = [pc EXCEPT ![t] = "idle"]
    /\ CallbackScheduled' = "no"
    /\ Dead' = "yes"
    /\ Queue' = <<>>
    /\ status' = [c \in Callbacks |-> IF status[c] = "queued" THEN "dropped" ELSE status[c]]
    /\ UNCHANGED <<tickets, terminated, running, history>>

\* The underlying invoker is terminated, and destroys a ticket it holds.
Terminate ==
    /\ MayTerminate
    /\ terminated = "no"
    /\ terminated' = "yes"
    /\ UNCHANGED <<lockVars, tickets, pc, running, status, history>>

DestroyTicket(t) ==
    /\ pc[t] = "idle"
    /\ terminated = "yes"
    /\ tickets > 0
    /\ tickets' = tickets - 1
    /\ pc' = [pc EXCEPT ![t] = "discard"]
    /\ UNCHANGED <<lockVars, terminated, running, status, history>>

-----------------------------------------------------------------------------

Next ==
    \/ Terminate
    \/ \E t \in Threads :
         \/ \E c \in Callbacks : Invoke(t, c)
         \/ Post(t)
         \/ RunCallback(t)
         \/ EndCallback(t)
         \/ OnFinished(t)
         \/ Discard(t)
         \/ DestroyTicket(t)

Spec == Init /\ [][Next]_vars

\* Threads keep running and callbacks end; the underlying invoker runs the
\* tickets it has, or destroys them after it was terminated.
Fairness ==
    /\ \A t \in Threads : WF_vars(Post(t) \/ EndCallback(t) \/ OnFinished(t) \/ Discard(t))
    /\ WF_vars(\E t \in Threads : RunCallback(t) \/ DestroyTicket(t))

FairSpec == Spec /\ Fairness

-----------------------------------------------------------------------------

\* Threads that hold the ticket; the other place it can be is the underlying
\* invoker.
TicketHolders == {t \in Threads : pc[t] # "idle"}

\* There is one ticket when CallbackScheduled_ is set and none otherwise,
\* wherever the ticket is: the YT_VERIFY of OnFinished, and the reason why two
\* threads never run callbacks at the same time.
OneTicket ==
    /\ \A t, u \in TicketHolders : t = u
    /\ TicketHolders # {} => tickets = 0
    /\ tickets <= 1
    /\ CallbackScheduled = "yes" <=> (tickets = 1 \/ TicketHolders # {})

\* Nothing waits in the queue without a ticket on its way, and a ticket that
\* is on its way finds something: RunCallback never meets an empty queue.
NothingStranded ==
    /\ Queue # <<>> => CallbackScheduled = "yes"
    /\ (tickets = 1 \/ \E t \in Threads : pc[t] = "post") => Queue # <<>>

\* Callbacks start in the order of their Invoke calls, none left out and none
\* twice, until the invoker dies.
InOrder ==
    /\ Dead = "no" => accepted = started \o Queue
    /\ Dead = "yes" => Queue = <<>>

\* Every callback given to Invoke is executed or, with a terminated underlying
\* invoker, dropped; none is kept for ever.
EveryCallbackEnds ==
    \A c \in Callbacks : status[c] = "queued" ~> status[c] \in {"finished", "dropped"}

-----------------------------------------------------------------------------

Executing == UNION {running[t] : t \in Threads}

Fate(c) ==
    IF status[c] \in {"queued", "running"} THEN "accepted"
    ELSE IF status[c] = "finished" THEN "executed" ELSE status[c]

Serial == INSTANCE SerialExecutor WITH
    waiting <- Queue,
    current <- Executing,
    alive <- IF Dead = "yes" THEN "no" ELSE "yes",
    fate <- [c \in Callbacks |-> Fate(c)]

\* The invoker, with its ticket and its threads, does what a serial executor
\* does.
ImplementsSerialExecutor == Serial!Spec
=============================================================================
