---------------------- MODULE SuspendableInvoker_proofs ----------------------
(***************************************************************************)
(* Proofs about SuspendableInvoker, for any finite sets of threads and     *)
(* callbacks and any number of suspensions.                                *)
(***************************************************************************)
EXTENDS SuspendableInvoker, FiniteSetTheorems, TLAPS

-----------------------------------------------------------------------------
(* The inductive invariant.                                                *)

\* The queue holds callbacks that wait, none of them twice.
QueueMatches ==
    /\ \A i \in 1 .. Len(Queue) : status[Queue[i]] = "queued"
    /\ \A i, j \in 1 .. Len(Queue) : Queue[i] = Queue[j] => i = j

\* Thread t is in the loop of ScheduleMore, or in OnFinished called from there.
Scheduling(t) ==
    \/ pc[t] \in {"loop", "count", "check", "take", "unclaim"}
    \/ pc[t] \in {"finished", "last", "lookup", "signal"} /\ returnTo[t] = "unclaim"

\* SchedulingMore_ is a lock: one thread is in the loop while it is set.
OneScheduler ==
    /\ SchedulingMore = "yes" => \E t \in Threads : Scheduling(t)
    /\ \A t, u \in Threads : Scheduling(t) => SchedulingMore = "yes" /\ (Scheduling(u) => t = u)

\* Thread t has still to look at the queue.
WillLook(t) ==
    Scheduling(t) \/ pc[t] \in {"enter", "claim", "recheck", "resume", "cancel"}

\* A callback waits in the queue of an invoker that is not suspended only
\* while a thread is on its way to it.
QueueIsWatched == Suspended = "no" /\ Queue # <<>> => \E t \in Threads : WillLook(t)

\* There is a free event only during a suspension, or until Resume takes it.
FreeEventHeld == FreeEvent # 0 => Suspended = "yes" \/ pc[Controller] = "resume"

\* Suspend has set Suspended_ when it makes the event.
SuspendedAtSuspend == pc[Controller] = "suspend" => Suspended = "yes"

\* Thread t will find that the last callback of suspension n is gone.
WillReport(t, n) ==
    pc[t] \in {"last", "lookup"} \/ (pc[t] = "signal" /\ freeEvent[t] = n)

\* A suspension that is not yet reported has a callback or a guard to wait
\* for, or a thread that is about to report it.
SuspensionHasReporter ==
    Suspended = "yes" /\ FreeEvent # 0 /\ event[FreeEvent] = "pending"
        => ActiveInvocationCount # 0 \/ \E t \in Threads : WillReport(t, FreeEvent)

IInv ==
    /\ TypeOK
    /\ QueueMatches
    /\ OneScheduler
    /\ ActiveCountExact
    /\ QueueIsWatched
    /\ FreeEventHeld
    /\ SuspendedAtSuspend
    /\ SuspensionHasReporter

-----------------------------------------------------------------------------
(* Counting.                                                               *)

Outs == {c \in Callbacks : Out(c)}

\* Callbacks that are out and threads with a guard are finite in number.
LEMMA CountedFinite ==
    /\ IsFiniteSet(Outs) /\ Cardinality(Outs) \in Nat
    /\ IsFiniteSet(GuardHolders) /\ Cardinality(GuardHolders) \in Nat
<1>1. IsFiniteSet(Threads)
  BY ThreadsAssumption, FS_AddElement DEF Threads
<1> QED BY <1>1, CallbacksAssumption, FS_Subset, FS_CardinalityType DEF Outs, GuardHolders

\* A step that makes and gives up no guard and hands out no callback.
LEMMA CountKept ==
    ASSUME ActiveCountExact, Outs' = Outs, GuardHolders' = GuardHolders,
           ActiveInvocationCount' = ActiveInvocationCount
    PROVE  ActiveCountExact'
BY DEF ActiveCountExact, Outs

-----------------------------------------------------------------------------
(* The actions.                                                            *)

\* Invoke queues a callback and is on its way to ScheduleMore.
LEMMA InvokeStep == ASSUME IInv, NEW t \in Threads, NEW c \in Callbacks, Invoke(t, c) PROVE IInv'
<1> USE DEF IInv, At, Goto
<1>1. TypeOK'
  BY DEF Invoke, eventVars, TypeOK, Steps
<1>2. QueueMatches'
  <2>1. /\ Queue' = Append(Queue, c) /\ status[c] = "new"
        /\ status' = [status EXCEPT ![c] = "queued"]
    BY DEF Invoke
  <2>2. /\ Len(Queue') = Len(Queue) + 1 /\ Queue'[Len(Queue) + 1] = c /\ Len(Queue) \in Nat
        /\ \A i \in 1 .. Len(Queue) : Queue'[i] = Queue[i] /\ Queue[i] # c /\ Queue[i] \in Callbacks
    BY <2>1 DEF TypeOK, QueueMatches
  <2> QED BY <2>1, <2>2 DEF QueueMatches, TypeOK
<1>3. OneScheduler'
  BY DEF Invoke, eventVars, OneScheduler, Scheduling
<1>4. ActiveCountExact'
  <2>1. Outs' = Outs
    BY DEF Invoke, threadVars, Outs, Out, TypeOK
  <2>2. GuardHolders' = GuardHolders
    BY DEF Invoke, threadVars, GuardHolders, TypeOK
  <2> QED BY <2>1, <2>2, CountKept DEF Invoke
<1>5. QueueIsWatched'
  BY DEF Invoke, eventVars, QueueIsWatched, WillLook, TypeOK
<1>6. FreeEventHeld'
  BY DEF Invoke, eventVars, FreeEventHeld
<1>7. SuspensionHasReporter'
  BY DEF Invoke, eventVars, SuspensionHasReporter, WillReport
<1>8. SuspendedAtSuspend'
  BY DEF Invoke, SuspendedAtSuspend
<1> QED BY <1>1, <1>2, <1>3, <1>4, <1>5, <1>6, <1>7, <1>8

\* ScheduleMore turns back only when the invoker is suspended.
LEMMA EnterStep == ASSUME IInv, NEW t \in Threads, Enter(t) PROVE IInv'
<1> USE DEF IInv, At, Goto
<1>1. TypeOK'
  BY DEF Enter, eventVars, TypeOK, Steps
<1>2. QueueMatches'
  BY DEF Enter, QueueMatches
<1>3. OneScheduler'
  BY DEF Enter, eventVars, OneScheduler, Scheduling
<1>4. ActiveCountExact'
  <2>1. Outs' = Outs
    BY DEF Enter, threadVars, Outs, Out, TypeOK
  <2>2. GuardHolders' = GuardHolders
    BY DEF Enter, threadVars, GuardHolders, TypeOK
  <2> QED BY <2>1, <2>2, CountKept DEF Enter
<1>5. QueueIsWatched'
  BY DEF Enter, eventVars, QueueIsWatched, WillLook
<1>6. FreeEventHeld'
  BY DEF Enter, eventVars, FreeEventHeld
<1>7. SuspensionHasReporter'
  BY DEF Enter, eventVars, SuspensionHasReporter, WillReport
<1>8. SuspendedAtSuspend'
  BY DEF Enter, SuspendedAtSuspend
<1> QED BY <1>1, <1>2, <1>3, <1>4, <1>5, <1>6, <1>7, <1>8

\* Of the threads that claim the loop only one gets it.
LEMMA ClaimStep == ASSUME IInv, NEW t \in Threads, Claim(t) PROVE IInv'
<1> USE DEF IInv, At, Goto
<1>1. TypeOK'
  BY DEF Claim, eventVars, TypeOK, Steps
<1>2. QueueMatches'
  BY DEF Claim, QueueMatches
<1>3. OneScheduler'
  BY DEF Claim, eventVars, OneScheduler, Scheduling, TypeOK
<1>4. ActiveCountExact'
  <2>1. Outs' = Outs
    BY DEF Claim, threadVars, Outs, Out, TypeOK
  <2>2. GuardHolders' = GuardHolders
    BY DEF Claim, threadVars, GuardHolders, TypeOK
  <2> QED BY <2>1, <2>2, CountKept DEF Claim
<1>5. QueueIsWatched'
  BY DEF Claim, eventVars, threadVars, QueueIsWatched, WillLook, OneScheduler, Scheduling, TypeOK
<1>6. FreeEventHeld'
  BY DEF Claim, eventVars, FreeEventHeld
<1>7. SuspensionHasReporter'
  BY DEF Claim, eventVars, SuspensionHasReporter, WillReport
<1>8. SuspendedAtSuspend'
  BY DEF Claim, SuspendedAtSuspend
<1> QED BY <1>1, <1>2, <1>3, <1>4, <1>5, <1>6, <1>7, <1>8

\* The head of the loop.
LEMMA LoopStep == ASSUME IInv, NEW t \in Threads, Loop(t) PROVE IInv'
<1> USE DEF IInv, At, Goto
<1>1. TypeOK'
  BY DEF Loop, eventVars, TypeOK, Steps
<1>2. QueueMatches'
  BY DEF Loop, QueueMatches
<1>3. OneScheduler'
  BY DEF Loop, eventVars, OneScheduler, Scheduling
<1>4. ActiveCountExact'
  <2>1. Outs' = Outs
    BY DEF Loop, threadVars, Outs, Out, TypeOK
  <2>2. GuardHolders' = GuardHolders
    BY DEF Loop, threadVars, GuardHolders, TypeOK
  <2> QED BY <2>1, <2>2, CountKept DEF Loop
<1>5. QueueIsWatched'
  BY DEF Loop, eventVars, threadVars, QueueIsWatched, WillLook, OneScheduler, Scheduling, TypeOK
<1>6. FreeEventHeld'
  BY DEF Loop, eventVars, FreeEventHeld
<1>7. SuspensionHasReporter'
  BY DEF Loop, eventVars, SuspensionHasReporter, WillReport
<1>8. SuspendedAtSuspend'
  BY DEF Loop, SuspendedAtSuspend
<1> QED BY <1>1, <1>2, <1>3, <1>4, <1>5, <1>6, <1>7, <1>8

\* A guard is made and counted.
LEMMA CountStep == ASSUME IInv, NEW t \in Threads, Count(t) PROVE IInv'
<1> USE DEF IInv, At, Goto
<1>1. TypeOK'
  BY DEF Count, eventVars, TypeOK, Steps
<1>2. QueueMatches'
  BY DEF Count, QueueMatches
<1>3. OneScheduler'
  BY DEF Count, eventVars, OneScheduler, Scheduling
<1>4. ActiveCountExact'
  <2>1. Outs' = Outs
    BY DEF Count, Outs, Out
  <2>2. GuardHolders' = GuardHolders \cup {t} /\ t \notin GuardHolders
    BY DEF Count, GuardHolders, TypeOK
  <2>3. ActiveInvocationCount' = ActiveInvocationCount + 1
    BY DEF Count
  <2>4. Cardinality(GuardHolders') = Cardinality(GuardHolders) + 1
    BY <2>2, CountedFinite, FS_AddElement
  <2>5. ActiveInvocationCount = Cardinality(Outs) + Cardinality(GuardHolders)
    BY DEF ActiveCountExact, Outs
  <2>6. ActiveInvocationCount' = Cardinality(Outs') + Cardinality(GuardHolders')
    BY <2>1, <2>3, <2>4, <2>5, CountedFinite
  <2> QED BY <2>6 DEF ActiveCountExact, Outs
<1>5. QueueIsWatched'
  BY DEF Count, eventVars, threadVars, QueueIsWatched, WillLook, OneScheduler, Scheduling, TypeOK
<1>6. FreeEventHeld'
  BY DEF Count, eventVars, FreeEventHeld
<1>7. SuspensionHasReporter'
  BY DEF Count, eventVars, SuspensionHasReporter, WillReport, TypeOK
<1>8. SuspendedAtSuspend'
  BY DEF Count, SuspendedAtSuspend
<1> QED BY <1>1, <1>2, <1>3, <1>4, <1>5, <1>6, <1>7, <1>8

\* The second look at Suspended_ is made with the guard.
LEMMA CheckStep == ASSUME IInv, NEW t \in Threads, Check(t) PROVE IInv'
<1> USE DEF IInv, At, Goto
<1>1. TypeOK'
  BY DEF Check, eventVars, TypeOK, Steps
<1>2. QueueMatches'
  BY DEF Check, QueueMatches
<1>3. OneScheduler'
  BY DEF Check, eventVars, OneScheduler, Scheduling, TypeOK
<1>4. ActiveCountExact'
  <2>1. Outs' = Outs
    BY DEF Check, threadVars, Outs, Out, TypeOK
  <2>2. GuardHolders' = GuardHolders
    BY DEF Check, threadVars, GuardHolders, TypeOK
  <2> QED BY <2>1, <2>2, CountKept DEF Check
<1>5. QueueIsWatched'
  BY DEF Check, eventVars, threadVars, QueueIsWatched, WillLook, OneScheduler, Scheduling, TypeOK
<1>6. FreeEventHeld'
  BY DEF Check, eventVars, FreeEventHeld
<1>7. SuspensionHasReporter'
  BY DEF Check, eventVars, SuspensionHasReporter, WillReport
<1>8. SuspendedAtSuspend'
  BY DEF Check, SuspendedAtSuspend
<1> QED BY <1>1, <1>2, <1>3, <1>4, <1>5, <1>6, <1>7, <1>8

\* A callback leaves the queue, and the guard goes with it.
LEMMA TakeStep == ASSUME IInv, NEW t \in Threads, Take(t) PROVE IInv'
<1> USE DEF IInv, At, Goto
<1> DEFINE c == Head(Queue)
<1>0. ASSUME Queue # <<>>
      PROVE  /\ c \in Callbacks /\ c = Queue[1] /\ status[c] = "queued" /\ Len(Queue) \in Nat
             /\ Tail(Queue) \in Seq(Callbacks) /\ Len(Tail(Queue)) = Len(Queue) - 1
             /\ \A i \in 1 .. Len(Tail(Queue)) : Tail(Queue)[i] = Queue[i + 1]
             /\ Queue' = Tail(Queue) /\ status' = [status EXCEPT ![c] = "submitted"]
             /\ pc' = [pc EXCEPT ![t] = "loop"]
  <2>1. /\ c \in Callbacks /\ c = Queue[1] /\ 1 \in 1 .. Len(Queue) /\ Len(Queue) \in Nat
        /\ Tail(Queue) \in Seq(Callbacks) /\ Len(Tail(Queue)) = Len(Queue) - 1
        /\ \A i \in 1 .. Len(Tail(Queue)) : Tail(Queue)[i] = Queue[i + 1]
    BY <1>0 DEF TypeOK
  <2> QED BY <1>0, <2>1 DEF Take, QueueMatches
<1> HIDE DEF c
<1>1. TypeOK'
  <2>1. Queue' \in Seq(Callbacks) /\ status' \in [Callbacks -> {"new", "queued", "submitted", "running", "finished"}]
    BY <1>0 DEF Take, TypeOK
  <2>2. pc' \in [Threads -> Steps] /\ returnTo' \in [Threads -> {"idle", "unclaim"}]
    BY DEF Take, TypeOK, Steps
  <2> QED BY <2>1, <2>2 DEF Take, eventVars, TypeOK
<1>2. QueueMatches'
  <2>1. CASE Queue = <<>>
    BY <2>1 DEF Take, QueueMatches
  <2>2. CASE Queue # <<>>
    <3>0. /\ Len(Queue') = Len(Queue) - 1 /\ Len(Queue) \in Nat
          /\ \A i \in 1 .. Len(Queue') : Queue'[i] = Queue[i + 1]
      BY <1>0, <2>2
    <3>1. \A i \in 1 .. Len(Queue') : /\ i + 1 \in 1 .. Len(Queue) /\ Queue'[i] = Queue[i + 1]
                                      /\ Queue[i + 1] \in Callbacks
      BY <3>0 DEF TypeOK
    <3>2. \A i \in 1 .. Len(Queue') : Queue[i + 1] # c /\ status[Queue[i + 1]] = "queued"
      BY <1>0, <2>2, <3>1 DEF QueueMatches
    <3>3. \A i \in 1 .. Len(Queue') : status'[Queue'[i]] = "queued"
      BY <1>0, <2>2, <3>1, <3>2 DEF TypeOK
    <3>4. ASSUME NEW i \in 1 .. Len(Queue'), NEW j \in 1 .. Len(Queue'), Queue'[i] = Queue'[j] PROVE i = j
      <4>1. i + 1 = j + 1
        BY <3>1, <3>4 DEF QueueMatches
      <4> QED BY <4>1
    <3> QED BY <3>3, <3>4 DEF QueueMatches
  <2> QED BY <2>1, <2>2
<1>3. OneScheduler'
  BY DEF Take, eventVars, OneScheduler, Scheduling, TypeOK
<1>4. ActiveCountExact'
  <2>1. CASE Queue = <<>>
    <3>1. Outs' = Outs /\ GuardHolders' = GuardHolders
      BY <2>1 DEF Take, Outs, Out, GuardHolders, TypeOK
    <3> QED BY <3>1, CountKept DEF Take
  <2>2. CASE Queue # <<>>
    <3>1. Outs' = Outs \cup {c} /\ c \notin Outs
      BY <1>0, <2>2 DEF Outs, Out, TypeOK
    <3>2. GuardHolders' = GuardHolders \ {t} /\ t \in GuardHolders
      BY <1>0, <2>2 DEF Take, GuardHolders, TypeOK
    <3>3. Cardinality(Outs') = Cardinality(Outs) + 1
      BY <3>1, CountedFinite, FS_AddElement
    <3>4. Cardinality(GuardHolders') = Cardinality(GuardHolders) - 1
      BY <3>2, CountedFinite, FS_RemoveElement
    <3>5. ActiveInvocationCount' = ActiveInvocationCount
      BY DEF Take
    <3> QED BY <3>3, <3>4, <3>5, CountedFinite DEF ActiveCountExact, Outs
  <2> QED BY <2>1, <2>2
<1>5. QueueIsWatched'
  BY DEF Take, eventVars, threadVars, QueueIsWatched, WillLook, OneScheduler, Scheduling, TypeOK
<1>6. FreeEventHeld'
  BY DEF Take, eventVars, threadVars, FreeEventHeld, Threads, TypeOK
<1>7. SuspensionHasReporter'
  BY DEF Take, eventVars, SuspensionHasReporter, WillReport, TypeOK
<1>8. SuspendedAtSuspend'
  BY DEF Take, eventVars, threadVars, SuspendedAtSuspend, Threads, TypeOK
<1> QED BY <1>1, <1>2, <1>3, <1>4, <1>5, <1>6, <1>7, <1>8

\* The loop is given up; the thread looks at the queue once more.
LEMMA UnclaimStep == ASSUME IInv, NEW t \in Threads, Unclaim(t) PROVE IInv'
<1> USE DEF IInv, At, Goto
<1>1. TypeOK'
  BY DEF Unclaim, eventVars, TypeOK, Steps
<1>2. QueueMatches'
  BY DEF Unclaim, QueueMatches
<1>3. OneScheduler'
  BY DEF Unclaim, eventVars, OneScheduler, Scheduling, TypeOK
<1>4. ActiveCountExact'
  <2>1. Outs' = Outs
    BY DEF Unclaim, threadVars, Outs, Out, TypeOK
  <2>2. GuardHolders' = GuardHolders
    BY DEF Unclaim, threadVars, GuardHolders, TypeOK
  <2> QED BY <2>1, <2>2, CountKept DEF Unclaim
<1>5. QueueIsWatched'
  BY DEF Unclaim, eventVars, QueueIsWatched, WillLook, TypeOK
<1>6. FreeEventHeld'
  BY DEF Unclaim, eventVars, FreeEventHeld
<1>7. SuspensionHasReporter'
  BY DEF Unclaim, eventVars, SuspensionHasReporter, WillReport
<1>8. SuspendedAtSuspend'
  BY DEF Unclaim, SuspendedAtSuspend
<1> QED BY <1>1, <1>2, <1>3, <1>4, <1>5, <1>6, <1>7, <1>8

\* The queue is left only when it is empty.
LEMMA RecheckStep == ASSUME IInv, NEW t \in Threads, Recheck(t) PROVE IInv'
<1> USE DEF IInv, At, Goto
<1>1. TypeOK'
  BY DEF Recheck, eventVars, TypeOK, Steps
<1>2. QueueMatches'
  BY DEF Recheck, QueueMatches
<1>3. OneScheduler'
  BY DEF Recheck, eventVars, OneScheduler, Scheduling
<1>4. ActiveCountExact'
  <2>1. Outs' = Outs
    BY DEF Recheck, threadVars, Outs, Out, TypeOK
  <2>2. GuardHolders' = GuardHolders
    BY DEF Recheck, threadVars, GuardHolders, TypeOK
  <2> QED BY <2>1, <2>2, CountKept DEF Recheck
<1>5. QueueIsWatched'
  BY DEF Recheck, eventVars, QueueIsWatched, WillLook
<1>6. FreeEventHeld'
  BY DEF Recheck, eventVars, FreeEventHeld
<1>7. SuspensionHasReporter'
  BY DEF Recheck, eventVars, SuspensionHasReporter, WillReport
<1>8. SuspendedAtSuspend'
  BY DEF Recheck, SuspendedAtSuspend
<1> QED BY <1>1, <1>2, <1>3, <1>4, <1>5, <1>6, <1>7, <1>8

\* The underlying invoker begins a callback.
LEMMA StartStep == ASSUME IInv, NEW c \in Callbacks, Start(c) PROVE IInv'
<1> USE DEF IInv, At, Goto
<1>1. TypeOK'
  BY DEF Start, eventVars, threadVars, TypeOK, Steps
<1>2. QueueMatches'
  BY DEF Start, QueueMatches
<1>3. OneScheduler'
  BY DEF Start, eventVars, threadVars, OneScheduler, Scheduling
<1>4. ActiveCountExact'
  <2>1. Outs' = Outs
    BY DEF Start, threadVars, Outs, Out, TypeOK
  <2>2. GuardHolders' = GuardHolders
    BY DEF Start, threadVars, GuardHolders, TypeOK
  <2> QED BY <2>1, <2>2, CountKept DEF Start
<1>5. QueueIsWatched'
  BY DEF Start, eventVars, threadVars, QueueIsWatched, WillLook, OneScheduler, Scheduling, TypeOK
<1>6. FreeEventHeld'
  BY DEF Start, eventVars, threadVars, FreeEventHeld
<1>7. SuspensionHasReporter'
  BY DEF Start, eventVars, threadVars, SuspensionHasReporter, WillReport
<1>8. SuspendedAtSuspend'
  BY DEF Start, threadVars, SuspendedAtSuspend
<1> QED BY <1>1, <1>2, <1>3, <1>4, <1>5, <1>6, <1>7, <1>8

\* A callback ends, and its guard is with the thread.
LEMMA EndStep == ASSUME IInv, NEW t \in Threads, NEW c \in Callbacks, End(t, c) PROVE IInv'
<1> USE DEF IInv, At, Goto
<1>1. TypeOK'
  BY DEF End, eventVars, TypeOK, Steps
<1>2. QueueMatches'
  BY DEF End, QueueMatches
<1>3. OneScheduler'
  BY DEF End, eventVars, OneScheduler, Scheduling, TypeOK
<1>4. ActiveCountExact'
  <2>1. Outs' = Outs \ {c} /\ c \in Outs
    BY DEF End, Outs, Out, TypeOK
  <2>2. GuardHolders' = GuardHolders \cup {t} /\ t \notin GuardHolders
    BY DEF End, GuardHolders, TypeOK
  <2>3. Cardinality(Outs') = Cardinality(Outs) - 1
    BY <2>1, CountedFinite, FS_RemoveElement
  <2>4. Cardinality(GuardHolders') = Cardinality(GuardHolders) + 1
    BY <2>2, CountedFinite, FS_AddElement
  <2> QED BY <2>3, <2>4, CountedFinite DEF End, ActiveCountExact, Outs
<1>5. QueueIsWatched'
  BY DEF End, eventVars, threadVars, QueueIsWatched, WillLook, OneScheduler, Scheduling, TypeOK
<1>6. FreeEventHeld'
  BY DEF End, eventVars, FreeEventHeld
<1>7. SuspensionHasReporter'
  BY DEF End, eventVars, SuspensionHasReporter, WillReport
<1>8. SuspendedAtSuspend'
  BY DEF End, SuspendedAtSuspend
<1> QED BY <1>1, <1>2, <1>3, <1>4, <1>5, <1>6, <1>7, <1>8

\* A guard is undone: the count was positive, and if it drops to zero the thread will report.
LEMMA FinishedStep == ASSUME IInv, NEW t \in Threads, Finished(t) PROVE IInv'
<1> USE DEF IInv, At, Goto
<1>0. /\ GuardHolders' = GuardHolders \ {t} /\ t \in GuardHolders
      /\ ActiveInvocationCount \in Nat \ {0}
  <2>1. GuardHolders' = GuardHolders \ {t} /\ t \in GuardHolders
    BY DEF Finished, GuardHolders, TypeOK
  <2>2. Cardinality(GuardHolders) # 0
    BY <2>1, CountedFinite, FS_EmptySet
  <2> QED BY <2>1, <2>2, CountedFinite DEF ActiveCountExact, Outs
<1>1. TypeOK'
  <2>1. ActiveInvocationCount' \in Nat
    BY <1>0 DEF Finished
  <2> QED BY <2>1 DEF Finished, eventVars, TypeOK, Steps
<1>2. QueueMatches'
  BY DEF Finished, QueueMatches
<1>3. OneScheduler'
  BY DEF Finished, eventVars, OneScheduler, Scheduling, TypeOK
<1>4. ActiveCountExact'
  <2>1. Outs' = Outs
    BY DEF Finished, Outs, Out
  <2>2. Cardinality(GuardHolders') = Cardinality(GuardHolders) - 1
    BY <1>0, CountedFinite, FS_RemoveElement
  <2> QED BY <1>0, <2>1, <2>2, CountedFinite DEF Finished, ActiveCountExact, Outs
<1>5. QueueIsWatched'
  BY DEF Finished, eventVars, threadVars, QueueIsWatched, WillLook, OneScheduler, Scheduling, TypeOK
<1>6. FreeEventHeld'
  BY DEF Finished, eventVars, FreeEventHeld
<1>7. SuspensionHasReporter'
  BY DEF Finished, eventVars, SuspensionHasReporter, WillReport, TypeOK
<1>8. SuspendedAtSuspend'
  BY DEF Finished, SuspendedAtSuspend, TypeOK
<1> QED BY <1>1, <1>2, <1>3, <1>4, <1>5, <1>6, <1>7, <1>8

\* The last one out looks whether the invoker is suspended.
LEMMA LastStep == ASSUME IInv, NEW t \in Threads, Last(t) PROVE IInv'
<1> USE DEF IInv, At, Goto
<1>1. TypeOK'
  BY DEF Last, eventVars, TypeOK, Steps
<1>2. QueueMatches'
  BY DEF Last, QueueMatches
<1>3. OneScheduler'
  BY DEF Last, eventVars, OneScheduler, Scheduling, TypeOK
<1>4. ActiveCountExact'
  <2>1. Outs' = Outs
    BY DEF Last, threadVars, Outs, Out, TypeOK
  <2>2. GuardHolders' = GuardHolders
    BY DEF Last, threadVars, GuardHolders, TypeOK
  <2> QED BY <2>1, <2>2, CountKept DEF Last
<1>5. QueueIsWatched'
  BY DEF Last, eventVars, threadVars, QueueIsWatched, WillLook, OneScheduler, Scheduling, TypeOK
<1>6. FreeEventHeld'
  BY DEF Last, eventVars, FreeEventHeld
<1>7. SuspensionHasReporter'
  BY DEF Last, eventVars, SuspensionHasReporter, WillReport
<1>8. SuspendedAtSuspend'
  BY DEF Last, SuspendedAtSuspend, TypeOK
<1> QED BY <1>1, <1>2, <1>3, <1>4, <1>5, <1>6, <1>7, <1>8

\* ... and for an event to set.
LEMMA LookupStep == ASSUME IInv, NEW t \in Threads, Lookup(t) PROVE IInv'
<1> USE DEF IInv, At, Goto
<1>1. TypeOK'
  BY DEF Lookup, eventVars, TypeOK, Steps
<1>2. QueueMatches'
  BY DEF Lookup, QueueMatches
<1>3. OneScheduler'
  BY DEF Lookup, eventVars, OneScheduler, Scheduling, TypeOK
<1>4. ActiveCountExact'
  <2>1. Outs' = Outs
    BY DEF Lookup, threadVars, Outs, Out, TypeOK
  <2>2. GuardHolders' = GuardHolders
    BY DEF Lookup, threadVars, GuardHolders, TypeOK
  <2> QED BY <2>1, <2>2, CountKept DEF Lookup
<1>5. QueueIsWatched'
  BY DEF Lookup, eventVars, threadVars, QueueIsWatched, WillLook, OneScheduler, Scheduling, TypeOK
<1>6. FreeEventHeld'
  BY DEF Lookup, eventVars, threadVars, FreeEventHeld, Threads, TypeOK
<1>7. SuspensionHasReporter'
  BY DEF Lookup, eventVars, SuspensionHasReporter, WillReport, TypeOK
<1>8. SuspendedAtSuspend'
  BY DEF Lookup, eventVars, threadVars, SuspendedAtSuspend, Threads, TypeOK
<1> QED BY <1>1, <1>2, <1>3, <1>4, <1>5, <1>6, <1>7, <1>8

\* The event is set, or was another one.
LEMMA SignalStep == ASSUME IInv, NEW t \in Threads, Signal(t) PROVE IInv'
<1> USE DEF IInv, At, Goto
<1>1. TypeOK'
  BY DEF Signal, TrySet, TypeOK, Steps
<1>2. QueueMatches'
  BY DEF Signal, TrySet, QueueMatches
<1>3. OneScheduler'
  BY DEF Signal, TrySet, OneScheduler, Scheduling, TypeOK
<1>4. ActiveCountExact'
  <2>1. Outs' = Outs
    BY DEF Signal, TrySet, threadVars, Outs, Out, TypeOK
  <2>2. GuardHolders' = GuardHolders
    BY DEF Signal, TrySet, threadVars, GuardHolders, TypeOK
  <2> QED BY <2>1, <2>2, CountKept DEF Signal, TrySet
<1>5. QueueIsWatched'
  BY DEF Signal, TrySet, eventVars, threadVars, QueueIsWatched, WillLook, OneScheduler, Scheduling, TypeOK
<1>6. FreeEventHeld'
  BY DEF Signal, TrySet, FreeEventHeld
<1>7. SuspensionHasReporter'
  BY DEF Signal, TrySet, SuspensionHasReporter, WillReport, TypeOK
<1>8. SuspendedAtSuspend'
  BY DEF Signal, TrySet, SuspendedAtSuspend, TypeOK
<1> QED BY <1>1, <1>2, <1>3, <1>4, <1>5, <1>6, <1>7, <1>8

\* Suspend: there is no event as yet.
LEMMA BeginSuspendStep == ASSUME IInv, BeginSuspend PROVE IInv'
<1> USE DEF IInv, At, Goto
<1>0. Controller \in Threads
  BY DEF Threads
<1>1. TypeOK'
  <2>1. suspends' \in Events \cup {0}
    BY MaxSuspendsAssumption DEF BeginSuspend, TypeOK, Events
  <2> QED BY <1>0, <2>1 DEF BeginSuspend, TypeOK, Steps
<1>2. QueueMatches'
  BY <1>0 DEF BeginSuspend, QueueMatches
<1>3. OneScheduler'
  BY <1>0 DEF BeginSuspend, OneScheduler, Scheduling
<1>4. ActiveCountExact'
  <2>1. Outs' = Outs
    BY DEF BeginSuspend, threadVars, Outs, Out, TypeOK
  <2>2. GuardHolders' = GuardHolders
    BY <1>0 DEF BeginSuspend, threadVars, GuardHolders, TypeOK
  <2> QED BY <2>1, <2>2, CountKept DEF BeginSuspend
<1>5. QueueIsWatched'
  BY <1>0 DEF BeginSuspend, QueueIsWatched, WillLook
<1>6. FreeEventHeld'
  BY <1>0 DEF BeginSuspend, FreeEventHeld
<1>7. SuspensionHasReporter'
  <2>1. FreeEvent' = 0
    BY DEF BeginSuspend, FreeEventHeld
  <2> QED BY <2>1 DEF SuspensionHasReporter
<1>8. SuspendedAtSuspend'
  BY <1>0 DEF BeginSuspend, SuspendedAtSuspend
<1> QED BY <1>1, <1>2, <1>3, <1>4, <1>5, <1>6, <1>7, <1>8

\* Suspend: an event that is not set at once waits for something.
LEMMA EndSuspendStep == ASSUME IInv, EndSuspend PROVE IInv'
<1> USE DEF IInv, At, Goto
<1>0. Controller \in Threads
  BY DEF Threads
<1>1. TypeOK'
  BY <1>0 DEF EndSuspend, TypeOK, Steps
<1>2. QueueMatches'
  BY <1>0 DEF EndSuspend, QueueMatches
<1>3. OneScheduler'
  BY <1>0 DEF EndSuspend, OneScheduler, Scheduling
<1>4. ActiveCountExact'
  <2>1. Outs' = Outs
    BY DEF EndSuspend, threadVars, Outs, Out, TypeOK
  <2>2. GuardHolders' = GuardHolders
    BY <1>0 DEF EndSuspend, threadVars, GuardHolders, TypeOK
  <2> QED BY <2>1, <2>2, CountKept DEF EndSuspend
<1>5. QueueIsWatched'
  BY <1>0 DEF EndSuspend, eventVars, threadVars, QueueIsWatched, WillLook, OneScheduler, Scheduling, TypeOK
<1>6. FreeEventHeld'
  BY DEF EndSuspend, FreeEventHeld, SuspendedAtSuspend
<1>7. SuspensionHasReporter'
  BY <1>0 DEF EndSuspend, SuspensionHasReporter, WillReport, TypeOK
<1>8. SuspendedAtSuspend'
  BY <1>0 DEF EndSuspend, SuspendedAtSuspend
<1> QED BY <1>1, <1>2, <1>3, <1>4, <1>5, <1>6, <1>7, <1>8

\* Resume: the controller will look at the queue.
LEMMA BeginResumeStep == ASSUME IInv, BeginResume PROVE IInv'
<1> USE DEF IInv, At, Goto
<1>0. Controller \in Threads
  BY DEF Threads
<1>1. TypeOK'
  BY <1>0 DEF BeginResume, eventVars, TypeOK, Steps
<1>2. QueueMatches'
  BY <1>0 DEF BeginResume, QueueMatches
<1>3. OneScheduler'
  BY <1>0 DEF BeginResume, eventVars, OneScheduler, Scheduling
<1>4. ActiveCountExact'
  <2>1. Outs' = Outs
    BY DEF BeginResume, threadVars, Outs, Out, TypeOK
  <2>2. GuardHolders' = GuardHolders
    BY <1>0 DEF BeginResume, threadVars, GuardHolders, TypeOK
  <2> QED BY <2>1, <2>2, CountKept DEF BeginResume
<1>5. QueueIsWatched'
  BY <1>0 DEF BeginResume, eventVars, QueueIsWatched, WillLook, TypeOK
<1>6. FreeEventHeld'
  BY <1>0 DEF BeginResume, eventVars, FreeEventHeld, TypeOK
<1>7. SuspensionHasReporter'
  BY <1>0 DEF BeginResume, eventVars, SuspensionHasReporter, WillReport
<1>8. SuspendedAtSuspend'
  BY <1>0 DEF BeginResume, SuspendedAtSuspend
<1> QED BY <1>1, <1>2, <1>3, <1>4, <1>5, <1>6, <1>7, <1>8

\* Resume takes the event away.
LEMMA TakeFreeEventStep == ASSUME IInv, TakeFreeEvent PROVE IInv'
<1> USE DEF IInv, At, Goto
<1>0. Controller \in Threads
  BY DEF Threads
<1>1. TypeOK'
  BY <1>0 DEF TakeFreeEvent, TypeOK, Steps
<1>2. QueueMatches'
  BY <1>0 DEF TakeFreeEvent, QueueMatches
<1>3. OneScheduler'
  BY <1>0 DEF TakeFreeEvent, OneScheduler, Scheduling
<1>4. ActiveCountExact'
  <2>1. Outs' = Outs
    BY DEF TakeFreeEvent, threadVars, Outs, Out, TypeOK
  <2>2. GuardHolders' = GuardHolders
    BY <1>0 DEF TakeFreeEvent, threadVars, GuardHolders, TypeOK
  <2> QED BY <2>1, <2>2, CountKept DEF TakeFreeEvent
<1>5. QueueIsWatched'
  BY <1>0 DEF TakeFreeEvent, QueueIsWatched, WillLook
<1>6. FreeEventHeld'
  BY <1>0 DEF TakeFreeEvent, FreeEventHeld
<1>7. SuspensionHasReporter'
  BY <1>0 DEF TakeFreeEvent, SuspensionHasReporter, WillReport
<1>8. SuspendedAtSuspend'
  BY <1>0 DEF TakeFreeEvent, SuspendedAtSuspend
<1> QED BY <1>1, <1>2, <1>3, <1>4, <1>5, <1>6, <1>7, <1>8

\* Resume answers the event and goes on to ScheduleMore.
LEMMA EndResumeStep == ASSUME IInv, EndResume PROVE IInv'
<1> USE DEF IInv, At, Goto
<1>0. Controller \in Threads
  BY DEF Threads
<1>1. TypeOK'
  BY <1>0 DEF EndResume, TrySet, TypeOK, Steps
<1>2. QueueMatches'
  BY <1>0 DEF EndResume, TrySet, QueueMatches
<1>3. OneScheduler'
  BY <1>0 DEF EndResume, TrySet, OneScheduler, Scheduling
<1>4. ActiveCountExact'
  <2>1. Outs' = Outs
    BY DEF EndResume, TrySet, threadVars, Outs, Out, TypeOK
  <2>2. GuardHolders' = GuardHolders
    BY <1>0 DEF EndResume, TrySet, threadVars, GuardHolders, TypeOK
  <2> QED BY <2>1, <2>2, CountKept DEF EndResume, TrySet
<1>5. QueueIsWatched'
  BY <1>0 DEF EndResume, TrySet, QueueIsWatched, WillLook
<1>6. FreeEventHeld'
  BY <1>0 DEF EndResume, TrySet, FreeEventHeld
<1>7. SuspensionHasReporter'
  BY <1>0 DEF EndResume, TrySet, SuspensionHasReporter, WillReport
<1>8. SuspendedAtSuspend'
  BY <1>0 DEF EndResume, TrySet, SuspendedAtSuspend
<1> QED BY <1>1, <1>2, <1>3, <1>4, <1>5, <1>6, <1>7, <1>8

-----------------------------------------------------------------------------
(* The theorems.                                                           *)

\* A new invoker satisfies the invariant.
LEMMA InvariantInit == Init => IInv
<1> SUFFICES ASSUME Init PROVE IInv
  OBVIOUS
<1>1. TypeOK
  BY DEF Init, TypeOK, Steps
<1>2. Outs = {} /\ GuardHolders = {}
  BY DEF Init, Outs, Out, GuardHolders
<1>3. ActiveCountExact
  <2>1. ActiveInvocationCount = Cardinality(Outs) + Cardinality(GuardHolders)
    BY <1>2, FS_EmptySet DEF Init
  <2> QED BY <2>1 DEF ActiveCountExact, Outs
<1>4. QueueMatches /\ OneScheduler /\ QueueIsWatched
  BY DEF Init, QueueMatches, OneScheduler, Scheduling, QueueIsWatched
<1>5. FreeEventHeld /\ SuspendedAtSuspend /\ SuspensionHasReporter
  BY DEF Init, FreeEventHeld, SuspendedAtSuspend, SuspensionHasReporter, Threads
<1> QED BY <1>1, <1>3, <1>4, <1>5 DEF IInv

\* Every step keeps the invariant.
LEMMA InvariantStep == IInv /\ [Next]_vars => IInv'
<1> SUFFICES ASSUME IInv, [Next]_vars PROVE IInv'
  OBVIOUS
<1>1. ASSUME NEW t \in Threads, ThreadStep(t) PROVE IInv'
  BY <1>1, EnterStep, ClaimStep, LoopStep, CountStep, CheckStep, TakeStep, UnclaimStep, RecheckStep, FinishedStep,
     LastStep, LookupStep, SignalStep DEF ThreadStep
<1>2. ASSUME NEW t \in Workers, NEW c \in Callbacks, Invoke(t, c) \/ End(t, c) PROVE IInv'
  BY <1>2, InvokeStep, EndStep DEF Threads
<1>3. CASE UNCHANGED vars
  <2>1. Outs' = Outs /\ GuardHolders' = GuardHolders
    BY <1>3 DEF vars, threadVars, Outs, Out, GuardHolders
  <2>2. ActiveCountExact'
    BY <1>3, <2>1, CountKept DEF vars, IInv
  <2> QED BY <1>3, <2>2 DEF vars, eventVars, threadVars, IInv, TypeOK, QueueMatches, OneScheduler, Scheduling,
                            QueueIsWatched, WillLook, FreeEventHeld, SuspendedAtSuspend, SuspensionHasReporter,
                            WillReport
<1> QED BY <1>1, <1>2, <1>3, StartStep, BeginSuspendStep, EndSuspendStep, BeginResumeStep, TakeFreeEventStep,
           EndResumeStep DEF Next

\* The invariant holds in every behaviour of the invoker.
THEOREM Invariance == Spec => []IInv
BY InvariantInit, InvariantStep, PTL DEF Spec

\* ActiveInvocationCount_ of TSuspendableInvoker is the number of callbacks
\* out and of guards held, at every step of the lock-free ScheduleMore and
\* OnFinished.
THEOREM ActiveCountIsExact == Spec => []ActiveCountExact
<1>1. IInv => ActiveCountExact
  BY DEF IInv
<1> QED BY <1>1, Invariance, PTL

\* At most one thread is in the loop of ScheduleMore, and SchedulingMore_ is
\* set while one is: Queue_ has a single consumer.
THEOREM SchedulerIsUnique == Spec => []OneScheduler
<1>1. IInv => OneScheduler
  BY DEF IInv
<1> QED BY <1>1, Invariance, PTL

\* No callback is left in Queue_ of an invoker that is not suspended and in
\* which no thread is at work.
THEOREM NothingIsForgotten == Spec => []NothingForgotten
<1>1. IInv => NothingForgotten
  BY DEF IInv, QueueIsWatched, WillLook, Scheduling, NothingForgotten
<1> QED BY <1>1, Invariance, PTL

\* A Suspend that is not yet answered waits for a callback or a guard, or a
\* thread in OnFinished is about to set its promise: the answer is not lost.
THEOREM AnswerIsNotLost == Spec => []SuspensionHasReporter
<1>1. IInv => SuspensionHasReporter
  BY DEF IInv
<1> QED BY <1>1, Invariance, PTL
=============================================================================
