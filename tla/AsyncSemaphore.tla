--------------------------- MODULE AsyncSemaphore ---------------------------
(***************************************************************************)
(* TAsyncSemaphore (yt/yt/core/concurrency/async_semaphore.cpp): a counter *)
(* of slots with an asynchronous acquire.  Every section of the code that  *)
(* holds SpinLock_ is one step; the promises are set between two sections  *)
(* of Release, with the lock free, and the flag Releasing_ keeps a second  *)
(* thread (or a reentrant call made by a subscriber) out of that loop.     *)
(*                                                                         *)
(* A request is one call of Acquire, TryAcquire or AsyncAcquire together   *)
(* with the guard it yields.                                               *)
(***************************************************************************)
EXTENDS Integers, Sequences, FiniteSets

CONSTANTS
    Threads,          \* threads that call Release and SetTotal
    Requests,         \* acquire calls, each made at most once
    Forced,           \* those made with Acquire, which cannot fail
    Slots,            \* Slots[r]: the slots request r asks for
    InitialTotal,     \* argument of the constructor
    Totals,           \* arguments of SetTotal
    MaxSetTotals,     \* bound on the number of SetTotal calls
    EnableOverdraft   \* EnableOverdraft_

ASSUME RequestsAssumption == IsFiniteSet(Requests) /\ Forced \subseteq Requests
ASSUME SlotsAssumption == Slots \in [Requests -> Nat]
ASSUME TotalsAssumption == InitialTotal \in Nat /\ Totals \subseteq Nat /\ MaxSetTotals \in Nat
ASSUME OverdraftAssumption == EnableOverdraft \in BOOLEAN

VARIABLES
    TotalSlots,   \* TotalSlots_
    FreeSlots,    \* FreeSlots_, negative after an overdraft
    Releasing,    \* Releasing_, "yes" or "no"
    ReadyEvent,   \* ReadyEvent_: "none" (null) or "pending" (a promise)
    Waiters,      \* Waiters_, a sequence of requests
    pc,           \* pc[t]: where thread t is in SetTotal or Release
    batch,        \* batch[t]: waitersToRelease, a local of Release
    readySetters, \* threads with a readyEventToSet, a local of Release
    status,       \* status[r]: what became of request r
    guardSlots,   \* guardSlots[r]: slots taken for r and not yet returned
    canceled,     \* requests whose future was cancelled before it was set
    setTotals     \* number of SetTotal calls made

semVars == <<TotalSlots, FreeSlots, Releasing, ReadyEvent, Waiters>>
threadVars == <<pc, batch, readySetters>>
requestVars == <<status, guardSlots, canceled>>
vars == <<semVars, threadVars, requestVars, setTotals>>

Statuses == {"new", "waiting", "granting", "held", "denied", "done"}

TypeOK ==
    /\ TotalSlots \in Nat
    /\ FreeSlots \in Int
    /\ Releasing \in {"yes", "no"}
    /\ ReadyEvent \in {"none", "pending"}
    /\ Waiters \in Seq(Requests)
    /\ pc \in [Threads -> {"idle", "kick", "drain", "deliver"}]
    /\ batch \in [Threads -> Seq(Requests)]
    /\ readySetters \subseteq Threads
    /\ status \in [Requests -> Statuses]
    /\ guardSlots \in [Requests -> Nat]
    /\ canceled \subseteq Requests
    /\ setTotals \in Nat

Init ==
    /\ TotalSlots = InitialTotal
    /\ FreeSlots = InitialTotal
    /\ Releasing = "no"
    /\ ReadyEvent = "none"
    /\ Waiters = <<>>
    /\ pc = [t \in Threads |-> "idle"]
    /\ batch = [t \in Threads |-> <<>>]
    /\ readySetters = {}
    /\ status = [r \in Requests |-> "new"]
    /\ guardSlots = [r \in Requests |-> 0]
    /\ canceled = {}
    /\ setTotals = 0

-----------------------------------------------------------------------------
(* Slots as sets of units, so that sums of slots are cardinalities.        *)

Units(f) == UNION {{r} \X (1..f[r]) : r \in DOMAIN f}

\* The slots asked for by the requests of R, together.
Weight(R) == Cardinality(Units([r \in R |-> Slots[r]]))

\* The slots that are out: taken by a guard, or by a waiter being granted.
UsedSlots == Cardinality(Units(guardSlots))

CanOverdraft(free) == EnableOverdraft /\ TotalSlots = free

-----------------------------------------------------------------------------
(* Acquiring.                                                              *)

\* The test TryAcquire and AsyncAcquire make.  It looks at the counter only:
\* a newcomer may overtake the waiters of the queue.
CanAcquireNow(r) == FreeSlots >= Slots[r] \/ CanOverdraft(FreeSlots)

\* The slots leave the counter and belong to a guard.
Take(r) ==
    /\ FreeSlots' = FreeSlots - Slots[r]
    /\ guardSlots' = [guardSlots EXCEPT ![r] = Slots[r]]
    /\ status' = [status EXCEPT ![r] = "held"]

\* Acquire cannot fail and may leave FreeSlots negative.
Acquire(r) ==
    /\ r \in Forced
    /\ status[r] = "new"
    /\ Take(r)
    /\ UNCHANGED <<TotalSlots, Releasing, ReadyEvent, Waiters, threadVars, canceled, setTotals>>

TryAcquire(r) ==
    /\ r \notin Forced
    /\ status[r] = "new"
    /\ IF CanAcquireNow(r)
         THEN Take(r)
         ELSE /\ status' = [status EXCEPT ![r] = "denied"]
              /\ UNCHANGED <<FreeSlots, guardSlots>>
    /\ UNCHANGED <<TotalSlots, Releasing, ReadyEvent, Waiters, threadVars, canceled, setTotals>>

AsyncAcquire(r) ==
    /\ r \notin Forced
    /\ status[r] = "new"
    /\ IF CanAcquireNow(r)
         THEN Take(r) /\ UNCHANGED Waiters
         ELSE /\ Waiters' = Append(Waiters, r)
              /\ status' = [status EXCEPT ![r] = "waiting"]
              /\ UNCHANGED <<FreeSlots, guardSlots>>
    /\ UNCHANGED <<TotalSlots, Releasing, ReadyEvent, threadVars, canceled, setTotals>>

\* The consumer cancels the future of a waiter: the promise keeps its place
\* in the queue, but TrySet will find it set and drop the guard.
Cancel(r) ==
    /\ status[r] \in {"waiting", "granting"}
    /\ r \notin canceled
    /\ canceled' = canceled \cup {r}
    /\ UNCHANGED <<semVars, threadVars, status, guardSlots, setTotals>>

\* GetReadyEvent when no slot is free (otherwise it returns a set future).
GetReadyEvent ==
    /\ FreeSlots <= 0
    /\ ReadyEvent = "none"
    /\ ReadyEvent' = "pending"
    /\ UNCHANGED <<TotalSlots, FreeSlots, Releasing, Waiters, threadVars, requestVars, setTotals>>

\* Mutant: slotsToTransfer is not checked against Slots_.
TransferSlotsUnchecked(r, s) ==
    /\ status[r] = "held"
    /\ status[s] = "new"
    /\ guardSlots' = [guardSlots EXCEPT ![r] = @ - 1, ![s] = 1]
    /\ status' = [status EXCEPT ![s] = "held"]
    /\ UNCHANGED <<semVars, threadVars, canceled, setTotals>>

\* TransferSlots: n of the slots of r's guard move to a new guard s.
TransferSlots(r, s) ==
    /\ status[r] = "held"
    /\ status[s] = "new"
    /\ \E n \in 0..guardSlots[r] :
         guardSlots' = [guardSlots EXCEPT ![r] = @ - n, ![s] = n]
    /\ status' = [status EXCEPT ![s] = "held"]
    /\ UNCHANGED <<semVars, threadVars, canceled, setTotals>>

-----------------------------------------------------------------------------
(* Releasing.                                                              *)

\* Mutant: the early return comes before the slots are added.
EnterReleaseLosesSlots(t, slots) ==
    /\ FreeSlots' = IF Releasing = "yes" THEN FreeSlots ELSE FreeSlots + slots
    /\ Releasing' = "yes"
    /\ pc' = [pc EXCEPT ![t] = IF Releasing = "yes" THEN "idle" ELSE "drain"]

\* Mutant: Releasing_ is not looked at.
EnterReleaseUnguarded(t, slots) ==
    /\ FreeSlots' = FreeSlots + slots
    /\ pc' = [pc EXCEPT ![t] = "drain"]
    /\ Releasing' = "yes"

\* The first locked section of Release: return the slots, and leave if some
\* thread is in the loop already.
EnterRelease(t, slots) ==
    /\ FreeSlots' = FreeSlots + slots
    /\ Releasing' = "yes"
    /\ pc' = [pc EXCEPT ![t] = IF Releasing = "yes" THEN "idle" ELSE "drain"]

\* A guard is released or destroyed: Release(Slots_).
ReleaseGuard(t, r) ==
    /\ pc[t] = "idle"
    /\ status[r] = "held"
    /\ EnterRelease(t, guardSlots[r])
    /\ guardSlots' = [guardSlots EXCEPT ![r] = 0]
    /\ status' = [status EXCEPT ![r] = "done"]
    /\ UNCHANGED <<TotalSlots, ReadyEvent, Waiters, batch, readySetters, canceled, setTotals>>

\* SetTotal: the counters change in one section ...
SetTotal(t, total) ==
    /\ pc[t] = "idle"
    /\ setTotals < MaxSetTotals
    /\ setTotals' = setTotals + 1
    /\ TotalSlots' = total
    /\ FreeSlots' = FreeSlots + (total - TotalSlots)
    /\ pc' = [pc EXCEPT ![t] = "kick"]
    /\ UNCHANGED <<Releasing, ReadyEvent, Waiters, batch, readySetters, requestVars>>

\* Mutant: SetTotal ends without Release(0).
KickForgotten(t) ==
    /\ pc[t] = "kick"
    /\ pc' = [pc EXCEPT ![t] = "idle"]
    /\ UNCHANGED <<semVars, batch, readySetters, requestVars, setTotals>>

\* ... and the waiters are looked at by the Release(0) that follows.
Kick(t) ==
    /\ pc[t] = "kick"
    /\ EnterRelease(t, 0)
    /\ UNCHANGED <<TotalSlots, ReadyEvent, Waiters, batch, readySetters, requestVars, setTotals>>

\* The slots free once the first k waiters have been granted theirs.
FreeAfter(k) == FreeSlots - Weight({Waiters[i] : i \in 1..k})

\* The condition of the for loop for the waiter behind the first k ones.
FrontCanAcquire(k) ==
    /\ k < Len(Waiters)
    /\ \/ FreeAfter(k) >= Slots[Waiters[k + 1]]
       \/ CanOverdraft(FreeAfter(k)) /\ Slots[Waiters[k + 1]] > TotalSlots

\* The for loop pops k waiters: each can acquire in its turn, the next cannot.
PopsExactly(k) ==
    /\ \A i \in 0..(k - 1) : FrontCanAcquire(i)
    /\ ~FrontCanAcquire(k)

\* The first k waiters leave the queue with their slots, and the ready event
\* is taken if slots remain.  With nothing to set, the loop ends.
GrantFirst(t, k) ==
    LET granted == {Waiters[i] : i \in 1..k}
        ready == ReadyEvent = "pending" /\ FreeAfter(k) > 0
    IN /\ FreeSlots' = FreeAfter(k)
       /\ Waiters' = SubSeq(Waiters, k + 1, Len(Waiters))
       /\ batch' = [batch EXCEPT ![t] = SubSeq(Waiters, 1, k)]
       /\ readySetters' = IF ready THEN readySetters \cup {t} ELSE readySetters
       /\ ReadyEvent' = IF ready THEN "none" ELSE ReadyEvent
       /\ status' = [r \in Requests |-> IF r \in granted THEN "granting" ELSE status[r]]
       /\ guardSlots' = [r \in Requests |-> IF r \in granted THEN Slots[r] ELSE guardSlots[r]]
       /\ Releasing' = IF k = 0 /\ ~ready THEN "no" ELSE Releasing
       /\ pc' = [pc EXCEPT ![t] = IF k = 0 /\ ~ready THEN "idle" ELSE "deliver"]

\* The locked section of the loop of Release.
Drain(t) ==
    /\ pc[t] = "drain"
    /\ \E k \in 0..Len(Waiters) : PopsExactly(k) /\ GrantFirst(t, k)
    /\ UNCHANGED <<TotalSlots, canceled, setTotals>>

\* TrySet of one promise of the batch, with the lock free.  On a cancelled
\* promise the guard is destroyed on the spot: a reentrant Release, which
\* returns the slots and leaves because Releasing is set.
Deliver(t) ==
    /\ pc[t] = "deliver"
    /\ batch[t] # <<>>
    /\ LET r == Head(batch[t])
       IN IF r \in canceled
            THEN /\ FreeSlots' = FreeSlots + guardSlots[r]
                 /\ guardSlots' = [guardSlots EXCEPT ![r] = 0]
                 /\ status' = [status EXCEPT ![r] = "done"]
            ELSE /\ status' = [status EXCEPT ![r] = "held"]
                 /\ UNCHANGED <<FreeSlots, guardSlots>>
    /\ batch' = [batch EXCEPT ![t] = Tail(@)]
    /\ UNCHANGED <<TotalSlots, Releasing, ReadyEvent, Waiters, pc, readySetters, canceled, setTotals>>

\* Mutant: Release leaves after one batch and keeps Releasing_ set.
EndDeliveryStuckFlag(t) ==
    /\ pc[t] = "deliver"
    /\ batch[t] = <<>>
    /\ readySetters' = readySetters \ {t}
    /\ pc' = [pc EXCEPT ![t] = "idle"]
    /\ UNCHANGED <<semVars, batch, requestVars, setTotals>>

\* The batch is through: set the ready event, if it was taken, and loop.
EndDelivery(t) ==
    /\ pc[t] = "deliver"
    /\ batch[t] = <<>>
    /\ readySetters' = readySetters \ {t}
    /\ pc' = [pc EXCEPT ![t] = "drain"]
    /\ UNCHANGED <<semVars, batch, requestVars, setTotals>>

-----------------------------------------------------------------------------

Next ==
    \/ GetReadyEvent
    \/ \E r \in Requests : Acquire(r) \/ TryAcquire(r) \/ AsyncAcquire(r) \/ Cancel(r)
    \/ \E r, s \in Requests : TransferSlots(r, s)
    \/ \E t \in Threads :
         \/ \E r \in Requests : ReleaseGuard(t, r)
         \/ \E total \in Totals : SetTotal(t, total)
         \/ Kick(t)
         \/ Drain(t)
         \/ Deliver(t)
         \/ EndDelivery(t)

Spec == Init /\ [][Next]_vars

\* A thread inside SetTotal or Release keeps running, and the owner of a
\* guard returns it sooner or later.
ThreadStep(t) == Kick(t) \/ Drain(t) \/ Deliver(t) \/ EndDelivery(t)

Fairness ==
    /\ \A t \in Threads : WF_vars(ThreadStep(t))
    /\ \A r \in Requests : WF_vars(\E t \in Threads : ReleaseGuard(t, r))

FairSpec == Spec /\ Fairness

-----------------------------------------------------------------------------

\* No slot is lost or returned twice: the slots that are not free are the
\* slots of the guards and of the waiters being granted, across the unlocked
\* part of Release and the reentrant release of a cancelled waiter's guard.
\* (In particular FreeSlots never exceeds TotalSlots, YT_VERIFY in Release.)
SlotsConserved == TotalSlots - FreeSlots = UsedSlots

\* At most one thread is in the loop of Release, and Releasing_ says so.
Looping == {t \in Threads : pc[t] \in {"drain", "deliver"}}
OneReleaser == \A t, u \in Looping : t = u /\ Releasing = "yes"

\* No lost wakeup: when no thread is in Release, nor between the two sections
\* of SetTotal, the waiter at the front cannot be granted and the ready event
\* is pending only if no slot is free.
NoLostWakeup ==
    (Releasing = "no" /\ \A t \in Threads : pc[t] # "kick")
        => ~FrontCanAcquire(0) /\ (ReadyEvent = "pending" => FreeSlots <= 0)

\* Under fair threads and owners, every waiter leaves the queue and gets its
\* guard, however it is overtaken, cancelled or resized around.
EveryWaiterServed ==
    \A r \in Requests : status[r] = "waiting" ~> status[r] \in {"held", "done"}

=============================================================================
