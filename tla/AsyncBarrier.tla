---------------------------- MODULE AsyncBarrier ----------------------------
(***************************************************************************)
(* TAsyncBarrier (yt/yt/core/concurrency/async_barrier.cpp): counts items  *)
(* in and out and hands out futures that become set when every item        *)
(* present at the call is gone.  The barrier does not store the items: it  *)
(* keeps a queue of slots, of which the first one has number               *)
(* FirstSlotCookie, and a queue of subscriptions, each waiting for the     *)
(* first slot to reach a given number.                                     *)
(*                                                                         *)
(* Promises are set after the lock is released.  Clear starts the slot     *)
(* numbers afresh, so the cookies handed out before it are void: an item   *)
(* that was cleared away is not removed any more.                          *)
(***************************************************************************)
EXTENDS Integers, Sequences, FiniteSets

CONSTANTS
    Removers,   \* threads that call Remove and Clear
    Items,      \* items, each inserted at most once
    Calls       \* calls of GetBarrierFuture, each made at most once

VARIABLES
    FirstSlotCookie,   \* FirstSlotCookie_
    SlotOccupied,      \* SlotOccupied_, a sequence of "yes" and "no"
    Subscriptions,     \* Subscriptions_: a sequence of [BarrierCookie, promise]
    cookie,            \* cookie[i]: what Insert returned for item i, 0 if none
    present,           \* items inserted and neither removed nor cleared
    toSet,             \* toSet[t]: promises thread t has still to set, and how
    promiseOf,         \* promiseOf[c]: the call whose promise c waits for, or c itself
    outcome,           \* outcome[c]: of the promise made by call c
    awaited            \* awaited[c]: the items present at call c (history)

slotVars == <<FirstSlotCookie, SlotOccupied, Subscriptions>>
callVars == <<promiseOf, outcome, awaited>>
barrierVars == <<slotVars, cookie, present, toSet, callVars>>

Outcomes == {"none", "pending", "set", "error"}

BarrierTypeOK ==
    /\ FirstSlotCookie \in Nat \ {0}
    /\ SlotOccupied \in Seq({"yes", "no"})
    /\ Subscriptions \in Seq([BarrierCookie : Nat, promise : Calls])
    /\ cookie \in [Items -> Nat]
    /\ present \subseteq Items
    /\ toSet \in [Removers -> [result : {"set", "error"}, promises : SUBSET Calls]]
    /\ promiseOf \in [Calls -> Calls]
    /\ outcome \in [Calls -> Outcomes]
    /\ awaited \in [Calls -> SUBSET Items]

Nothing == [result |-> "set", promises |-> {}]

BarrierInit ==
    /\ FirstSlotCookie = 1
    /\ SlotOccupied = <<>>
    /\ Subscriptions = <<>>
    /\ cookie = [i \in Items |-> 0]
    /\ present = {}
    /\ toSet = [t \in Removers |-> Nothing]
    /\ promiseOf = [c \in Calls |-> c]
    /\ outcome = [c \in Calls |-> "none"]
    /\ awaited = [c \in Calls |-> {}]

\* Mutant: the barrier is put before the last slot instead of after it.
NextCookieLast == FirstSlotCookie + Len(SlotOccupied) - 1

\* The number the next inserted item gets; a barrier future waits for the
\* first slot to reach it.
NextCookie == FirstSlotCookie + Len(SlotOccupied)

Idle(t) == toSet[t].promises = {}

-----------------------------------------------------------------------------

Insert(i) ==
    /\ cookie[i] = 0
    /\ SlotOccupied' = Append(SlotOccupied, "yes")
    /\ cookie' = [cookie EXCEPT ![i] = FirstSlotCookie + Len(SlotOccupied') - 1]
    /\ present' = present \cup {i}
    /\ UNCHANGED <<FirstSlotCookie, Subscriptions, toSet, callVars>>

\* The loop that pops free slots off the front of the queue: n of them.
LeadingFree(slots, n) ==
    /\ \A j \in 1..n : slots[j] = "no"
    /\ n < Len(slots) => slots[n + 1] = "yes"

\* Mutant: the subscription for the first slot itself waits on.
DueStrictly(first, n) ==
    /\ \A j \in 1..n : Subscriptions[j].BarrierCookie < first
    /\ n < Len(Subscriptions) => Subscriptions[n + 1].BarrierCookie >= first

\* The loop that pops the n subscriptions that are due.
Due(first, n) ==
    /\ \A j \in 1..n : Subscriptions[j].BarrierCookie <= first
    /\ n < Len(Subscriptions) => Subscriptions[n + 1].BarrierCookie > first

\* Remove, the locked part.
Remove(t, i) ==
    /\ Idle(t)
    /\ i \in present
    /\ \E n \in 0..Len(SlotOccupied), m \in 0..Len(Subscriptions) :
         LET slots == [SlotOccupied EXCEPT ![cookie[i] - FirstSlotCookie + 1] = "no"]
         IN /\ LeadingFree(slots, n)
            /\ SlotOccupied' = SubSeq(slots, n + 1, Len(slots))
            /\ FirstSlotCookie' = FirstSlotCookie + n
            /\ Due(FirstSlotCookie + n, m)
            /\ Subscriptions' = SubSeq(Subscriptions, m + 1, Len(Subscriptions))
            /\ toSet' = [toSet EXCEPT ![t] =
                           [result |-> "set",
                            promises |-> {Subscriptions[j].promise : j \in 1..m}]]
    /\ present' = present \ {i}
    /\ UNCHANGED <<cookie, callVars>>

\* Mutant: Clear collects the promises, but does not fail them.
SetPromiseNoErrors(t) ==
    /\ toSet[t].result = "set"
    /\ \E c \in toSet[t].promises :
         /\ outcome' = [outcome EXCEPT ![c] = "set"]
         /\ toSet' = [toSet EXCEPT ![t].promises = @ \ {c}]
    /\ UNCHANGED <<slotVars, cookie, present, promiseOf, awaited>>

\* Remove and Clear, the part after the lock: set one promise.
SetPromise(t) ==
    /\ \E c \in toSet[t].promises :
         /\ outcome' = [outcome EXCEPT ![c] = toSet[t].result]
         /\ toSet' = [toSet EXCEPT ![t].promises = @ \ {c}]
    /\ UNCHANGED <<slotVars, cookie, present, promiseOf, awaited>>

\* GetBarrierFuture: done at once, shared with the last subscription, or new.
GetBarrierFuture(c) ==
    /\ outcome[c] = "none"
    /\ awaited' = [awaited EXCEPT ![c] = present]
    /\ \/ /\ SlotOccupied = <<>>
          /\ outcome' = [outcome EXCEPT ![c] = "set"]
          /\ UNCHANGED <<promiseOf, Subscriptions>>
       \/ /\ SlotOccupied # <<>>
          /\ Subscriptions # <<>>
          /\ Subscriptions[Len(Subscriptions)].BarrierCookie = NextCookie
          /\ promiseOf' = [promiseOf EXCEPT ![c] = Subscriptions[Len(Subscriptions)].promise]
          /\ outcome' = [outcome EXCEPT ![c] = "pending"]
          /\ UNCHANGED Subscriptions
       \/ /\ SlotOccupied # <<>>
          /\ Subscriptions # <<>> => Subscriptions[Len(Subscriptions)].BarrierCookie # NextCookie
          /\ Subscriptions' = Append(Subscriptions, [BarrierCookie |-> NextCookie, promise |-> c])
          /\ outcome' = [outcome EXCEPT ![c] = "pending"]
          /\ UNCHANGED promiseOf
    /\ UNCHANGED <<FirstSlotCookie, SlotOccupied, cookie, present, toSet>>

\* Clear, the locked part; the destructor does the same.
Clear(t) ==
    /\ Idle(t)
    /\ SlotOccupied' = <<>>
    /\ FirstSlotCookie' = 1
    /\ Subscriptions' = <<>>
    /\ toSet' = [toSet EXCEPT ![t] =
                   [result |-> "error",
                    promises |-> {Subscriptions[j].promise : j \in 1..Len(Subscriptions)}]]
    /\ present' = {}
    /\ UNCHANGED <<cookie, callVars>>

-----------------------------------------------------------------------------

BarrierNext ==
    \/ \E i \in Items : Insert(i)
    \/ \E c \in Calls : GetBarrierFuture(c)
    \/ \E t \in Removers :
         \/ \E i \in Items : Remove(t, i)
         \/ Clear(t)
         \/ SetPromise(t)

BarrierSpec == BarrierInit /\ [][BarrierNext]_barrierVars

\* Threads finish what they began, and every item is removed in the end.
BarrierFairness ==
    /\ \A t \in Removers : WF_barrierVars(SetPromise(t))
    /\ \A i \in Items : WF_barrierVars(\E t \in Removers : Remove(t, i))

FairBarrierSpec == BarrierSpec /\ BarrierFairness

-----------------------------------------------------------------------------

\* The outcome of the future that call c returned.
FutureOutcome(c) == IF outcome[c] = "none" THEN "none" ELSE outcome[promiseOf[c]]

Delivering(p) == \E t \in Removers : p \in toSet[t].promises

\* A barrier future is set successfully only when every item present at the
\* call is gone, also when the future is shared with an earlier call.
BarrierNotEarly ==
    \A c \in Calls : FutureOutcome(c) = "set" => awaited[c] \cap present = {}

\* ... and then at once: when the last of these items is gone the promise is
\* set or in the hands of the thread that sets it.
BarrierNotLate ==
    \A c \in Calls :
        (FutureOutcome(c) = "pending" /\ awaited[c] \cap present = {}) => Delivering(promiseOf[c])

\* No barrier future stays pending if all items get removed.
BarrierReached ==
    \A c \in Calls : FutureOutcome(c) = "pending" ~> FutureOutcome(c) \in {"set", "error"}
=============================================================================
