------------------------ MODULE AsyncSemaphore_proofs ------------------------
(***************************************************************************)
(* Proofs about AsyncSemaphore, for any threads, requests and totals.      *)
(***************************************************************************)
EXTENDS AsyncSemaphore, SequenceTheorems, FiniteSetTheorems, TLAPS

-----------------------------------------------------------------------------
(* Facts about sums of slots, as cardinalities of sets of units.           *)

\* The units of a finite function are finite in number.
LEMMA UnitsFinite ==
    ASSUME NEW R, IsFiniteSet(R), NEW f \in [R -> Nat]
    PROVE  IsFiniteSet(Units(f))
<1> DEFINE F == [r \in R |-> {r} \X (1..f[r])]
           T == {{r} \X (1..f[r]) : r \in R}
<1>1. F \in Surjection(R, T)
  BY DEF Surjection
<1>2. IsFiniteSet(T)
  BY <1>1, FS_Surjection
<1>3. \A x \in T : IsFiniteSet(x)
  <2> TAKE x \in T
  <2>1. PICK r \in R : x = {r} \X (1..f[r])
    OBVIOUS
  <2>2. IsFiniteSet({r})
    BY FS_Singleton
  <2>3. f[r] \in Int
    OBVIOUS
  <2>4. IsFiniteSet(1..f[r])
    BY <2>3, FS_Interval
  <2> QED BY <2>1, <2>2, <2>4, FS_Product
<1>4. IsFiniteSet(UNION T)
  BY <1>2, <1>3, FS_UNION
<1>5. DOMAIN f = R
  OBVIOUS
<1> QED BY <1>4, <1>5 DEF Units

\* The units of one request are as many as its slots.
LEMMA UnitsOne ==
    ASSUME NEW x, NEW n \in Nat
    PROVE  Cardinality(Units([r \in {x} |-> n])) = n
<1>1. Units([r \in {x} |-> n]) = {x} \X (1..n)
  BY DEF Units
<1>2. IsFiniteSet({x}) /\ Cardinality({x}) = 1
  BY FS_Singleton
<1>3. IsFiniteSet(1..n) /\ Cardinality(1..n) = n
  BY FS_Interval
<1>4. Cardinality({x} \X (1..n)) = 1 * n
  BY <1>2, <1>3, FS_Product
<1>5. 1 * n = n
  OBVIOUS
<1> QED BY <1>1, <1>4, <1>5

\* Giving slots to requests that had none adds the units of these requests.
LEMMA UnitsAdd ==
    ASSUME NEW R, IsFiniteSet(R), NEW f \in [R -> Nat], NEW g \in [R -> Nat],
           NEW S \in SUBSET R,
           \A r \in S : f[r] = 0,
           \A r \in R \ S : g[r] = f[r]
    PROVE  Cardinality(Units(g)) = Cardinality(Units(f)) + Cardinality(Units([r \in S |-> g[r]]))
<1> DEFINE h == [r \in S |-> g[r]]
<1>1. IsFiniteSet(S) /\ h \in [S -> Nat]
  BY FS_Subset
<1>2. IsFiniteSet(Units(f)) /\ IsFiniteSet(Units(h))
  BY <1>1, UnitsFinite
<1>3. \A u : u \in Units(g) <=> \E r \in R : \E i \in 1..g[r] : u = <<r, i>>
  BY DEF Units
<1>4. \A u : u \in Units(f) <=> \E r \in R : \E i \in 1..f[r] : u = <<r, i>>
  BY DEF Units
<1>5. \A u : u \in Units(h) <=> \E r \in S : \E i \in 1..g[r] : u = <<r, i>>
  BY DEF Units
<1>6. Units(g) = Units(f) \cup Units(h)
  <2>1. ASSUME NEW u \in Units(g) PROVE u \in Units(f) \cup Units(h)
    BY <1>3, <1>4, <1>5
  <2>2. ASSUME NEW u \in Units(f) PROVE u \in Units(g)
    BY <1>3, <1>4
  <2>3. ASSUME NEW u \in Units(h) PROVE u \in Units(g)
    BY <1>3, <1>5
  <2> QED BY <2>1, <2>2, <2>3
<1>7. Units(f) \cap Units(h) = {}
  BY <1>4, <1>5
<1>8. Cardinality(Units(f) \cap Units(h)) = 0
  BY <1>7, FS_EmptySet
<1>9. Cardinality(Units(f)) \in Nat /\ Cardinality(Units(h)) \in Nat
  BY <1>2, FS_CardinalityType
<1>10. Cardinality(Units(g)) = Cardinality(Units(f)) + Cardinality(Units(h)) - Cardinality(Units(f) \cap Units(h))
  BY <1>2, <1>6, FS_Union
<1> QED BY <1>8, <1>9, <1>10

\* Changing the slots of one request changes the sum by the difference.
LEMMA UnitsUpdate ==
    ASSUME NEW R, IsFiniteSet(R), NEW f \in [R -> Nat], NEW x \in R, NEW n \in Nat
    PROVE  /\ Cardinality(Units(f)) \in Nat
           /\ Cardinality(Units([f EXCEPT ![x] = n])) = Cardinality(Units(f)) - f[x] + n
<1> DEFINE z == [f EXCEPT ![x] = 0]
           g == [f EXCEPT ![x] = n]
<1>1. z \in [R -> Nat] /\ g \in [R -> Nat]
  OBVIOUS
<1>2. Cardinality(Units(f)) \in Nat /\ Cardinality(Units(z)) \in Nat
  BY <1>1, UnitsFinite, FS_CardinalityType
<1>3. Cardinality(Units(f)) = Cardinality(Units(z)) + Cardinality(Units([r \in {x} |-> f[r]]))
  <2>1. \A r \in {x} : z[r] = 0
    OBVIOUS
  <2>2. \A r \in R \ {x} : f[r] = z[r]
    OBVIOUS
  <2> HIDE DEF z
  <2> QED BY <1>1, <2>1, <2>2, UnitsAdd
<1>4. Cardinality(Units(g)) = Cardinality(Units(z)) + Cardinality(Units([r \in {x} |-> g[r]]))
  <2>1. \A r \in {x} : z[r] = 0
    OBVIOUS
  <2>2. \A r \in R \ {x} : g[r] = z[r]
    OBVIOUS
  <2> HIDE DEF z, g
  <2> QED BY <1>1, <2>1, <2>2, UnitsAdd
<1>5. [r \in {x} |-> f[r]] = [r \in {x} |-> f[x]] /\ [r \in {x} |-> g[r]] = [r \in {x} |-> n]
  OBVIOUS
<1>6. /\ Cardinality(Units([r \in {x} |-> f[x]])) = f[x]
      /\ Cardinality(Units([r \in {x} |-> n])) = n
  BY UnitsOne
<1>7. f[x] \in Nat
  OBVIOUS
<1> QED BY <1>2, <1>3, <1>4, <1>5, <1>6, <1>7

\* Nobody asks for nothing.
LEMMA WeightEmpty == Weight({}) = 0
<1>1. Units([r \in {} |-> Slots[r]]) = {}
  BY DEF Units
<1> QED BY <1>1, FS_EmptySet DEF Weight

\* What a set of requests asks for is a number of slots.
LEMMA WeightType == ASSUME NEW S \in SUBSET Requests PROVE Weight(S) \in Nat
<1>1. IsFiniteSet(S) /\ [r \in S |-> Slots[r]] \in [S -> Nat]
  BY FS_Subset, RequestsAssumption, SlotsAssumption
<1>2. IsFiniteSet(Units([r \in S |-> Slots[r]]))
  BY <1>1, UnitsFinite
<1> QED BY <1>2, FS_CardinalityType DEF Weight

-----------------------------------------------------------------------------
(* The inductive invariant.                                                *)

Distinct(s) == \A i, j \in 1..Len(s) : s[i] = s[j] => i = j

\* Where a request is, by its status: in the queue, in the batch of the one
\* releaser, or with a guard.  The invariants about slots need it, for a
\* request in two places would be granted twice.
Bookkeeping ==
    /\ Distinct(Waiters)
    /\ \A i \in 1..Len(Waiters) : status[Waiters[i]] = "waiting"
    /\ \A t \in Threads : Distinct(batch[t])
    /\ \A t \in Threads : \A i \in 1..Len(batch[t]) : status[batch[t][i]] = "granting"
    /\ \A t \in Threads : pc[t] # "deliver" => batch[t] = <<>>
    /\ \A r \in Requests : status[r] \notin {"granting", "held"} => guardSlots[r] = 0

IInv ==
    /\ TypeOK
    /\ OneReleaser
    /\ Bookkeeping
    /\ SlotsConserved
    /\ NoLostWakeup

-----------------------------------------------------------------------------
(* Type correctness.                                                       *)

\* Init establishes the types.
LEMMA InitTypeOK == Init => TypeOK
BY TotalsAssumption DEF Init, TypeOK, Statuses

\* The slots free after k grants are an integer.
LEMMA FreeAfterType ==
    ASSUME TypeOK, NEW k \in 0..Len(Waiters)
    PROVE  /\ {Waiters[i] : i \in 1..k} \in SUBSET Requests
           /\ FreeAfter(k) \in Int
<1>1. {Waiters[i] : i \in 1..k} \in SUBSET Requests
  BY DEF TypeOK
<1>2. Weight({Waiters[i] : i \in 1..k}) \in Nat
  BY <1>1, WeightType
<1>3. FreeSlots \in Int
  BY DEF TypeOK
<1> QED BY <1>1, <1>2, <1>3 DEF FreeAfter

\* Every step preserves the types.
LEMMA NextTypeOK == ASSUME TypeOK, [Next]_vars PROVE TypeOK'
<1> USE DEF TypeOK, Statuses
<1>1. CASE GetReadyEvent
  BY <1>1 DEF GetReadyEvent, threadVars, requestVars
<1>2. ASSUME NEW r \in Requests, Acquire(r) \/ TryAcquire(r) \/ AsyncAcquire(r) PROVE TypeOK'
  <2>1. Slots[r] \in Nat
    BY SlotsAssumption
  <2>2. CASE Acquire(r)
    BY <2>1, <2>2 DEF Acquire, Take, threadVars
  <2>3. CASE TryAcquire(r)
    <3>1. CASE CanAcquireNow(r)
      <4>1. Take(r) /\ UNCHANGED <<TotalSlots, Releasing, ReadyEvent, Waiters, threadVars, canceled, setTotals>>
        BY <2>3, <3>1 DEF TryAcquire
      <4> QED BY <2>1, <4>1 DEF Take, threadVars
    <3>2. CASE ~CanAcquireNow(r)
      BY <2>3, <3>2 DEF TryAcquire, threadVars
    <3> QED BY <3>1, <3>2
  <2>4. CASE AsyncAcquire(r)
    <3>1. Append(Waiters, r) \in Seq(Requests)
      OBVIOUS
    <3>2. CASE CanAcquireNow(r)
      <4>1. Take(r) /\ UNCHANGED <<TotalSlots, Releasing, ReadyEvent, Waiters, threadVars, canceled, setTotals>>
        BY <2>4, <3>2 DEF AsyncAcquire
      <4> QED BY <2>1, <4>1 DEF Take, threadVars
    <3>3. CASE ~CanAcquireNow(r)
      BY <2>4, <3>1, <3>3 DEF AsyncAcquire, threadVars
    <3> QED BY <3>2, <3>3
  <2> QED BY <1>2, <2>2, <2>3, <2>4
<1>3. ASSUME NEW r \in Requests, Cancel(r) PROVE TypeOK'
  BY <1>3 DEF Cancel, semVars, threadVars
<1>4. ASSUME NEW r \in Requests, NEW s \in Requests, TransferSlots(r, s) PROVE TypeOK'
  <2>1. PICK n \in 0..guardSlots[r] : guardSlots' = [guardSlots EXCEPT ![r] = @ - n, ![s] = n]
    BY <1>4 DEF TransferSlots
  <2>2. n \in Nat /\ guardSlots[r] - n \in Nat
    OBVIOUS
  <2>3. guardSlots' \in [Requests -> Nat]
    BY <2>1, <2>2
  <2> QED BY <1>4, <2>3 DEF TransferSlots, semVars, threadVars
<1>5. ASSUME NEW t \in Threads, NEW r \in Requests, ReleaseGuard(t, r) PROVE TypeOK'
  BY <1>5 DEF ReleaseGuard, EnterRelease
<1>6. ASSUME NEW t \in Threads, NEW total \in Totals, SetTotal(t, total) PROVE TypeOK'
  <2>1. total \in Nat
    BY TotalsAssumption
  <2> QED BY <1>6, <2>1 DEF SetTotal, requestVars
<1>7. ASSUME NEW t \in Threads, Kick(t) PROVE TypeOK'
  BY <1>7 DEF Kick, EnterRelease, requestVars
<1>8. ASSUME NEW t \in Threads, Drain(t) PROVE TypeOK'
  <2>1. PICK k \in 0..Len(Waiters) : PopsExactly(k) /\ GrantFirst(t, k)
    BY <1>8 DEF Drain
  <2>2. FreeAfter(k) \in Int
    BY FreeAfterType
  <2>3. SubSeq(Waiters, k + 1, Len(Waiters)) \in Seq(Requests) /\ SubSeq(Waiters, 1, k) \in Seq(Requests)
    BY SubSeqProperties
  <2>4. guardSlots' \in [Requests -> Nat]
    BY <2>1, SlotsAssumption DEF GrantFirst
  <2>5. status' \in [Requests -> Statuses]
    BY <2>1 DEF GrantFirst
  <2>6. readySetters' \subseteq Threads /\ ReadyEvent' \in {"none", "pending"} /\ Releasing' \in {"yes", "no"}
    BY <2>1 DEF GrantFirst
  <2>7. batch' \in [Threads -> Seq(Requests)] /\ pc' \in [Threads -> {"idle", "kick", "drain", "deliver"}]
    BY <2>1, <2>3 DEF GrantFirst
  <2>8. UNCHANGED <<TotalSlots, canceled, setTotals>>
    BY <1>8 DEF Drain
  <2> QED BY <2>1, <2>2, <2>3, <2>4, <2>5, <2>6, <2>7, <2>8 DEF GrantFirst
<1>9. ASSUME NEW t \in Threads, Deliver(t) PROVE TypeOK'
  <2>1. Head(batch[t]) \in Requests /\ Tail(batch[t]) \in Seq(Requests)
    BY <1>9, HeadTailProperties DEF Deliver
  <2>2. CASE Head(batch[t]) \in canceled
    <3>1. guardSlots[Head(batch[t])] \in Nat
      BY <2>1
    <3>2. /\ FreeSlots' = FreeSlots + guardSlots[Head(batch[t])]
          /\ guardSlots' = [guardSlots EXCEPT ![Head(batch[t])] = 0]
          /\ status' = [status EXCEPT ![Head(batch[t])] = "done"]
          /\ batch' = [batch EXCEPT ![t] = Tail(@)]
          /\ UNCHANGED <<TotalSlots, Releasing, ReadyEvent, Waiters, pc, readySetters, canceled, setTotals>>
      BY <1>9, <2>2 DEF Deliver
    <3> HIDE DEF TypeOK
    <3>3. FreeSlots' \in Int
      BY <3>1, <3>2 DEF TypeOK
    <3> QED BY <2>1, <3>2, <3>3 DEF TypeOK
  <2>3. CASE Head(batch[t]) \notin canceled
    BY <1>9, <2>1, <2>3 DEF Deliver
  <2> QED BY <2>2, <2>3
<1>10. ASSUME NEW t \in Threads, EndDelivery(t) PROVE TypeOK'
  BY <1>10 DEF EndDelivery, semVars, requestVars
<1>11. CASE UNCHANGED vars
  BY <1>11 DEF vars, semVars, threadVars, requestVars
<1> QED BY <1>1, <1>2, <1>3, <1>4, <1>5, <1>6, <1>7, <1>8, <1>9, <1>10, <1>11 DEF Next

\* The state always has the declared types: in particular TotalSlots_ and the
\* slots of every guard stay natural numbers.
THEOREM TypeCorrect == Spec => []TypeOK
<1>1. Init => TypeOK
  BY InitTypeOK
<1>2. TypeOK /\ [Next]_vars => TypeOK'
  BY NextTypeOK
<1> QED BY <1>1, <1>2, PTL DEF Spec


-----------------------------------------------------------------------------
(* The parts of the invariant, one lemma each.                             *)

\* Releasing_ keeps a second thread out of the loop of Release.
LEMMA OneReleaserStep == ASSUME TypeOK, OneReleaser, [Next]_vars PROVE OneReleaser'
<1> USE DEF TypeOK, OneReleaser, Looping
<1>1. CASE UNCHANGED <<pc, Releasing>>
  BY <1>1
<1>2. ASSUME NEW t \in Threads, NEW slots, EnterRelease(t, slots), pc[t] \in {"idle", "kick"}
      PROVE  OneReleaser'
  BY <1>2 DEF EnterRelease
<1>3. ASSUME NEW t \in Threads, NEW total \in Totals, SetTotal(t, total) PROVE OneReleaser'
  BY <1>3 DEF SetTotal
<1>4. ASSUME NEW t \in Threads, Drain(t) PROVE OneReleaser'
  <2>1. PICK k \in 0..Len(Waiters) : GrantFirst(t, k)
    BY <1>4 DEF Drain
  <2>2. pc[t] = "drain"
    BY <1>4 DEF Drain
  <2>3. \/ Releasing' = Releasing /\ pc' = [pc EXCEPT ![t] = "deliver"]
        \/ Releasing' = "no" /\ pc' = [pc EXCEPT ![t] = "idle"]
    BY <2>1 DEF GrantFirst
  <2> QED BY <2>2, <2>3
<1>5. ASSUME NEW t \in Threads, EndDelivery(t) PROVE OneReleaser'
  BY <1>5 DEF EndDelivery, semVars
<1>6. ASSUME NEW t \in Threads, NEW r \in Requests, ReleaseGuard(t, r) PROVE OneReleaser'
  BY <1>2, <1>6 DEF ReleaseGuard
<1>7. ASSUME NEW t \in Threads, Kick(t) PROVE OneReleaser'
  BY <1>2, <1>7 DEF Kick
<1>8. CASE UNCHANGED vars
  BY <1>1, <1>8 DEF vars, semVars, threadVars
<1>9. CASE GetReadyEvent
  BY <1>1, <1>9 DEF GetReadyEvent, threadVars
<1>10. ASSUME NEW r \in Requests, Acquire(r) \/ TryAcquire(r) \/ AsyncAcquire(r) \/ Cancel(r)
       PROVE  OneReleaser'
  BY <1>1, <1>10 DEF Acquire, TryAcquire, AsyncAcquire, Cancel, threadVars, semVars
<1>11. ASSUME NEW r \in Requests, NEW s \in Requests, TransferSlots(r, s) PROVE OneReleaser'
  BY <1>1, <1>11 DEF TransferSlots, threadVars, semVars
<1>12. ASSUME NEW t \in Threads, Deliver(t) PROVE OneReleaser'
  BY <1>1, <1>12 DEF Deliver
<1> QED BY <1>3, <1>4, <1>5, <1>6, <1>7, <1>8, <1>9, <1>10, <1>11, <1>12 DEF Next

\* The slots in use change with the slots of a guard.
LEMMA UsedUpdate ==
    ASSUME TypeOK, NEW x \in Requests, NEW n \in Nat, guardSlots' = [guardSlots EXCEPT ![x] = n]
    PROVE  UsedSlots \in Nat /\ UsedSlots' = UsedSlots - guardSlots[x] + n
BY UnitsUpdate, RequestsAssumption DEF TypeOK, UsedSlots

\* Conservation: each action moves as many slots as it adds or subtracts.
LEMMA ConservedStep ==
    ASSUME TypeOK, Bookkeeping, SlotsConserved, [Next]_vars
    PROVE  SlotsConserved'
<1> USE DEF SlotsConserved
<1>1. ASSUME UNCHANGED <<TotalSlots, FreeSlots, guardSlots>> PROVE SlotsConserved'
  BY <1>1 DEF UsedSlots
<1>2. /\ TotalSlots \in Int /\ FreeSlots \in Int
      /\ \A r \in Requests : Slots[r] \in Nat /\ guardSlots[r] \in Nat
  BY SlotsAssumption DEF TypeOK
<1>3. ASSUME NEW r \in Requests, status[r] = "new", Take(r), TotalSlots' = TotalSlots
      PROVE  SlotsConserved'
  <2>1. guardSlots[r] = 0
    BY <1>3 DEF Bookkeeping
  <2>2. UsedSlots \in Nat /\ UsedSlots' = UsedSlots - guardSlots[r] + Slots[r]
    BY <1>2, <1>3, UsedUpdate DEF Take
  <2> QED BY <1>2, <1>3, <2>1, <2>2 DEF Take
<1>4. ASSUME NEW r \in Requests, FreeSlots' = FreeSlots + guardSlots[r],
             guardSlots' = [guardSlots EXCEPT ![r] = 0], TotalSlots' = TotalSlots
      PROVE  SlotsConserved'
  <2>1. UsedSlots \in Nat /\ UsedSlots' = UsedSlots - guardSlots[r] + 0
    BY <1>4, UsedUpdate
  <2> QED BY <1>2, <1>4, <2>1
<1>5. CASE GetReadyEvent
  BY <1>1, <1>5 DEF GetReadyEvent, requestVars
<1>6. ASSUME NEW r \in Requests, Acquire(r) PROVE SlotsConserved'
  BY <1>3, <1>6 DEF Acquire
<1>7. ASSUME NEW r \in Requests, TryAcquire(r) PROVE SlotsConserved'
  <2>1. \/ Take(r) /\ status[r] = "new" /\ TotalSlots' = TotalSlots
        \/ UNCHANGED <<TotalSlots, FreeSlots, guardSlots>>
    BY <1>7 DEF TryAcquire
  <2> QED BY <1>1, <1>3, <2>1
<1>8. ASSUME NEW r \in Requests, AsyncAcquire(r) PROVE SlotsConserved'
  <2>1. \/ Take(r) /\ status[r] = "new" /\ TotalSlots' = TotalSlots
        \/ UNCHANGED <<TotalSlots, FreeSlots, guardSlots>>
    BY <1>8 DEF AsyncAcquire
  <2> QED BY <1>1, <1>3, <2>1
<1>9. ASSUME NEW r \in Requests, Cancel(r) PROVE SlotsConserved'
  BY <1>1, <1>9 DEF Cancel, semVars
<1>10. ASSUME NEW r \in Requests, NEW s \in Requests, TransferSlots(r, s) PROVE SlotsConserved'
  <2>1. PICK n \in 0..guardSlots[r] : guardSlots' = [guardSlots EXCEPT ![r] = @ - n, ![s] = n]
    BY <1>10 DEF TransferSlots
  <2>2. n \in Nat /\ guardSlots[r] - n \in Nat
    BY <1>2
  <2> DEFINE g == [guardSlots EXCEPT ![r] = guardSlots[r] - n]
  <2>3. g \in [Requests -> Nat] /\ guardSlots' = [g EXCEPT ![s] = n]
    BY <2>1, <2>2 DEF TypeOK
  <2>4. r # s /\ guardSlots[s] = 0 /\ g[s] = 0
    BY <1>10 DEF TransferSlots, Bookkeeping, TypeOK
  <2>5. Cardinality(Units(g)) = UsedSlots - guardSlots[r] + (guardSlots[r] - n) /\ UsedSlots \in Nat
    <3>1. guardSlots \in [Requests -> Nat]
      BY DEF TypeOK
    <3>2. \A m \in Nat :
            /\ Cardinality(Units(guardSlots)) \in Nat
            /\ Cardinality(Units([guardSlots EXCEPT ![r] = m])) = Cardinality(Units(guardSlots)) - guardSlots[r] + m
      BY <3>1, UnitsUpdate, RequestsAssumption
    <3> QED BY <2>2, <3>2 DEF UsedSlots
  <2> HIDE DEF g
  <2>6. Cardinality(Units([g EXCEPT ![s] = n])) = Cardinality(Units(g)) - g[s] + n
    BY <2>2, <2>3, UnitsUpdate, RequestsAssumption
  <2>7. UsedSlots' = UsedSlots
    BY <1>2, <2>2, <2>3, <2>4, <2>5, <2>6 DEF UsedSlots
  <2>8. UNCHANGED <<TotalSlots, FreeSlots>>
    BY <1>10 DEF TransferSlots, semVars
  <2> QED BY <2>7, <2>8
<1>11. ASSUME NEW t \in Threads, NEW r \in Requests, ReleaseGuard(t, r) PROVE SlotsConserved'
  BY <1>4, <1>11 DEF ReleaseGuard, EnterRelease
<1>12. ASSUME NEW t \in Threads, NEW total \in Totals, SetTotal(t, total) PROVE SlotsConserved'
  <2>1. total \in Int
    BY TotalsAssumption
  <2>2. UsedSlots' = UsedSlots
    BY <1>12 DEF SetTotal, requestVars, UsedSlots
  <2>3. TotalSlots' = total /\ FreeSlots' = FreeSlots + (total - TotalSlots)
    BY <1>12 DEF SetTotal
  <2> QED BY <1>2, <2>1, <2>2, <2>3
<1>13. ASSUME NEW t \in Threads, Kick(t) PROVE SlotsConserved'
  BY <1>1, <1>2, <1>13 DEF Kick, EnterRelease, requestVars
<1>14. ASSUME NEW t \in Threads, Drain(t) PROVE SlotsConserved'
  <2>1. PICK k \in 0..Len(Waiters) : GrantFirst(t, k)
    BY <1>14 DEF Drain
  <2> DEFINE granted == {Waiters[i] : i \in 1..k}
  <2>2. granted \in SUBSET Requests /\ Weight(granted) \in Nat
    BY FreeAfterType, WeightType
  <2>3. \A r \in granted : guardSlots[r] = 0
    <3> TAKE r \in granted
    <3>1. PICK i \in 1..k : r = Waiters[i]
      OBVIOUS
    <3>2. i \in 1..Len(Waiters)
      BY DEF TypeOK
    <3>3. status[r] = "waiting"
      BY <3>1, <3>2 DEF Bookkeeping
    <3> QED BY <2>2, <3>3 DEF Bookkeeping
  <2>4. guardSlots' = [r \in Requests |-> IF r \in granted THEN Slots[r] ELSE guardSlots[r]]
    BY <2>1 DEF GrantFirst
  <2>5. FreeSlots' = FreeSlots - Weight(granted) /\ TotalSlots' = TotalSlots
    BY <1>14, <2>1 DEF GrantFirst, FreeAfter, Drain
  <2> HIDE DEF granted
  <2>6. guardSlots \in [Requests -> Nat] /\ guardSlots' \in [Requests -> Nat]
    BY <2>4, SlotsAssumption DEF TypeOK
  <2>7. \A r \in Requests \ granted : guardSlots'[r] = guardSlots[r]
    BY <2>4
  <2>8. Cardinality(Units(guardSlots')) =
          Cardinality(Units(guardSlots)) + Cardinality(Units([r \in granted |-> guardSlots'[r]]))
    BY <2>2, <2>3, <2>6, <2>7, UnitsAdd, RequestsAssumption
  <2>9. [r \in granted |-> guardSlots'[r]] = [r \in granted |-> Slots[r]]
    BY <2>2, <2>4
  <2>10. UsedSlots' = UsedSlots + Weight(granted)
    BY <2>8, <2>9 DEF UsedSlots, Weight
  <2>11. UsedSlots \in Nat
    BY <2>6, UnitsFinite, FS_CardinalityType, RequestsAssumption DEF UsedSlots
  <2> QED BY <1>2, <2>2, <2>5, <2>10, <2>11
<1>15. ASSUME NEW t \in Threads, Deliver(t) PROVE SlotsConserved'
  <2>1. Head(batch[t]) \in Requests
    BY <1>15, HeadTailProperties DEF Deliver, TypeOK
  <2>2. \/ UNCHANGED <<TotalSlots, FreeSlots, guardSlots>>
        \/ /\ FreeSlots' = FreeSlots + guardSlots[Head(batch[t])]
           /\ guardSlots' = [guardSlots EXCEPT ![Head(batch[t])] = 0]
           /\ TotalSlots' = TotalSlots
    BY <1>15 DEF Deliver
  <2> QED BY <1>1, <1>4, <2>1, <2>2
<1>16. ASSUME NEW t \in Threads, EndDelivery(t) PROVE SlotsConserved'
  BY <1>1, <1>16 DEF EndDelivery, semVars, requestVars
<1>17. CASE UNCHANGED vars
  BY <1>1, <1>17 DEF vars, semVars, requestVars
<1> QED BY <1>5, <1>6, <1>7, <1>8, <1>9, <1>10, <1>11, <1>12, <1>13, <1>14, <1>15, <1>16, <1>17 DEF Next


\* A waiter is in the queue or in one batch, never in both, and never twice.
LEMMA BookkeepingStep ==
    ASSUME TypeOK, OneReleaser, Bookkeeping, [Next]_vars
    PROVE  Bookkeeping'
<1> USE DEF Distinct
<1>1. ASSUME UNCHANGED <<Waiters, batch, pc, status, guardSlots>> PROVE Bookkeeping'
  BY <1>1 DEF Bookkeeping
<1>2. ASSUME NEW r \in Requests, status[r] \notin {"waiting", "granting"},
             NEW v \in Statuses \ {"waiting", "granting"},
             status' = [status EXCEPT ![r] = v],
             guardSlots' \in [Requests -> Nat],
             \A q \in Requests : status'[q] \notin {"granting", "held"} => guardSlots'[q] = 0,
             UNCHANGED <<Waiters, batch>>,
             \A t \in Threads : pc'[t] # "deliver" => batch[t] = <<>>
      PROVE  Bookkeeping'
  <2>1. \A i \in 1..Len(Waiters) : Waiters[i] \in Requests
    BY DEF TypeOK
  <2>2. \A t \in Threads : \A i \in 1..Len(batch[t]) : batch[t][i] \in Requests
    BY DEF TypeOK
  <2>3. \A q \in Requests : status[q] \in {"waiting", "granting"} => status'[q] = status[q]
    BY <1>2 DEF TypeOK
  <2>4. Distinct(Waiters)' /\ \A i \in 1..Len(Waiters) : status'[Waiters[i]] = "waiting"
    BY <1>2, <2>1, <2>3 DEF Bookkeeping
  <2>5. \A t \in Threads : Distinct(batch[t]) /\ \A i \in 1..Len(batch[t]) : status'[batch[t][i]] = "granting"
    BY <2>2, <2>3 DEF Bookkeeping
  <2> QED BY <1>2, <2>4, <2>5 DEF Bookkeeping
<1>3. ASSUME NEW r \in Requests, status[r] = "new", Take(r), UNCHANGED <<Waiters, batch, pc>>
      PROVE  Bookkeeping'
  <2>1. \A q \in Requests : status'[q] \notin {"granting", "held"} => guardSlots'[q] = 0
    BY <1>3 DEF Take, Bookkeeping, TypeOK
  <2>2. guardSlots' \in [Requests -> Nat]
    BY <1>3, SlotsAssumption DEF Take, TypeOK
  <2>3. status' = [status EXCEPT ![r] = "held"]
    BY <1>3 DEF Take
  <2>4. \A t \in Threads : pc'[t] # "deliver" => batch[t] = <<>>
    BY <1>3 DEF Bookkeeping
  <2> QED BY <1>2, <1>3, <2>1, <2>2, <2>3, <2>4 DEF Statuses
<1>4. CASE GetReadyEvent
  BY <1>1, <1>4 DEF GetReadyEvent, threadVars, requestVars
<1>5. ASSUME NEW r \in Requests, Acquire(r) PROVE Bookkeeping'
  BY <1>3, <1>5 DEF Acquire, threadVars
<1>6. ASSUME NEW r \in Requests, TryAcquire(r) PROVE Bookkeeping'
  <2>1. CASE Take(r)
    BY <1>3, <1>6, <2>1 DEF TryAcquire, threadVars
  <2>2. CASE status' = [status EXCEPT ![r] = "denied"] /\ UNCHANGED guardSlots
    <3>1. \A q \in Requests : status'[q] \notin {"granting", "held"} => guardSlots'[q] = 0
      BY <1>6, <2>2 DEF TryAcquire, Bookkeeping, TypeOK
    <3>2. \A t \in Threads : pc'[t] # "deliver" => batch[t] = <<>>
      BY <1>6 DEF TryAcquire, threadVars, Bookkeeping
    <3>3. guardSlots' \in [Requests -> Nat]
      BY <2>2 DEF TypeOK
    <3> QED BY <1>2, <1>6, <2>2, <3>1, <3>2, <3>3 DEF TryAcquire, threadVars, Statuses
  <2> QED BY <1>6, <2>1, <2>2 DEF TryAcquire
<1>7. ASSUME NEW r \in Requests, AsyncAcquire(r) PROVE Bookkeeping'
  <2>1. CASE Take(r) /\ UNCHANGED Waiters
    BY <1>3, <1>7, <2>1 DEF AsyncAcquire, threadVars
  <2>2. CASE /\ Waiters' = Append(Waiters, r)
             /\ status' = [status EXCEPT ![r] = "waiting"]
             /\ UNCHANGED guardSlots
    <3>1. status[r] = "new" /\ UNCHANGED <<pc, batch>>
      BY <1>7 DEF AsyncAcquire, threadVars
    <3>2. /\ Len(Waiters') = Len(Waiters) + 1
          /\ Len(Waiters) \in Nat
          /\ \A i \in 1..Len(Waiters) : Waiters'[i] = Waiters[i] /\ Waiters[i] \in Requests
          /\ Waiters'[Len(Waiters) + 1] = r
      BY <2>2, AppendProperties DEF TypeOK
    <3>3. \A i \in 1..Len(Waiters) : Waiters[i] # r
      BY <3>1 DEF Bookkeeping
    <3>4. Distinct(Waiters')
      BY <3>2, <3>3 DEF Bookkeeping
    <3>5. \A i \in 1..Len(Waiters') : status'[Waiters'[i]] = "waiting"
      BY <2>2, <3>2, <3>3 DEF Bookkeeping, TypeOK
    <3>6. \A t \in Threads : \A i \in 1..Len(batch[t]) : status'[batch[t][i]] = "granting"
      BY <2>2, <3>1 DEF Bookkeeping, TypeOK
    <3>7. \A q \in Requests : status'[q] \notin {"granting", "held"} => guardSlots'[q] = 0
      BY <2>2, <3>1 DEF Bookkeeping, TypeOK
    <3> QED BY <3>1, <3>4, <3>5, <3>6, <3>7 DEF Bookkeeping
  <2> QED BY <1>7, <2>1, <2>2 DEF AsyncAcquire
<1>8. ASSUME NEW r \in Requests, Cancel(r) PROVE Bookkeeping'
  BY <1>1, <1>8 DEF Cancel, semVars, threadVars
<1>9. ASSUME NEW r \in Requests, NEW s \in Requests, TransferSlots(r, s) PROVE Bookkeeping'
  <2>1. PICK n \in 0..guardSlots[r] : guardSlots' = [guardSlots EXCEPT ![r] = @ - n, ![s] = n]
    BY <1>9 DEF TransferSlots
  <2>2. status[r] = "held" /\ status[s] = "new" /\ status' = [status EXCEPT ![s] = "held"]
    BY <1>9 DEF TransferSlots
  <2>3. n \in Nat /\ guardSlots[r] - n \in Nat
    BY DEF TypeOK
  <2>4. guardSlots' \in [Requests -> Nat]
    BY <2>1, <2>3 DEF TypeOK
  <2>5. \A q \in Requests : status'[q] \notin {"granting", "held"} => guardSlots'[q] = 0
    BY <2>1, <2>2 DEF Bookkeeping, TypeOK
  <2>6. \A t \in Threads : pc'[t] # "deliver" => batch[t] = <<>>
    BY <1>9 DEF TransferSlots, threadVars, Bookkeeping
  <2> QED BY <1>2, <1>9, <2>2, <2>4, <2>5, <2>6 DEF TransferSlots, semVars, threadVars, Statuses
<1>10. ASSUME NEW t \in Threads, NEW r \in Requests, ReleaseGuard(t, r) PROVE Bookkeeping'
  <2>1. status[r] = "held" /\ status' = [status EXCEPT ![r] = "done"] /\ guardSlots' = [guardSlots EXCEPT ![r] = 0]
    BY <1>10 DEF ReleaseGuard
  <2>2. guardSlots' \in [Requests -> Nat]
    BY <2>1 DEF TypeOK
  <2>3. \A q \in Requests : status'[q] \notin {"granting", "held"} => guardSlots'[q] = 0
    BY <2>1 DEF Bookkeeping, TypeOK
  <2>4. \A u \in Threads : pc'[u] # "deliver" => batch[u] = <<>>
    BY <1>10 DEF ReleaseGuard, EnterRelease, Bookkeeping, TypeOK
  <2>5. UNCHANGED <<Waiters, batch>>
    BY <1>10 DEF ReleaseGuard
  <2> QED BY <1>2, <2>1, <2>2, <2>3, <2>4, <2>5 DEF Statuses
<1>11. ASSUME NEW t \in Threads, UNCHANGED <<Waiters, batch, status, guardSlots>>,
              NEW v \in {"idle", "kick", "drain"}, pc' = [pc EXCEPT ![t] = v], batch[t] = <<>>
       PROVE  Bookkeeping'
  BY <1>11 DEF Bookkeeping, TypeOK
<1>12. ASSUME NEW t \in Threads, NEW total \in Totals, SetTotal(t, total) PROVE Bookkeeping'
  BY <1>11, <1>12 DEF SetTotal, requestVars, Bookkeeping
<1>13. ASSUME NEW t \in Threads, Kick(t) PROVE Bookkeeping'
  BY <1>11, <1>13 DEF Kick, EnterRelease, requestVars, Bookkeeping
<1>14. ASSUME NEW t \in Threads, EndDelivery(t) PROVE Bookkeeping'
  BY <1>11, <1>14 DEF EndDelivery, semVars, requestVars
<1>15. ASSUME NEW t \in Threads, Drain(t) PROVE Bookkeeping'
  <2>1. PICK k \in 0..Len(Waiters) : GrantFirst(t, k)
    BY <1>15 DEF Drain
  <2>2. pc[t] = "drain"
    BY <1>15 DEF Drain
  <2> DEFINE granted == {Waiters[i] : i \in 1..k}
             n == Len(Waiters)
  <2>3. n \in Nat /\ \A i \in 1..n : Waiters[i] \in Requests
    BY DEF TypeOK
  <2>4. /\ Waiters' = SubSeq(Waiters, k + 1, n)
        /\ batch' = [batch EXCEPT ![t] = SubSeq(Waiters, 1, k)]
        /\ status' = [r \in Requests |-> IF r \in granted THEN "granting" ELSE status[r]]
        /\ guardSlots' = [r \in Requests |-> IF r \in granted THEN Slots[r] ELSE guardSlots[r]]
        /\ \/ pc' = [pc EXCEPT ![t] = "deliver"]
           \/ pc' = [pc EXCEPT ![t] = "idle"] /\ k = 0
    BY <2>1 DEF GrantFirst
  <2>5. /\ Len(Waiters') = n - k
        /\ \A i \in 1..(n - k) : Waiters'[i] = Waiters[k + i]
    BY <2>3, <2>4, SubSeqProperties
  <2>6. /\ Len(SubSeq(Waiters, 1, k)) = k
        /\ \A i \in 1..k : SubSeq(Waiters, 1, k)[i] = Waiters[i]
    BY <2>3, SubSeqProperties
  <2>7. batch'[t] = SubSeq(Waiters, 1, k) /\ \A u \in Threads \ {t} : batch'[u] = <<>>
    <3>1. \A u \in Threads \ {t} : pc[u] # "deliver"
      BY <2>2 DEF OneReleaser, Looping
    <3> QED BY <2>4, <3>1 DEF TypeOK, Bookkeeping
  <2>8. Distinct(Waiters')
    <3> SUFFICES ASSUME NEW i \in 1..(n - k), NEW j \in 1..(n - k), Waiters'[i] = Waiters'[j]
                 PROVE  i = j
      BY <2>5
    <3>1. k + i \in 1..n /\ k + j \in 1..n
      BY <2>3
    <3>2. Waiters[k + i] = Waiters[k + j]
      BY <2>5
    <3>3. k + i = k + j
      BY <3>1, <3>2 DEF Bookkeeping
    <3> QED BY <2>3, <3>3
  <2>9. \A i \in 1..Len(Waiters') : status'[Waiters'[i]] = "waiting"
    <3> TAKE i \in 1..Len(Waiters')
    <3>1. Waiters'[i] = Waiters[k + i] /\ k + i \in 1..n /\ k + i \notin 1..k
      BY <2>3, <2>5
    <3>2. Waiters[k + i] \notin granted
      BY <2>3, <3>1 DEF Bookkeeping
    <3> QED BY <2>3, <2>4, <3>1, <3>2 DEF Bookkeeping
  <2>10. \A u \in Threads : Distinct(batch'[u])
    <3>1. Distinct(SubSeq(Waiters, 1, k))
      BY <2>3, <2>6 DEF Bookkeeping
    <3>2. Distinct(<<>>)
      OBVIOUS
    <3> HIDE DEF Distinct
    <3> QED BY <2>7, <3>1, <3>2
  <2>11. \A u \in Threads : \A i \in 1..Len(batch'[u]) : status'[batch'[u][i]] = "granting"
    <3>1. \A i \in 1..k : status'[Waiters[i]] = "granting"
      BY <2>3, <2>4
    <3> QED BY <2>6, <2>7, <3>1
  <2>12. \A u \in Threads : pc'[u] # "deliver" => batch'[u] = <<>>
    <3>1. k = 0 => SubSeq(Waiters, 1, k) = <<>>
      BY SubSeqEmpty
    <3> QED BY <2>4, <2>7, <3>1 DEF TypeOK
  <2>13. \A r \in Requests : status'[r] \notin {"granting", "held"} => guardSlots'[r] = 0
    BY <2>4 DEF Bookkeeping
  <2> HIDE DEF Distinct
  <2> QED BY <2>8, <2>9, <2>10, <2>11, <2>12, <2>13 DEF Bookkeeping
<1>16. ASSUME NEW t \in Threads, Deliver(t) PROVE Bookkeeping'
  <2> DEFINE r == Head(batch[t])
             n == Len(batch[t])
  <2>1. /\ r \in Requests /\ n \in Nat \ {0} /\ r = batch[t][1]
        /\ Len(Tail(batch[t])) = n - 1
        /\ \A i \in 1..(n - 1) : Tail(batch[t])[i] = batch[t][i + 1]
        /\ \A i \in 1..n : batch[t][i] \in Requests
    BY <1>16, HeadTailProperties DEF Deliver, TypeOK
  <2>2. /\ \E v \in {"held", "done"} : status' = [status EXCEPT ![r] = v]
        /\ batch' = [batch EXCEPT ![t] = Tail(batch[t])]
        /\ UNCHANGED <<Waiters, pc>>
    BY <1>16 DEF Deliver
  <2>3. status[r] = "granting"
    BY <2>1 DEF Bookkeeping
  <2>4. \A q \in Requests \ {r} : status'[q] = status[q]
    BY <2>2 DEF TypeOK
  <2>5. \A i \in 1..Len(Waiters) : Waiters[i] \in Requests
    BY DEF TypeOK
  <2>6. Distinct(Waiters') /\ \A i \in 1..Len(Waiters') : status'[Waiters'[i]] = "waiting"
    BY <2>2, <2>3, <2>4, <2>5 DEF Bookkeeping
  <2>7. pc[t] = "deliver" /\ batch'[t] = Tail(batch[t]) /\ \A u \in Threads \ {t} : batch'[u] = <<>>
    BY <1>16, <2>2 DEF Deliver, TypeOK, OneReleaser, Looping, Bookkeeping
  <2>8. Distinct(Tail(batch[t]))
    BY <2>1 DEF Bookkeeping
  <2>9. \A i \in 1..(n - 1) : batch[t][i + 1] # r /\ status[batch[t][i + 1]] = "granting"
    BY <2>1 DEF Bookkeeping
  <2>10. \A u \in Threads : \A i \in 1..Len(batch'[u]) : status'[batch'[u][i]] = "granting"
    <3>1. \A i \in 1..(n - 1) : i + 1 \in 1..n /\ status'[Tail(batch[t])[i]] = "granting"
      BY <2>1, <2>4, <2>9
    <3>2. \A i \in 1..Len(batch'[t]) : status'[batch'[t][i]] = "granting"
      BY <2>1, <2>7, <3>1
    <3>3. \A u \in Threads \ {t} : 1..Len(batch'[u]) = {}
      BY <2>7
    <3> QED BY <3>2, <3>3
  <2>11. \A u \in Threads : Distinct(batch'[u])
    <3>1. Distinct(<<>>)
      OBVIOUS
    <3> HIDE DEF Distinct
    <3> QED BY <2>7, <2>8, <3>1
  <2>12. \A u \in Threads : pc'[u] # "deliver" => batch'[u] = <<>>
    BY <2>2, <2>7
  <2>13. \A q \in Requests : status'[q] \notin {"granting", "held"} => guardSlots'[q] = 0
    <3>1. \/ status' = [status EXCEPT ![r] = "held"] /\ guardSlots' = guardSlots
          \/ guardSlots' = [guardSlots EXCEPT ![r] = 0]
      BY <1>16 DEF Deliver
    <3> QED BY <2>1, <2>4, <3>1 DEF Bookkeeping, TypeOK
  <2> HIDE DEF Distinct
  <2> QED BY <2>6, <2>10, <2>11, <2>12, <2>13 DEF Bookkeeping
<1>17. CASE UNCHANGED vars
  BY <1>1, <1>17 DEF vars, semVars, threadVars, requestVars
<1> QED BY <1>4, <1>5, <1>6, <1>7, <1>8, <1>9, <1>10, <1>12, <1>13, <1>14, <1>15, <1>16, <1>17 DEF Next

\* Release leaves the loop only when nobody can be woken, and nothing wakes
\* up later without a Release: the counter only falls in between.
LEMMA WakeupStep == ASSUME IInv, [Next]_vars PROVE NoLostWakeup'
<1> USE DEF IInv
<1> DEFINE Front(q, free, total) ==
             /\ 0 < Len(q)
             /\ \/ free >= Slots[q[1]]
                \/ EnableOverdraft /\ total = free /\ Slots[q[1]] > total
<1>1. FreeAfter(0) = FreeSlots /\ (FrontCanAcquire(0) <=> Front(Waiters, FreeSlots, TotalSlots))
  <2>1. {Waiters[i] : i \in 1..0} = {}
    OBVIOUS
  <2>2. FreeSlots \in Int
    BY DEF TypeOK
  <2>3. FreeAfter(0) = FreeSlots
    BY <2>1, <2>2, WeightEmpty DEF FreeAfter
  <2> QED BY <2>3 DEF FrontCanAcquire, CanOverdraft
<1>2. FrontCanAcquire(0)' <=> Front(Waiters', FreeSlots', TotalSlots')
  <2>1. {Waiters'[i] : i \in 1..0} = {}
    OBVIOUS
  <2>2. FreeSlots' \in Int
    BY NextTypeOK DEF TypeOK
  <2>3. FreeAfter(0)' = FreeSlots'
    BY <2>1, <2>2, WeightEmpty DEF FreeAfter
  <2> QED BY <2>3 DEF FrontCanAcquire, CanOverdraft
<1>3. FreeSlots <= TotalSlots
  <2>1. UsedSlots \in Nat
    BY UnitsFinite, FS_CardinalityType, RequestsAssumption DEF UsedSlots, TypeOK
  <2> QED BY <2>1 DEF SlotsConserved, TypeOK
<1>4. TotalSlots \in Int /\ FreeSlots \in Int /\ \A i \in 1..Len(Waiters) : Slots[Waiters[i]] \in Nat
  BY SlotsAssumption DEF TypeOK
<1> SUFFICES ASSUME Releasing' = "no", \A t \in Threads : pc'[t] # "kick"
             PROVE  ~FrontCanAcquire(0)' /\ (ReadyEvent' = "pending" => FreeSlots' <= 0)
  BY DEF NoLostWakeup
<1>5. ASSUME UNCHANGED <<Releasing, pc, Waiters, FreeSlots, TotalSlots>>,
             ReadyEvent' = "pending" => ReadyEvent = "pending" \/ FreeSlots <= 0
      PROVE  ~FrontCanAcquire(0)' /\ (ReadyEvent' = "pending" => FreeSlots' <= 0)
  BY <1>1, <1>2, <1>5 DEF NoLostWakeup
<1>6. ASSUME NEW r \in Requests, Take(r), UNCHANGED <<Releasing, pc, Waiters, TotalSlots, ReadyEvent>>
      PROVE  ~FrontCanAcquire(0)' /\ (ReadyEvent' = "pending" => FreeSlots' <= 0)
  <2>1. ~Front(Waiters, FreeSlots, TotalSlots) /\ (ReadyEvent = "pending" => FreeSlots <= 0)
    BY <1>1, <1>6 DEF NoLostWakeup
  <2>2. FreeSlots' = FreeSlots - Slots[r] /\ Slots[r] \in Nat
    BY <1>6, SlotsAssumption DEF Take
  <2>3. ~Front(Waiters, FreeSlots', TotalSlots)
    BY <1>3, <1>4, <2>1, <2>2
  <2> QED BY <1>2, <1>4, <1>6, <2>1, <2>2, <2>3
<1>7. CASE GetReadyEvent
  BY <1>5, <1>7 DEF GetReadyEvent, threadVars
<1>8. ASSUME NEW r \in Requests, Acquire(r)
      PROVE  ~FrontCanAcquire(0)' /\ (ReadyEvent' = "pending" => FreeSlots' <= 0)
  BY <1>6, <1>8 DEF Acquire, threadVars
<1>9. ASSUME NEW r \in Requests, TryAcquire(r)
      PROVE  ~FrontCanAcquire(0)' /\ (ReadyEvent' = "pending" => FreeSlots' <= 0)
  <2>1. /\ UNCHANGED <<Releasing, pc, Waiters, TotalSlots, ReadyEvent>>
        /\ Take(r) \/ UNCHANGED FreeSlots
    BY <1>9 DEF TryAcquire, threadVars
  <2> QED BY <1>5, <1>6, <2>1
<1>10. ASSUME NEW r \in Requests, AsyncAcquire(r)
       PROVE  ~FrontCanAcquire(0)' /\ (ReadyEvent' = "pending" => FreeSlots' <= 0)
  <2>1. UNCHANGED <<Releasing, pc, TotalSlots, ReadyEvent>>
    BY <1>10 DEF AsyncAcquire, threadVars
  <2>2. CASE Take(r) /\ UNCHANGED Waiters
    BY <1>6, <2>1, <2>2
  <2>3. CASE ~CanAcquireNow(r) /\ Waiters' = Append(Waiters, r) /\ UNCHANGED FreeSlots
    <3>1. ~Front(Waiters, FreeSlots, TotalSlots) /\ (ReadyEvent = "pending" => FreeSlots <= 0)
      BY <1>1, <2>1 DEF NoLostWakeup
    <3>2. CASE Len(Waiters) = 0
      <4>1. Waiters'[1] = r
        BY <2>3, <3>2, AppendProperties DEF TypeOK
      <4>2. ~(FreeSlots >= Slots[r]) /\ ~(EnableOverdraft /\ TotalSlots = FreeSlots)
        BY <2>3 DEF CanAcquireNow, CanOverdraft
      <4> QED BY <1>2, <2>1, <2>3, <3>1, <4>1, <4>2
    <3>3. CASE Len(Waiters) > 0
      <4>1. Waiters'[1] = Waiters[1]
        BY <2>3, <3>3, AppendProperties DEF TypeOK
      <4> QED BY <1>2, <2>1, <2>3, <3>1, <3>3, <4>1
    <3>4. Len(Waiters) \in Nat
      BY DEF TypeOK
    <3> QED BY <3>2, <3>3, <3>4
  <2> QED BY <1>10, <2>2, <2>3 DEF AsyncAcquire
<1>11. ASSUME NEW r \in Requests, Cancel(r)
       PROVE  ~FrontCanAcquire(0)' /\ (ReadyEvent' = "pending" => FreeSlots' <= 0)
  BY <1>5, <1>11 DEF Cancel, semVars, threadVars
<1>12. ASSUME NEW r \in Requests, NEW s \in Requests, TransferSlots(r, s)
       PROVE  ~FrontCanAcquire(0)' /\ (ReadyEvent' = "pending" => FreeSlots' <= 0)
  BY <1>5, <1>12 DEF TransferSlots, semVars, threadVars
<1>13. ASSUME NEW t \in Threads, NEW r \in Requests, ReleaseGuard(t, r) PROVE FALSE
  BY <1>13 DEF ReleaseGuard, EnterRelease
<1>14. ASSUME NEW t \in Threads, NEW total \in Totals, SetTotal(t, total) PROVE FALSE
  BY <1>14 DEF SetTotal, TypeOK
<1>15. ASSUME NEW t \in Threads, Kick(t) PROVE FALSE
  BY <1>15 DEF Kick, EnterRelease
<1>16. ASSUME NEW t \in Threads, Drain(t)
       PROVE  ~FrontCanAcquire(0)' /\ (ReadyEvent' = "pending" => FreeSlots' <= 0)
  <2>1. PICK k \in 0..Len(Waiters) : PopsExactly(k) /\ GrantFirst(t, k)
    BY <1>16 DEF Drain
  <2>2. Releasing = "yes"
    BY <1>16 DEF Drain, OneReleaser, Looping
  <2>3. k = 0 /\ ~(ReadyEvent = "pending" /\ FreeAfter(k) > 0)
    BY <2>1, <2>2 DEF GrantFirst
  <2>4. Waiters' = SubSeq(Waiters, 0 + 1, Len(Waiters)) /\ FreeSlots' = FreeAfter(0) /\ ReadyEvent' = ReadyEvent
    BY <2>1, <2>3 DEF GrantFirst
  <2>5. Waiters' = Waiters
    BY <2>4, SubSeqFull DEF TypeOK
  <2>6. ~FrontCanAcquire(0)
    BY <2>1, <2>3 DEF PopsExactly
  <2>7. TotalSlots' = TotalSlots
    BY <1>16 DEF Drain
  <2> QED BY <1>1, <1>2, <1>4, <2>3, <2>4, <2>5, <2>6, <2>7
<1>17. ASSUME NEW t \in Threads, Deliver(t) \/ EndDelivery(t) PROVE FALSE
  BY <1>17 DEF Deliver, EndDelivery, semVars, OneReleaser, Looping
<1>18. CASE UNCHANGED vars
  BY <1>5, <1>18 DEF vars, semVars, threadVars
<1> QED BY <1>7, <1>8, <1>9, <1>10, <1>11, <1>12, <1>13, <1>14, <1>15, <1>16, <1>17, <1>18 DEF Next

\* Init establishes the invariant: all slots are free and nobody waits.
LEMMA InitIInv == Init => IInv
<1> SUFFICES ASSUME Init PROVE IInv
  OBVIOUS
<1>1. TypeOK
  BY InitTypeOK
<1>2. OneReleaser
  BY DEF Init, OneReleaser, Looping
<1>3. Bookkeeping
  <2>1. \A i \in 1..Len(Waiters) : FALSE
    BY DEF Init
  <2>2. \A t \in Threads : batch[t] = <<>>
    BY DEF Init
  <2>3. \A r \in Requests : guardSlots[r] = 0
    BY DEF Init
  <2> QED BY <2>1, <2>2, <2>3 DEF Bookkeeping, Distinct
<1>4. SlotsConserved
  <2>1. Units([r \in Requests |-> 0]) = {}
    BY DEF Units
  <2>2. UsedSlots = 0
    BY <2>1, FS_EmptySet DEF UsedSlots, Init
  <2> QED BY <2>2, TotalsAssumption DEF SlotsConserved, Init
<1>5. NoLostWakeup
  <2>1. Len(Waiters) = 0 /\ ReadyEvent # "pending"
    BY DEF Init
  <2> QED BY <2>1 DEF NoLostWakeup, FrontCanAcquire
<1> QED BY <1>1, <1>2, <1>3, <1>4, <1>5 DEF IInv

\* The invariant is inductive.
LEMMA NextIInv == IInv /\ [Next]_vars => IInv'
BY NextTypeOK, OneReleaserStep, BookkeepingStep, ConservedStep, WakeupStep DEF IInv

\* The inductive invariant holds in every reachable state.
LEMMA Invariance == Spec => []IInv
BY InitIInv, NextIInv, PTL DEF Spec

\* No slot of TAsyncSemaphore is lost or returned twice, whatever threads
\* release, resize, cancel and transfer.
THEOREM SlotsAreConserved == Spec => []SlotsConserved
<1>1. IInv => SlotsConserved
  BY DEF IInv
<1> QED BY <1>1, Invariance, PTL

\* Release never leaves behind a waiter that could be granted, or a pending
\* ready event while slots are free.
THEOREM WakeupsAreNotLost == Spec => []NoLostWakeup
<1>1. IInv => NoLostWakeup
  BY DEF IInv
<1> QED BY <1>1, Invariance, PTL

\* Releasing_ admits one thread at a time to the loop of Release.
THEOREM ReleaserIsUnique == Spec => []OneReleaser
<1>1. IInv => OneReleaser
  BY DEF IInv
<1> QED BY <1>1, Invariance, PTL

=============================================================================
