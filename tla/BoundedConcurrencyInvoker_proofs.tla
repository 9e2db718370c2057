------------------ MODULE BoundedConcurrencyInvoker_proofs ------------------
(***************************************************************************)
(* Proofs about BoundedConcurrencyInvoker, for any threads, any finite     *)
(* number of callbacks and any limits.                                     *)
(***************************************************************************)
EXTENDS BoundedConcurrencyInvoker, FiniteSetTheorems, SequenceTheorems, TLAPS

-----------------------------------------------------------------------------
(* The inductive invariant.                                                *)

\* s holds callbacks of status st, none of them twice.
Holds(s, st) ==
    /\ \A i \in 1 .. Len(s) : status[s[i]] = st
    /\ \A i, j \in 1 .. Len(s) : s[i] = s[j] => i = j

QueueMatches == Holds(Queue, "queued")

LaunchMatches == \A t \in Threads : Holds(launch[t], "launching")

\* No callback is in the hands of two threads.
LaunchDisjoint ==
    \A t, u \in Threads : \A i \in 1 .. Len(launch[t]), j \in 1 .. Len(launch[u]) :
        launch[t][i] = launch[u][j] => t = u

\* A decrease that waits has a callback to wait for.
DecreaseWaits == Pending # NoPending => Pending < Semaphore

IInv ==
    /\ TypeOK
    /\ QueueMatches
    /\ LaunchMatches
    /\ LaunchDisjoint
    /\ PermitsExact
    /\ WithinLimit
    /\ DecreaseWaits

-----------------------------------------------------------------------------
(* Permits.                                                                *)

\* The callbacks that are out are finite in number.
LEMMA ActiveFinite == IsFiniteSet(Active) /\ Cardinality(Active) \in Nat
BY CallbacksAssumption, FS_Subset, FS_CardinalityType DEF Active

\* A permit is returned: IncrementSemaphore(-1) keeps the limit, the one in
\* force before or the decrease that takes effect.
LEMMA PermitReturned ==
    ASSUME TypeOK, WithinLimit, DecreaseWaits, Semaphore # 0, DecrementSemaphore
    PROVE  /\ Semaphore' = Semaphore - 1 /\ Semaphore' \in Nat
           /\ MaxConcurrentInvocations' \in Nat /\ Pending' \in Nat \cup {NoPending}
           /\ WithinLimit' /\ DecreaseWaits'
<1>1. Semaphore' = Semaphore - 1 /\ Semaphore' \in Nat
  BY DEF DecrementSemaphore, TypeOK
<1>2. CASE Pending # NoPending /\ Semaphore - 1 <= Pending
  BY <1>1, <1>2 DEF DecrementSemaphore, TypeOK, WithinLimit, DecreaseWaits
<1>3. CASE ~ (Pending # NoPending /\ Semaphore - 1 <= Pending)
  <2>1. MaxConcurrentInvocations' = MaxConcurrentInvocations /\ Pending' = Pending
    BY <1>3 DEF DecrementSemaphore
  <2> QED BY <1>1, <1>3, <2>1 DEF TypeOK, WithinLimit, DecreaseWaits, NoPending
<1> QED BY <1>1, <1>2, <1>3

\* The first k entries of a sequence without repetition are k callbacks.
LEMMA CountEntries ==
    ASSUME NEW s \in Seq(Callbacks), \A i, j \in 1 .. Len(s) : s[i] = s[j] => i = j,
           NEW k \in Nat, k <= Len(s)
    PROVE  LET T == {s[i] : i \in 1 .. k} IN IsFiniteSet(T) /\ Cardinality(T) = k
<1> DEFINE T == {s[i] : i \in 1 .. k}
           f == [i \in 1 .. k |-> s[i]]
<1>1. f \in [1 .. k -> T]
  OBVIOUS
<1>2. \A i, j \in 1 .. k : f[i] = f[j] => i = j
  OBVIOUS
<1>3. \A x \in T : \E i \in 1 .. k : f[i] = x
  OBVIOUS
<1>4. IsFiniteSet(1 .. k) /\ Cardinality(1 .. k) = k
  BY FS_Interval
<1> HIDE DEF T, f
<1>5. f \in Bijection(1 .. k, T)
  BY <1>1, <1>2, <1>3 DEF Bijection, Injection, IsInjective, Surjection
<1>6. IsFiniteSet(T) /\ Cardinality(T) = k
  BY <1>4, <1>5, FS_Bijection DEF ExistsBijection
<1> QED BY <1>6 DEF T

-----------------------------------------------------------------------------
(* The actions.                                                            *)

\* Invoke takes a permit, or queues a callback that was not known before.
LEMMA InvokeStep ==
    ASSUME IInv, NEW t \in Threads, NEW c \in Callbacks, Invoke(t, c)
    PROVE  IInv'
<1> USE DEF IInv
<1>0. /\ status[c] = "new" /\ launch[t] = <<>>
      /\ MaxConcurrentInvocations' = MaxConcurrentInvocations /\ Pending' = Pending
      /\ terminated' = terminated /\ requested' = requested /\ setCalls' = setCalls
  BY DEF Invoke, Idle
<1>1. CASE HasFreePermit
  <2>1. /\ Semaphore' = Semaphore + 1 /\ Queue' = Queue
        /\ launch' = [launch EXCEPT ![t] = <<c>>]
        /\ status' = [status EXCEPT ![c] = "launching"]
    BY <1>1 DEF Invoke
  <2>2. TypeOK'
    BY <1>0, <2>1 DEF TypeOK, Statuses
  <2>3. QueueMatches'
    BY <1>0, <2>1 DEF TypeOK, QueueMatches, Holds
  <2>4. /\ launch'[t] = <<c>> /\ Len(launch'[t]) = 1 /\ launch'[t][1] = c
        /\ \A u \in Threads \ {t} : launch'[u] = launch[u]
        /\ \A u \in Threads : launch[u] \in Seq(Callbacks)
        /\ \A u \in Threads : \A i \in 1 .. Len(launch[u]) : launch[u][i] # c
    BY <1>0, <2>1 DEF TypeOK, LaunchMatches, Holds
  <2>5. LaunchMatches'
    BY <2>1, <2>4 DEF TypeOK, LaunchMatches, Holds
  <2>6. LaunchDisjoint'
    BY <2>4 DEF LaunchDisjoint
  <2>7. PermitsExact'
    <3>1. Active' = Active \cup {c} /\ c \notin Active
      BY <1>0, <2>1 DEF Active, TypeOK
    <3> QED BY <3>1, <2>1, ActiveFinite, FS_AddElement DEF PermitsExact
  <2>8. WithinLimit' /\ DecreaseWaits'
    BY <1>0, <1>1, <2>1 DEF HasFreePermit, WithinLimit, DecreaseWaits, TypeOK
  <2> QED BY <2>2, <2>3, <2>5, <2>6, <2>7, <2>8
<1>2. CASE ~ HasFreePermit
  <2>1. /\ Semaphore' = Semaphore /\ launch' = launch
        /\ Queue' = Append(Queue, c)
        /\ status' = [status EXCEPT ![c] = "queued"]
    BY <1>2 DEF Invoke
  <2>2. TypeOK'
    BY <1>0, <2>1 DEF TypeOK, Statuses
  <2>3. /\ Len(Queue') = Len(Queue) + 1 /\ Queue'[Len(Queue) + 1] = c
        /\ \A i \in 1 .. Len(Queue) : Queue'[i] = Queue[i] /\ Queue[i] # c
    BY <1>0, <2>1 DEF TypeOK, QueueMatches, Holds
  <2>4. QueueMatches'
    BY <2>1, <2>3 DEF TypeOK, QueueMatches, Holds
  <2>5. LaunchMatches'
    BY <1>0, <2>1 DEF TypeOK, LaunchMatches, Holds
  <2>6. LaunchDisjoint'
    BY <2>1 DEF LaunchDisjoint
  <2>7. Active' = Active
    BY <1>0, <2>1 DEF Active, TypeOK
  <2> QED BY <1>0, <2>1, <2>2, <2>4, <2>5, <2>6, <2>7 DEF PermitsExact, WithinLimit, DecreaseWaits
<1> QED BY <1>1, <1>2

\* A limit that leaves room moves as many callbacks out of the queue as it
\* takes permits for.
LEMMA RaiseLimitStep ==
    ASSUME IInv, NEW t \in Threads, NEW limit \in Limits, launch[t] = <<>>, RaiseLimit(t, limit),
           terminated' = terminated, requested' \in Nat, setCalls' \in Nat
    PROVE  IInv'
<1> USE DEF IInv
<1> DEFINE room == limit - Semaphore
           k == IF room <= Len(Queue) THEN room ELSE Len(Queue)
           T == {Queue[i] : i \in 1 .. k}
<1>1. /\ limit >= Semaphore /\ Pending' = NoPending /\ MaxConcurrentInvocations' = limit
      /\ Semaphore' = Semaphore + k
      /\ Queue' = SubSeq(Queue, k + 1, Len(Queue))
      /\ launch' = [launch EXCEPT ![t] = SubSeq(Queue, 1, k)]
      /\ status' = [c \in Callbacks |-> IF c \in T THEN "launching" ELSE status[c]]
  BY DEF RaiseLimit, TakeFromQueue
<1>2. limit \in Nat /\ k \in Nat /\ k <= Len(Queue) /\ Semaphore + k <= limit /\ Semaphore \in Nat
  BY <1>1, LimitsAssumption DEF TypeOK
<1> HIDE DEF k
<1>3. /\ Queue \in Seq(Callbacks) /\ Len(Queue) \in Nat
      /\ \A i \in 1 .. Len(Queue) : Queue[i] \in Callbacks /\ status[Queue[i]] = "queued"
      /\ \A i, j \in 1 .. Len(Queue) : Queue[i] = Queue[j] => i = j
  BY DEF TypeOK, QueueMatches, Holds
<1>4. /\ Queue' \in Seq(Callbacks) /\ Len(Queue') = Len(Queue) - k
      /\ \A i \in 1 .. Len(Queue') : Queue'[i] = Queue[i + k]
  <2>1. \A i \in (k + 1) .. Len(Queue) : Queue[i] \in Callbacks
    BY <1>2, <1>3
  <2> QED BY <1>1, <1>2, <1>3, <2>1, SubSeqProperties
<1>5. /\ launch'[t] \in Seq(Callbacks) /\ Len(launch'[t]) = k
      /\ \A i \in 1 .. k : launch'[t][i] = Queue[i]
      /\ \A u \in Threads \ {t} : launch'[u] = launch[u]
  <2>1. \A i \in 1 .. k : Queue[i] \in Callbacks
    BY <1>2, <1>3
  <2>2. launch'[t] = SubSeq(Queue, 1, k) /\ \A u \in Threads \ {t} : launch'[u] = launch[u]
    BY <1>1 DEF TypeOK
  <2>3. /\ SubSeq(Queue, 1, k) \in Seq(Callbacks) /\ Len(SubSeq(Queue, 1, k)) = k
        /\ \A i \in 1 .. k : SubSeq(Queue, 1, k)[i] = Queue[i]
    BY <1>2, <1>3, <2>1, SubSeqProperties
  <2> QED BY <2>2, <2>3
<1>6. T \subseteq Callbacks /\ \A c \in T : status[c] = "queued"
  BY <1>2, <1>3
<1>7. TypeOK'
  <2>1. launch' \in [Threads -> Seq(Callbacks)]
    BY <1>1, <1>5 DEF TypeOK
  <2>2. status' \in [Callbacks -> Statuses]
    BY <1>1 DEF TypeOK, Statuses
  <2> QED BY <1>1, <1>2, <1>4, <2>1, <2>2 DEF TypeOK
<1>8. \A c \in Callbacks : status'[c] = IF c \in T THEN "launching" ELSE status[c]
  BY <1>1
<1>9. /\ \A i \in 1 .. k : i \in 1 .. Len(Queue) /\ Queue[i] \in T
      /\ \A i \in 1 .. Len(Queue') : i + k \in 1 .. Len(Queue) /\ Queue[i + k] \notin T
  <2>1. \A i \in 1 .. k : i \in 1 .. Len(Queue) /\ Queue[i] \in T
    BY <1>2, <1>3
  <2>2. ASSUME NEW i \in 1 .. Len(Queue') PROVE i + k \in 1 .. Len(Queue) /\ Queue[i + k] \notin T
    <3>1. i + k \in 1 .. Len(Queue) /\ i + k \notin 1 .. k
      BY <1>2, <1>4, <2>2
    <3>2. ASSUME NEW j \in 1 .. k, Queue[j] = Queue[i + k] PROVE FALSE
      <4>1. j \in 1 .. Len(Queue)
        BY <2>1
      <4> QED BY <1>3, <3>1, <3>2, <4>1
    <3> QED BY <3>1, <3>2
  <2> QED BY <2>1, <2>2
<1> HIDE DEF T
<1>10. QueueMatches'
  <2>1. ASSUME NEW i \in 1 .. Len(Queue') PROVE status'[Queue'[i]] = "queued"
    <3>1. /\ Queue'[i] = Queue[i + k] /\ Queue[i + k] \in Callbacks \ T
          /\ status[Queue[i + k]] = "queued"
      BY <1>3, <1>4, <1>9
    <3> QED BY <1>8, <3>1
  <2>2. ASSUME NEW i \in 1 .. Len(Queue'), NEW j \in 1 .. Len(Queue'), Queue'[i] = Queue'[j] PROVE i = j
    <3>1. i + k = j + k
      <4>1. i + k \in 1 .. Len(Queue) /\ j + k \in 1 .. Len(Queue) /\ Queue[i + k] = Queue[j + k]
        BY <1>4, <1>9, <2>2
      <4> QED BY <1>3, <4>1
    <3> QED BY <1>2, <1>4, <3>1
  <2> QED BY <2>1, <2>2 DEF QueueMatches, Holds
<1>11. LaunchMatches'
  <2>1. Holds(launch[t], "launching")'
    BY <1>3, <1>5, <1>8, <1>9 DEF Holds
  <2>2. ASSUME NEW u \in Threads \ {t} PROVE Holds(launch[u], "launching")'
    <3>1. launch'[u] = launch[u] /\ Holds(launch[u], "launching")
      BY <1>5 DEF LaunchMatches
    <3>2. \A i \in 1 .. Len(launch[u]) : launch[u][i] \in Callbacks /\ launch[u][i] \notin T
      <4>1. launch[u] \in Seq(Callbacks)
        BY DEF TypeOK
      <4> QED BY <1>6, <3>1, <4>1 DEF Holds
    <3> QED BY <1>8, <3>1, <3>2 DEF Holds
  <2> QED BY <2>1, <2>2 DEF LaunchMatches
<1>12. LaunchDisjoint'
  <2>1. \A u \in Threads \ {t} : \A i \in 1 .. k, j \in 1 .. Len(launch[u]) : Queue[i] # launch[u][j]
    <3>1. \A i \in 1 .. k : status[Queue[i]] = "queued"
      BY <1>6, <1>9
    <3> QED BY <3>1 DEF LaunchMatches, Holds
  <2>2. ASSUME NEW u \in Threads, NEW v \in Threads, NEW i \in 1 .. Len(launch'[u]),
               NEW j \in 1 .. Len(launch'[v]), launch'[u][i] = launch'[v][j]
        PROVE  u = v
    <3>1. CASE u # t /\ v # t
      BY <1>5, <2>2, <3>1 DEF LaunchDisjoint
    <3>2. CASE u = t /\ v # t
      BY <1>5, <2>1, <2>2, <3>2
    <3>3. CASE u # t /\ v = t
      BY <1>5, <2>1, <2>2, <3>3
    <3> QED BY <3>1, <3>2, <3>3
  <2> QED BY <2>2 DEF LaunchDisjoint
<1>13. PermitsExact'
  <2>1. IsFiniteSet(T) /\ Cardinality(T) = k
    BY <1>2, <1>3, CountEntries DEF T
  <2>2. Active' = Active \cup T /\ Active \cap T = {}
    BY <1>1, <1>6 DEF Active, TypeOK
  <2>3. Cardinality(Active \cup T) = Cardinality(Active) + Cardinality(T) - Cardinality({})
    BY <2>1, <2>2, ActiveFinite, FS_Union
  <2> QED BY <1>1, <1>2, <2>1, <2>2, <2>3, ActiveFinite, FS_EmptySet DEF PermitsExact
<1>14. WithinLimit' /\ DecreaseWaits'
  BY <1>1, <1>2 DEF WithinLimit, DecreaseWaits
<1> QED BY <1>7, <1>10, <1>11, <1>12, <1>13, <1>14

\* SetMaxConcurrentInvocations keeps the invariant.
LEMMA SetMaxStep ==
    ASSUME IInv, NEW t \in Threads, NEW limit \in Limits, SetMaxConcurrentInvocations(t, limit)
    PROVE  IInv'
<1>1. /\ launch[t] = <<>> /\ terminated' = terminated /\ requested' \in Nat /\ setCalls' \in Nat /\ limit \in Nat
  BY LimitsAssumption DEF SetMaxConcurrentInvocations, Idle, IInv, TypeOK
<1>2. CASE RaiseLimit(t, limit)
  BY <1>1, <1>2, RaiseLimitStep
<1>3. CASE ScheduleLowerLimit(limit)
  BY <1>1, <1>3 DEF ScheduleLowerLimit, IInv, TypeOK, QueueMatches, LaunchMatches, LaunchDisjoint, Holds, PermitsExact,
                    Active, WithinLimit, DecreaseWaits
<1>4. CASE UNCHANGED <<limitVars, Queue, launch, status>>
  BY <1>1, <1>4 DEF limitVars, IInv, TypeOK, QueueMatches, LaunchMatches, LaunchDisjoint, Holds, PermitsExact,
                    Active, WithinLimit, DecreaseWaits
<1> QED BY <1>2, <1>3, <1>4 DEF SetMaxConcurrentInvocations

\* Submit and SubmitDropped take the callback at the head of launch[t] out of
\* the hands of thread t, whatever becomes of it.
LEMMA HeadLeaves ==
    ASSUME IInv, NEW t \in Threads, ~ Idle(t), NEW st \in Statuses \ {"queued", "launching"},
           status' = [status EXCEPT ![Head(launch[t])] = st],
           launch' = [launch EXCEPT ![t] = Tail(@)],
           Queue' = Queue
    PROVE  /\ Head(launch[t]) \in Callbacks /\ status[Head(launch[t])] = "launching"
           /\ status' \in [Callbacks -> Statuses] /\ launch' \in [Threads -> Seq(Callbacks)]
           /\ QueueMatches' /\ LaunchMatches' /\ LaunchDisjoint'
<1> USE DEF IInv
<1> DEFINE c == Head(launch[t])
<1>1. /\ launch[t] \in Seq(Callbacks) /\ launch[t] # <<>>
      /\ c \in Callbacks /\ c = launch[t][1] /\ 1 \in 1 .. Len(launch[t])
      /\ Tail(launch[t]) \in Seq(Callbacks) /\ Len(Tail(launch[t])) = Len(launch[t]) - 1
      /\ \A i \in 1 .. Len(Tail(launch[t])) : Tail(launch[t])[i] = launch[t][i + 1]
  BY DEF Idle, TypeOK
<1>2. status[c] = "launching"
  BY <1>1 DEF LaunchMatches, Holds
<1>3. status' = [status EXCEPT ![c] = st]
  OBVIOUS
<1> HIDE DEF c
<1>4. status' \in [Callbacks -> Statuses] /\ launch' \in [Threads -> Seq(Callbacks)]
  BY <1>1, <1>3 DEF TypeOK
<1>5. /\ launch'[t] = Tail(launch[t])
      /\ \A u \in Threads \ {t} : launch'[u] = launch[u]
  BY DEF TypeOK
<1>9. /\ Len(launch[t]) \in Nat /\ Len(launch'[t]) = Len(launch[t]) - 1
      /\ \A i \in 1 .. Len(launch'[t]) : i + 1 \in 1 .. Len(launch[t]) /\ launch'[t][i] = launch[t][i + 1]
  <2>1. Len(launch[t]) \in Nat
    BY <1>1
  <2>2. Len(launch'[t]) = Len(launch[t]) - 1 /\ \A i \in 1 .. Len(launch'[t]) : launch'[t][i] = launch[t][i + 1]
    BY <1>1, <1>5
  <2> QED BY <2>1, <2>2
<1>6. QueueMatches'
  BY <1>1, <1>2, <1>3 DEF TypeOK, QueueMatches, Holds
<1>7. LaunchMatches'
  <2>1. Holds(launch[t], "launching")'
    <3>1. \A i \in 1 .. Len(launch'[t]) : /\ i + 1 \in 1 .. Len(launch[t]) /\ launch'[t][i] = launch[t][i + 1]
                                          /\ launch[t][i + 1] # c /\ launch[t][i + 1] \in Callbacks
                                          /\ status[launch[t][i + 1]] = "launching"
      BY <1>9, <1>1 DEF LaunchMatches, Holds
    <3>2. \A i \in 1 .. Len(launch'[t]) : status'[launch'[t][i]] = "launching"
      BY <1>3, <3>1 DEF TypeOK
    <3>3. \A i, j \in 1 .. Len(launch'[t]) : launch'[t][i] = launch'[t][j] => i = j
      BY <3>1, <1>1, <1>5 DEF LaunchMatches, Holds
    <3> QED BY <3>2, <3>3 DEF Holds
  <2>2. ASSUME NEW u \in Threads \ {t} PROVE Holds(launch[u], "launching")'
    <3>1. \A i \in 1 .. Len(launch[u]) : launch[u][i] # c /\ launch[u][i] \in Callbacks
      BY <1>1 DEF LaunchDisjoint, TypeOK
    <3> QED BY <1>3, <1>5, <3>1 DEF LaunchMatches, Holds, TypeOK
  <2> QED BY <2>1, <2>2 DEF LaunchMatches
<1>8. LaunchDisjoint'
  BY <1>9, <1>5 DEF LaunchDisjoint
<1> QED BY <1>1, <1>2, <1>4, <1>6, <1>7, <1>8 DEF c

\* The underlying invoker takes the callback.
LEMMA SubmitStep == ASSUME IInv, NEW t \in Threads, Submit(t) PROVE IInv'
<1> DEFINE c == Head(launch[t])
<1>1. /\ status' = [status EXCEPT ![c] = "submitted"]
      /\ c \in Callbacks /\ status[c] = "launching"
      /\ status' \in [Callbacks -> Statuses] /\ launch' \in [Threads -> Seq(Callbacks)]
      /\ QueueMatches' /\ LaunchMatches' /\ LaunchDisjoint'
  BY HeadLeaves DEF Submit, Statuses
<1> HIDE DEF c
<1>2. Active' = Active
  BY <1>1 DEF Active, IInv, TypeOK
<1> QED BY <1>1, <1>2 DEF Submit, limitVars, IInv, TypeOK, PermitsExact, WithinLimit, DecreaseWaits

\* The terminated underlying invoker drops the callback, and its permit is
\* returned before RunCallback does.
LEMMA SubmitDroppedStep == ASSUME IInv, NEW t \in Threads, SubmitDropped(t) PROVE IInv'
<1> USE DEF IInv
<1> DEFINE c == Head(launch[t])
<1>1. /\ status' = [status EXCEPT ![c] = "dropped"]
      /\ c \in Callbacks /\ status[c] = "launching"
      /\ status' \in [Callbacks -> Statuses] /\ launch' \in [Threads -> Seq(Callbacks)]
      /\ QueueMatches' /\ LaunchMatches' /\ LaunchDisjoint'
  BY HeadLeaves DEF SubmitDropped, Statuses
<1> HIDE DEF c
<1>2. Active' = Active \ {c} /\ c \in Active
  BY <1>1 DEF Active, TypeOK
<1>3. Cardinality(Active') = Cardinality(Active) - 1 /\ Semaphore # 0
  BY <1>2, ActiveFinite, FS_RemoveElement, FS_EmptySet DEF PermitsExact
<1>4. /\ Semaphore' = Semaphore - 1 /\ Semaphore' \in Nat
      /\ MaxConcurrentInvocations' \in Nat /\ Pending' \in Nat \cup {NoPending}
      /\ WithinLimit' /\ DecreaseWaits'
  BY <1>3, PermitReturned DEF SubmitDropped
<1>5. TypeOK'
  BY <1>1, <1>4 DEF SubmitDropped, TypeOK
<1> QED BY <1>1, <1>3, <1>4, <1>5 DEF PermitsExact

\* The underlying invoker begins a callback.
LEMMA StartStep == ASSUME IInv, NEW c \in Callbacks, Start(c) PROVE IInv'
<1> USE DEF IInv
<1>1. /\ status[c] = "submitted" /\ status' = [status EXCEPT ![c] = "running"]
      /\ Queue' = Queue /\ launch' = launch /\ UNCHANGED <<limitVars, terminated, requested, setCalls>>
  BY DEF Start
<1>2. TypeOK'
  BY <1>1 DEF TypeOK, Statuses, limitVars
<1>3. QueueMatches' /\ LaunchMatches' /\ LaunchDisjoint'
  BY <1>1 DEF TypeOK, QueueMatches, LaunchMatches, LaunchDisjoint, Holds
<1>4. Active' = Active
  BY <1>1 DEF Active, TypeOK
<1> QED BY <1>1, <1>2, <1>3, <1>4 DEF limitVars, PermitsExact, WithinLimit, DecreaseWaits

\* OnFinished passes the permit on to the next callback, or returns it.
LEMMA FinishStep ==
    ASSUME IInv, NEW t \in Threads, NEW c \in Callbacks, Finish(t, c)
    PROVE  IInv'
<1> USE DEF IInv
<1> DEFINE over == IF status[c] = "running" THEN "finished" ELSE "dropped"
<1>0. /\ status[c] \in {"running", "submitted"} /\ launch[t] = <<>>
      /\ terminated' = terminated /\ requested' = requested /\ setCalls' = setCalls
  BY DEF Finish, Idle
<1>1. over \in Statuses /\ over \in {"finished", "dropped"}
  BY DEF Statuses
<1>2. CASE PassPermitOn
  <2> DEFINE d == Head(Queue)
  <2>1. /\ Queue' = Tail(Queue)
        /\ launch' = [launch EXCEPT ![t] = <<d>>]
        /\ status' = [status EXCEPT ![c] = over, ![d] = "launching"]
        /\ MaxConcurrentInvocations' = MaxConcurrentInvocations /\ Pending' = Pending /\ Semaphore' = Semaphore
    BY <1>2 DEF Finish, limitVars
  <2>2. /\ Queue \in Seq(Callbacks) /\ Queue # <<>>
        /\ d \in Callbacks /\ d = Queue[1] /\ 1 \in 1 .. Len(Queue)
        /\ Tail(Queue) \in Seq(Callbacks) /\ Len(Tail(Queue)) = Len(Queue) - 1
        /\ \A i \in 1 .. Len(Tail(Queue)) : Tail(Queue)[i] = Queue[i + 1]
    BY <1>2 DEF PassPermitOn, TypeOK
  <2>3. status[d] = "queued" /\ c # d
    BY <1>0, <2>2 DEF QueueMatches, Holds
  <2> HIDE DEF d, over
  <2>4. /\ status'[c] = over /\ status'[d] = "launching" /\ status' \in [Callbacks -> Statuses]
        /\ \A b \in Callbacks \ {c, d} : status'[b] = status[b]
    BY <1>1, <2>1, <2>2, <2>3 DEF TypeOK, Statuses
  <2>5. TypeOK'
    BY <1>0, <2>1, <2>2, <2>4 DEF TypeOK
  <2>6. QueueMatches'
    <3>1. \A i \in 1 .. Len(Queue') : /\ i + 1 \in 1 .. Len(Queue) /\ Queue'[i] = Queue[i + 1]
                                      /\ Queue[i + 1] \in Callbacks \ {c, d}
                                      /\ status[Queue[i + 1]] = "queued"
      BY <1>0, <2>1, <2>2 DEF QueueMatches, Holds
    <3>2. \A i \in 1 .. Len(Queue') : status'[Queue'[i]] = "queued"
      BY <2>4, <3>1
    <3>3. \A i, j \in 1 .. Len(Queue') : Queue'[i] = Queue'[j] => i = j
      BY <2>1, <2>2, <3>1 DEF QueueMatches, Holds
    <3> QED BY <3>2, <3>3 DEF QueueMatches, Holds
  <2>7. /\ launch'[t] = <<d>> /\ Len(launch'[t]) = 1 /\ launch'[t][1] = d
        /\ \A u \in Threads \ {t} : launch'[u] = launch[u]
        /\ \A u \in Threads : \A i \in 1 .. Len(launch[u]) : launch[u][i] \in Callbacks \ {c, d}
    BY <1>0, <2>1, <2>3 DEF TypeOK, LaunchMatches, Holds
  <2>8. LaunchMatches'
    BY <2>4, <2>7 DEF LaunchMatches, Holds
  <2>9. LaunchDisjoint'
    BY <2>7 DEF LaunchDisjoint
  <2>10. PermitsExact'
    <3>1. c \in Active /\ d \notin Active /\ Active' = (Active \ {c}) \cup {d}
      BY <1>0, <1>1, <2>2, <2>3, <2>4 DEF Active
    <3>2. IsFiniteSet(Active \ {c}) /\ Cardinality(Active \ {c}) = Cardinality(Active) - 1
      BY <3>1, ActiveFinite, FS_RemoveElement
    <3>3. Cardinality((Active \ {c}) \cup {d}) = Cardinality(Active \ {c}) + 1
      BY <3>1, <3>2, FS_AddElement
    <3> QED BY <2>1, <3>1, <3>2, <3>3, ActiveFinite DEF PermitsExact
  <2> QED BY <2>1, <2>5, <2>6, <2>8, <2>9, <2>10 DEF WithinLimit, DecreaseWaits
<1>3. CASE ~ PassPermitOn
  <2>1. /\ DecrementSemaphore /\ status' = [status EXCEPT ![c] = over] /\ Queue' = Queue /\ launch' = launch
    BY <1>3 DEF Finish
  <2> HIDE DEF over
  <2>2. Active' = Active \ {c} /\ c \in Active
    BY <1>0, <1>1, <2>1 DEF Active, TypeOK
  <2>3. Cardinality(Active') = Cardinality(Active) - 1 /\ Semaphore # 0
    BY <2>2, ActiveFinite, FS_RemoveElement, FS_EmptySet DEF PermitsExact
  <2>4. /\ Semaphore' = Semaphore - 1 /\ Semaphore' \in Nat
        /\ MaxConcurrentInvocations' \in Nat /\ Pending' \in Nat \cup {NoPending}
        /\ WithinLimit' /\ DecreaseWaits'
    BY <2>1, <2>3, PermitReturned
  <2>5. TypeOK'
    BY <1>0, <1>1, <2>1, <2>4 DEF TypeOK
  <2>6. QueueMatches' /\ LaunchMatches' /\ LaunchDisjoint'
    BY <1>0, <1>1, <2>1 DEF TypeOK, QueueMatches, LaunchMatches, LaunchDisjoint, Holds
  <2> QED BY <2>3, <2>4, <2>5, <2>6 DEF PermitsExact
<1> QED BY <1>2, <1>3

-----------------------------------------------------------------------------
(* The theorems.                                                           *)

\* A new invoker satisfies the invariant.
LEMMA InvariantInit == Init => IInv
<1> SUFFICES ASSUME Init PROVE IInv
  OBVIOUS
<1>1. TypeOK
  BY LimitsAssumption DEF Init, TypeOK, Statuses
<1>2. Active = {}
  BY DEF Init, Active
<1>3. QueueMatches /\ LaunchMatches /\ LaunchDisjoint
  BY DEF Init, QueueMatches, LaunchMatches, LaunchDisjoint, Holds
<1> QED BY <1>1, <1>2, <1>3, FS_EmptySet, LimitsAssumption DEF Init, IInv, PermitsExact, WithinLimit, DecreaseWaits

\* Every step keeps the invariant.
LEMMA InvariantStep == IInv /\ [Next]_vars => IInv'
<1> SUFFICES ASSUME IInv, [Next]_vars PROVE IInv'
  OBVIOUS
<1>1. CASE Terminate
  <2>1. terminated' = "yes" /\ UNCHANGED <<limitVars, Queue, launch, status, requested, setCalls>>
    BY <1>1 DEF Terminate
  <2>2. TypeOK' /\ PermitsExact' /\ WithinLimit' /\ DecreaseWaits'
    BY <2>1 DEF limitVars, IInv, TypeOK, PermitsExact, Active, WithinLimit, DecreaseWaits
  <2>3. QueueMatches' /\ LaunchMatches' /\ LaunchDisjoint'
    BY <2>1 DEF IInv, QueueMatches, LaunchMatches, LaunchDisjoint, Holds
  <2> QED BY <2>2, <2>3 DEF IInv
<1>2. CASE UNCHANGED vars
  BY <1>2 DEF vars, limitVars, IInv, TypeOK, QueueMatches, LaunchMatches, LaunchDisjoint, Holds, PermitsExact,
              Active, WithinLimit, DecreaseWaits
<1> QED BY <1>1, <1>2, StartStep, InvokeStep, FinishStep, SetMaxStep, SubmitStep, SubmitDroppedStep DEF Next

\* The invariant holds in every behaviour of the invoker.
THEOREM Invariance == Spec => []IInv
BY InvariantInit, InvariantStep, PTL DEF Spec

\* Semaphore_ of TBoundedConcurrencyInvoker is the number of callbacks that
\* are out, whatever calls of the underlying invoker are under way and whether
\* or not it drops what it is given.
THEOREM PermitsAreExact == Spec => []PermitsExact
<1>1. IInv => PermitsExact
  BY DEF IInv
<1> QED BY <1>1, Invariance, PTL

\* No more callbacks are out than the limit in force admits, also when
\* SetMaxConcurrentInvocations lowers it: IncrementSemaphore's YT_ASSERT holds.
THEOREM StaysWithinLimit == Spec => []WithinLimit
<1>1. IInv => WithinLimit
  BY DEF IInv
<1> QED BY <1>1, Invariance, PTL

\* A decrease in PendingMaxConcurrentInvocations_ is below the number of
\* callbacks out: one of them will find it in OnFinished and make it effective.
THEOREM DecreaseHasCallback == Spec => []DecreaseWaits
<1>1. IInv => DecreaseWaits
  BY DEF IInv
<1> QED BY <1>1, Invariance, PTL
=============================================================================
