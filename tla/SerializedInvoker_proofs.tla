---------------------- MODULE SerializedInvoker_proofs ----------------------
(***************************************************************************)
(* For any threads and callbacks: the serialized invoker never has more    *)
(* than one ticket, strands nothing, and implements SerialExecutor.        *)
(*                                                                         *)
(* The argument is that the ticket is a token.  It is in the underlying    *)
(* invoker or with one thread, and only its holder runs a callback         *)
(* (OneTicket, RunnersRun).  For the refinement one has to know what the   *)
(* statuses mean: running callbacks are executed by a thread               *)
(* (RunningHeld), the queue holds queued callbacks, each once              *)
(* (QueueDistinct), and death comes with the last ticket (DeadIsQuiet).    *)
(***************************************************************************)
EXTENDS SerializedInvoker, TLAPS

\* A thread executes one callback while it is at "run", and none otherwise.
RunnersRun ==
    \A t \in Threads :
        /\ pc[t] = "run" => \E c \in Callbacks : running[t] = {c}
        /\ pc[t] # "run" => running[t] = {}

\* The callbacks marked as running are those the threads execute.
RunningHeld ==
    \A c \in Callbacks : status[c] = "running" <=> \E t \in Threads : c \in running[t]

\* The queue holds only callbacks marked as queued, each of them once.
QueueDistinct ==
    /\ \A i \in 1..Len(Queue) : status[Queue[i]] = "queued"
    /\ \A i, j \in 1..Len(Queue) : Queue[i] = Queue[j] => i = j

DeadIsQuiet == Dead = "yes" => CallbackScheduled = "no" /\ Queue = <<>>

IInv ==
    /\ TypeOK
    /\ OneTicket
    /\ NothingStranded
    /\ RunnersRun
    /\ RunningHeld
    /\ QueueDistinct
    /\ DeadIsQuiet

-----------------------------------------------------------------------------

\* The initial state is well-typed and satisfies the invariant.
LEMMA InitIInv == Init => IInv
  BY DEF Init, IInv, TypeOK, OneTicket, TicketHolders, NothingStranded, RunnersRun,
         RunningHeld, QueueDistinct, DeadIsQuiet

\* Every step preserves the types.
LEMMA TypeStep == TypeOK /\ [Next]_vars => TypeOK'
<1> SUFFICES ASSUME TypeOK, [Next]_vars PROVE TypeOK'
  OBVIOUS
<1> USE DEF TypeOK
<1>1. ASSUME NEW t \in Threads, NEW c \in Callbacks, Invoke(t, c) PROVE TypeOK'
  <2>1. CASE Accept(t, c)
    BY <1>1, <2>1 DEF Invoke, Accept, TrySchedule
  <2>2. CASE Refuse(c)
    BY <1>1, <2>2 DEF Invoke, Refuse
  <2> QED BY <1>1, <2>1, <2>2 DEF Invoke
<1>2. ASSUME NEW t \in Threads, Post(t) PROVE TypeOK'
  <2>1. CASE terminated = "no"
    BY <1>2, <2>1 DEF Post, lockVars, history
  <2>2. CASE terminated # "no"
    BY <1>2, <2>2 DEF Post, lockVars, history
  <2> QED BY <2>1, <2>2
<1>3. ASSUME NEW t \in Threads, RunCallback(t) PROVE TypeOK'
  <2>1. CASE Queue = <<>>
    BY <1>3, <2>1 DEF RunCallback
  <2>2. CASE Queue # <<>>
    <3>1. Head(Queue) \in Callbacks /\ Tail(Queue) \in Seq(Callbacks)
      BY <2>2
    <3>2. Append(started, Head(Queue)) \in Seq(Callbacks)
      BY <3>1
    <3>3. tickets - 1 \in Nat
      BY <1>3 DEF RunCallback
    <3>4. /\ Queue' = Tail(Queue) /\ started' = Append(started, Head(Queue)) /\ tickets' = tickets - 1
          /\ pc' = [pc EXCEPT ![t] = "run"]
          /\ running' = [running EXCEPT ![t] = {Head(Queue)}]
          /\ status' = [status EXCEPT ![Head(Queue)] = "running"]
          /\ UNCHANGED <<CallbackScheduled, Dead, terminated, accepted>>
      BY <1>3, <2>2 DEF RunCallback
    <3>5. running' \in [Threads -> SUBSET Callbacks]
      BY <3>1, <3>4
    <3>6. status' \in [Callbacks -> {"new", "queued", "running", "finished", "dropped"}]
      BY <3>1, <3>4
    <3>7. pc' \in [Threads -> {"idle", "post", "run", "finish", "discard"}]
      BY <3>4
    <3> QED BY <3>1, <3>2, <3>3, <3>4, <3>5, <3>6, <3>7
  <2> QED BY <2>1, <2>2
<1>4. ASSUME NEW t \in Threads, EndCallback(t) PROVE TypeOK'
  BY <1>4 DEF EndCallback, lockVars, history
<1>5. ASSUME NEW t \in Threads, OnFinished(t) PROVE TypeOK'
  BY <1>5 DEF OnFinished, TrySchedule, history
<1>6. ASSUME NEW t \in Threads, Discard(t) PROVE TypeOK'
  BY <1>6 DEF Discard, history
<1>7. ASSUME NEW t \in Threads, DestroyTicket(t) PROVE TypeOK'
  BY <1>7 DEF DestroyTicket, lockVars, history
<1>8. CASE Terminate
  BY <1>8 DEF Terminate, lockVars, history
<1>9. CASE UNCHANGED vars
  BY <1>9 DEF vars, lockVars, history
<1> QED BY <1>1, <1>2, <1>3, <1>4, <1>5, <1>6, <1>7, <1>8, <1>9 DEF Next

-----------------------------------------------------------------------------

\* The ticket is a token: every step keeps it single, and keeps it on its way
\* while callbacks wait.
LEMMA TicketStep == IInv /\ [Next]_vars => (OneTicket /\ NothingStranded)'
<1> SUFFICES ASSUME IInv, [Next]_vars PROVE (OneTicket /\ NothingStranded)'
  OBVIOUS
<1> USE DEF IInv, TypeOK, OneTicket, NothingStranded, TicketHolders
<1>0. TypeOK'
  BY TypeStep
<1>1. ASSUME NEW t \in Threads, NEW c \in Callbacks, Invoke(t, c) PROVE (OneTicket /\ NothingStranded)'
  <2>1. CASE Accept(t, c)
    <3>1. Queue' = Append(Queue, c) /\ Queue' # <<>> /\ CallbackScheduled' = "yes" /\ tickets' = tickets
      BY <1>1, <2>1 DEF Invoke, Accept, TrySchedule
    <3>2. CASE CallbackScheduled = "no"
      <4>1. pc' = [pc EXCEPT ![t] = "post"]
        BY <2>1, <3>2 DEF Accept, TrySchedule
      <4> QED BY <3>1, <3>2, <4>1
    <3>3. CASE CallbackScheduled = "yes"
      <4>1. pc' = pc
        BY <1>1, <2>1, <3>3 DEF Invoke, Accept, TrySchedule
      <4> QED BY <3>1, <3>3, <4>1
    <3> QED BY <3>2, <3>3
  <2>2. CASE Refuse(c)
    BY <1>1, <2>2 DEF Invoke, Refuse
  <2> QED BY <1>1, <2>1, <2>2 DEF Invoke
<1>2. ASSUME NEW t \in Threads, Post(t) PROVE (OneTicket /\ NothingStranded)'
  <2>1. CASE terminated = "no"
    BY <1>2, <2>1 DEF Post, lockVars
  <2>2. CASE terminated # "no"
    BY <1>2, <2>2 DEF Post, lockVars
  <2> QED BY <2>1, <2>2
<1>3. ASSUME NEW t \in Threads, RunCallback(t) PROVE (OneTicket /\ NothingStranded)'
  <2>1. tickets = 1 /\ Queue # <<>> /\ CallbackScheduled = "yes" /\ \A u \in Threads : pc[u] = "idle"
    BY <1>3 DEF RunCallback
  <2>2. pc' = [pc EXCEPT ![t] = "run"] /\ tickets' = 0 /\ CallbackScheduled' = "yes"
    BY <1>3, <2>1 DEF RunCallback
  <2> QED BY <2>1, <2>2
<1>4. ASSUME NEW t \in Threads, EndCallback(t) PROVE (OneTicket /\ NothingStranded)'
  BY <1>4 DEF EndCallback, lockVars
<1>5. ASSUME NEW t \in Threads, OnFinished(t) PROVE (OneTicket /\ NothingStranded)'
  <2>1. tickets = 0 /\ tickets' = 0 /\ Queue' = Queue /\ \A u \in Threads \ {t} : pc[u] = "idle"
    BY <1>5 DEF OnFinished
  <2>2. CASE Queue = <<>>
    BY <1>5, <2>1, <2>2 DEF OnFinished
  <2>3. CASE Queue # <<>>
    <3>1. pc' = [pc EXCEPT ![t] = "post"] /\ CallbackScheduled' = "yes"
      BY <1>5, <2>3 DEF OnFinished, TrySchedule
    <3> QED BY <2>1, <2>3, <3>1
  <2> QED BY <2>2, <2>3
<1>6. ASSUME NEW t \in Threads, Discard(t) PROVE (OneTicket /\ NothingStranded)'
  BY <1>6 DEF Discard
<1>7. ASSUME NEW t \in Threads, DestroyTicket(t) PROVE (OneTicket /\ NothingStranded)'
  <2>1. tickets = 1 /\ CallbackScheduled = "yes" /\ \A u \in Threads : pc[u] = "idle"
    BY <1>7 DEF DestroyTicket
  <2>2. pc' = [pc EXCEPT ![t] = "discard"] /\ tickets' = 0 /\ UNCHANGED <<Queue, CallbackScheduled>>
    BY <1>7, <2>1 DEF DestroyTicket, lockVars
  <2> QED BY <2>1, <2>2
<1>8. CASE Terminate
  BY <1>8 DEF Terminate, lockVars
<1>9. CASE UNCHANGED vars
  BY <1>9 DEF vars, lockVars
<1> QED BY <1>1, <1>2, <1>3, <1>4, <1>5, <1>6, <1>7, <1>8, <1>9 DEF Next

\* Every step keeps status, the queue and the running callbacks in agreement,
\* and a dead invoker quiet.
LEMMA CallbackStep == IInv /\ [Next]_vars => (RunnersRun /\ RunningHeld /\ QueueDistinct /\ DeadIsQuiet)'
<1> DEFINE Goal == RunnersRun /\ RunningHeld /\ QueueDistinct /\ DeadIsQuiet
<1> SUFFICES ASSUME IInv, [Next]_vars PROVE Goal'
  OBVIOUS
<1> USE DEF IInv, TypeOK, RunnersRun, RunningHeld, QueueDistinct, DeadIsQuiet
<1>0. TypeOK'
  BY TypeStep
<1>1. ASSUME NEW t \in Threads, NEW c \in Callbacks, Invoke(t, c) PROVE Goal'
  <2>0. pc[t] = "idle" /\ status[c] = "new" /\ UNCHANGED <<Dead, running>>
    BY <1>1 DEF Invoke
  <2>1. CASE Accept(t, c)
    <3>1. /\ Dead = "no" /\ Queue' = Append(Queue, c)
          /\ status' = [status EXCEPT ![c] = "queued"]
          /\ \A u \in Threads : pc'[u] = "run" <=> pc[u] = "run"
      BY <2>0, <2>1 DEF Accept, TrySchedule
    <3>2. RunnersRun'
      BY <2>0, <3>1
    <3>3. RunningHeld'
      BY <2>0, <3>1
    <3>4. QueueDistinct'
      BY <2>0, <3>1
    <3> QED BY <2>0, <3>1, <3>2, <3>3, <3>4
  <2>2. CASE Refuse(c)
    BY <2>0, <2>2 DEF Refuse
  <2> QED BY <1>1, <2>1, <2>2 DEF Invoke
<1>2. ASSUME NEW t \in Threads, Post(t) PROVE Goal'
  <2>1. \A u \in Threads : pc'[u] = "run" <=> pc[u] = "run"
    BY <1>2 DEF Post
  <2>2. UNCHANGED <<Queue, CallbackScheduled, Dead, running, status>>
    BY <1>2 DEF Post, lockVars
  <2> QED BY <2>1, <2>2
<1>3. ASSUME NEW t \in Threads, RunCallback(t) PROVE Goal'
  <2> DEFINE h == Head(Queue)
  <2>1. /\ tickets = 1 /\ Queue # <<>> /\ CallbackScheduled = "yes"
        /\ \A u \in Threads : pc[u] = "idle" /\ running[u] = {}
    BY <1>3 DEF RunCallback, OneTicket, NothingStranded, TicketHolders
  <2>2. /\ pc' = [pc EXCEPT ![t] = "run"] /\ Queue' = Tail(Queue)
        /\ running' = [running EXCEPT ![t] = {h}]
        /\ status' = [status EXCEPT ![h] = "running"]
        /\ UNCHANGED <<Dead, CallbackScheduled>>
    BY <1>3, <2>1 DEF RunCallback
  <2>3. h \in Callbacks /\ h = Queue[1] /\ status[h] = "queued" /\ Len(Queue) >= 1
    BY <2>1
  <2>4. Len(Tail(Queue)) = Len(Queue) - 1 /\ \A i \in 1..Len(Tail(Queue)) : Tail(Queue)[i] = Queue[i + 1]
    BY <2>1
  <2>5. \A i \in 1..Len(Tail(Queue)) : i + 1 \in 1..Len(Queue) /\ i + 1 # 1 /\ Queue[i + 1] \in Callbacks
    BY <2>3, <2>4
  <2>6. QueueDistinct'
    BY <2>2, <2>3, <2>4, <2>5
  <2>7. RunnersRun'
    BY <2>1, <2>2, <2>3
  <2>8. RunningHeld'
    BY <2>1, <2>2, <2>3
  <2> QED BY <2>1, <2>2, <2>6, <2>7, <2>8
<1>4. ASSUME NEW t \in Threads, EndCallback(t) PROVE Goal'
  <2>1. PICK c \in Callbacks : running[t] = {c}
    BY <1>4 DEF EndCallback
  <2>2. \A u \in Threads \ {t} : running[u] = {}
    BY <1>4 DEF EndCallback, OneTicket, TicketHolders
  <2>3. /\ pc' = [pc EXCEPT ![t] = "finish"]
        /\ running' = [running EXCEPT ![t] = {}]
        /\ status' = [status EXCEPT ![c] = "finished"]
        /\ UNCHANGED <<Queue, CallbackScheduled, Dead>>
    BY <1>4, <2>1 DEF EndCallback, lockVars
  <2>4. status[c] = "running"
    BY <2>1
  <2>5. RunnersRun'
    BY <2>2, <2>3
  <2>6. RunningHeld'
    BY <2>1, <2>2, <2>3
  <2>7. QueueDistinct'
    BY <2>3, <2>4
  <2> QED BY <2>3, <2>5, <2>6, <2>7
<1>5. ASSUME NEW t \in Threads, OnFinished(t) PROVE Goal'
  <2>1. pc[t] = "finish" /\ pc' \in {[pc EXCEPT ![t] = "idle"], [pc EXCEPT ![t] = "post"]}
    BY <1>5 DEF OnFinished, TrySchedule
  <2>2. CallbackScheduled = "yes"
    BY <2>1 DEF OneTicket, TicketHolders
  <2> QED BY <1>5, <2>1, <2>2 DEF OnFinished
<1>6. ASSUME NEW t \in Threads, Discard(t) PROVE Goal'
  <2>1. /\ pc' = [pc EXCEPT ![t] = "idle"] /\ pc[t] = "discard"
        /\ Queue' = <<>> /\ Dead' = "yes" /\ CallbackScheduled' = "no" /\ running' = running
        /\ status' = [c \in Callbacks |-> IF status[c] = "queued" THEN "dropped" ELSE status[c]]
    BY <1>6 DEF Discard
  <2>2. RunnersRun'
    BY <2>1
  <2>3. RunningHeld'
    BY <2>1
  <2> QED BY <2>1, <2>2, <2>3
<1>7. ASSUME NEW t \in Threads, DestroyTicket(t) PROVE Goal'
  BY <1>7 DEF DestroyTicket, lockVars
<1>8. CASE Terminate
  BY <1>8 DEF Terminate, lockVars
<1>9. CASE UNCHANGED vars
  BY <1>9 DEF vars, lockVars
<1> QED BY <1>1, <1>2, <1>3, <1>4, <1>5, <1>6, <1>7, <1>8, <1>9 DEF Next

\* The invariant holds in every state.
THEOREM Invariance == Spec => []IInv
<1>1. IInv /\ [Next]_vars => IInv'
  BY TypeStep, TicketStep, CallbackStep DEF IInv
<1> QED BY InitIInv, <1>1, PTL DEF Spec

\* The state of the serialized invoker stays well-typed.
THEOREM TypeCorrect == Spec => []TypeOK
<1>1. IInv => TypeOK
  BY DEF IInv
<1> QED BY Invariance, <1>1, PTL

\* There is never more than one ticket, and CallbackScheduled_ says whether
\* there is one: two callbacks never run at the same time.
THEOREM TicketIsUnique == Spec => []OneTicket
<1>1. IInv => OneTicket
  BY DEF IInv
<1> QED BY Invariance, <1>1, PTL

\* Nothing waits in the queue without a ticket on its way, and no ticket on
\* its way finds the queue empty.
THEOREM NoneStranded == Spec => []NothingStranded
<1>1. IInv => NothingStranded
  BY DEF IInv
<1> QED BY Invariance, <1>1, PTL

-----------------------------------------------------------------------------

\* Appending to the second of two sequences appends to both together.
LEMMA AppendToSecond ==
    \A a, b \in Seq(Callbacks), c \in Callbacks : Append(a \o b, c) = a \o Append(b, c)
  OBVIOUS

\* Moving the head of the second sequence to the end of the first leaves both
\* together the same.
LEMMA MoveHead ==
    ASSUME NEW S, NEW a \in Seq(S), NEW b \in Seq(S), b # <<>>
    PROVE  Append(a, Head(b)) \o Tail(b) = a \o b
<1> DEFINE l == Append(a, Head(b)) \o Tail(b)
           r == a \o b
<1>1. Head(b) \in S /\ Tail(b) \in Seq(S) /\ Len(Tail(b)) = Len(b) - 1 /\ Len(b) \in Nat \ {0}
  OBVIOUS
<1>2. l \in Seq(S) /\ r \in Seq(S)
  BY <1>1
<1>3. Len(l) = Len(r)
  BY <1>1
<1>4. ASSUME NEW i \in 1..Len(r) PROVE l[i] = r[i]
  BY <1>1, <1>4
<1> QED BY <1>2, <1>3, <1>4

\* Every step keeps the queue the rest of what was accepted.
LEMMA OrderStep == IInv /\ InOrder /\ [Next]_vars => InOrder'
<1> SUFFICES ASSUME IInv, InOrder, [Next]_vars PROVE InOrder'
  OBVIOUS
<1> USE DEF IInv, TypeOK, InOrder
<1>1. ASSUME NEW t \in Threads, NEW c \in Callbacks, Invoke(t, c) PROVE InOrder'
  <2>1. CASE Accept(t, c)
    <3>1. /\ Dead = "no" /\ Dead' = "no" /\ started' = started
          /\ Queue' = Append(Queue, c) /\ accepted' = Append(accepted, c)
      BY <1>1, <2>1 DEF Invoke, Accept
    <3>2. accepted = started \o Queue
      BY <3>1
    <3>3. started \in Seq(Callbacks) /\ Queue \in Seq(Callbacks)
      OBVIOUS
    <3>4. Append(started \o Queue, c) = started \o Append(Queue, c)
      BY <3>3, AppendToSecond
    <3> QED BY <3>1, <3>2, <3>4
  <2>2. CASE Refuse(c)
    BY <1>1, <2>2 DEF Invoke, Refuse
  <2> QED BY <1>1, <2>1, <2>2 DEF Invoke
<1>2. ASSUME NEW t \in Threads, RunCallback(t) PROVE InOrder'
  <2>1. Queue # <<>> /\ Dead = "no" /\ Dead' = "no" /\ accepted' = accepted
    BY <1>2 DEF RunCallback, OneTicket, NothingStranded
  <2>2. Queue' = Tail(Queue) /\ started' = Append(started, Head(Queue))
    BY <1>2, <2>1 DEF RunCallback
  <2>3. started' \o Queue' = started \o Queue
    BY <2>1, <2>2, MoveHead
  <2> QED BY <2>1, <2>3
<1>3. ASSUME NEW t \in Threads, Discard(t) PROVE InOrder'
  BY <1>3 DEF Discard
<1>4. ASSUME UNCHANGED <<Queue, Dead, accepted, started>> PROVE InOrder'
  BY <1>4
<1>5. ASSUME NEW t \in Threads, Post(t) \/ EndCallback(t) \/ OnFinished(t) \/ DestroyTicket(t) PROVE InOrder'
  BY <1>4, <1>5 DEF Post, EndCallback, OnFinished, DestroyTicket, lockVars, history
<1>6. Terminate => InOrder'
  BY <1>4 DEF Terminate, lockVars, history
<1>7. UNCHANGED vars => InOrder'
  BY <1>4 DEF vars, lockVars, history
<1> QED BY <1>1, <1>2, <1>3, <1>5, <1>6, <1>7 DEF Next

\* Callbacks start in the order of their Invoke calls, none left out and none
\* twice, until the invoker dies; then its queue is empty.
THEOREM OrderIsKept == Spec => []InOrder
<1>1. Init => InOrder
  BY DEF Init, InOrder
<1> QED BY Invariance, <1>1, OrderStep, PTL DEF Spec

-----------------------------------------------------------------------------

\* The initial state is one of the serial executor.
LEMMA InitMaps == Init => Serial!Init
  BY DEF Init, Serial!Init, Executing, Fate

\* Every step is a step of the serial executor or leaves its state alone.
LEMMA StepMaps == IInv /\ [Next]_vars => [Serial!Next]_(Serial!vars)
<1> SUFFICES ASSUME IInv, [Next]_vars PROVE [Serial!Next]_(Serial!vars)
  OBVIOUS
<1> DEFINE alive == IF Dead = "yes" THEN "no" ELSE "yes"
           fate == [c \in Callbacks |-> Fate(c)]
<1> USE DEF IInv, TypeOK
<1>0. TypeOK' /\ RunnersRun'
  BY TypeStep, CallbackStep
<1>1. ASSUME NEW t \in Threads, NEW c \in Callbacks, Invoke(t, c) PROVE [Serial!Next]_(Serial!vars)
  <2>0. status[c] = "new" /\ fate[c] = "new" /\ UNCHANGED <<alive, Executing>>
    BY <1>1 DEF Invoke, Fate, Executing
  <2>1. CASE Accept(t, c)
    <3>1. status' = [status EXCEPT ![c] = "queued"] /\ Queue' = Append(Queue, c) /\ alive = "yes"
      BY <2>1 DEF Accept
    <3>2. fate' = [fate EXCEPT ![c] = "accepted"]
      BY <3>1 DEF Fate
    <3>3. Serial!Accept(c)
      BY <2>0, <3>1, <3>2 DEF Serial!Accept
    <3> QED BY <3>3 DEF Serial!Next
  <2>2. CASE Refuse(c)
    <3>1. status' = [status EXCEPT ![c] = "dropped"] /\ UNCHANGED Queue /\ alive = "no"
      BY <2>2 DEF Refuse
    <3>2. fate' = [fate EXCEPT ![c] = "dropped"]
      BY <3>1 DEF Fate
    <3>3. Serial!Refuse(c)
      BY <2>0, <3>1, <3>2 DEF Serial!Refuse
    <3> QED BY <3>3 DEF Serial!Next
  <2> QED BY <1>1, <2>1, <2>2 DEF Invoke
<1>2. ASSUME UNCHANGED <<Queue, Dead, running, status>> PROVE UNCHANGED Serial!vars
  BY <1>2 DEF Serial!vars, Executing, Fate
<1>3. ASSUME NEW t \in Threads, RunCallback(t) PROVE [Serial!Next]_(Serial!vars)
  <2> DEFINE h == Head(Queue)
  <2>1. Queue # <<>> /\ \A u \in Threads : running[u] = {}
    BY <1>3 DEF RunCallback, OneTicket, NothingStranded, TicketHolders, RunnersRun
  <2>2. /\ Queue' = Tail(Queue) /\ UNCHANGED Dead
        /\ running' = [running EXCEPT ![t] = {h}]
        /\ status' = [status EXCEPT ![h] = "running"]
    BY <1>3, <2>1 DEF RunCallback
  <2>3. h \in Callbacks /\ status[h] = "queued"
    BY <2>1 DEF QueueDistinct
  <2>4. Executing = {}
    BY <2>1 DEF Executing
  <2>5. running'[t] = {h} /\ \A u \in Threads \ {t} : running'[u] = {}
    BY <2>1, <2>2
  <2>6. Executing' = {h}
    BY <2>5 DEF Executing
  <2>7. UNCHANGED <<alive, fate>>
    BY <2>2, <2>3 DEF Fate
  <2>8. Serial!Begin
    BY <2>1, <2>2, <2>4, <2>6, <2>7 DEF Serial!Begin
  <2> QED BY <2>8 DEF Serial!Next
<1>4. ASSUME NEW t \in Threads, EndCallback(t) PROVE [Serial!Next]_(Serial!vars)
  <2>1. PICK c \in Callbacks : running[t] = {c}
    BY <1>4 DEF EndCallback, RunnersRun
  <2>2. \A u \in Threads \ {t} : running[u] = {}
    BY <1>4 DEF EndCallback, OneTicket, TicketHolders, RunnersRun
  <2>3. /\ running' = [running EXCEPT ![t] = {}]
        /\ status' = [status EXCEPT ![c] = "finished"]
        /\ UNCHANGED <<Queue, Dead>>
    BY <1>4, <2>1 DEF EndCallback, lockVars
  <2>4. Executing = {c}
    BY <2>1, <2>2 DEF Executing
  <2>5. \A u \in Threads : running'[u] = {}
    BY <2>2, <2>3
  <2>6. Executing' = {}
    BY <2>5 DEF Executing
  <2>7. fate' = [fate EXCEPT ![c] = "executed"] /\ UNCHANGED alive
    BY <2>3 DEF Fate
  <2>8. Serial!End(c)
    BY <2>3, <2>4, <2>6, <2>7 DEF Serial!End
  <2> QED BY <2>8 DEF Serial!Next
<1>5. ASSUME NEW t \in Threads, Discard(t) PROVE [Serial!Next]_(Serial!vars)
  <2>1. /\ Queue' = <<>> /\ Dead' = "yes" /\ running' = running
        /\ status' = [c \in Callbacks |-> IF status[c] = "queued" THEN "dropped" ELSE status[c]]
    BY <1>5 DEF Discard
  <2>0. pc[t] = "discard" /\ t \in TicketHolders
    BY <1>5 DEF Discard, TicketHolders
  <2>2. CallbackScheduled = "yes" /\ \A u \in Threads : pc[u] # "run"
    <3>1. CallbackScheduled = "yes"
      BY <2>0 DEF OneTicket
    <3>2. ASSUME NEW u \in Threads, pc[u] = "run" PROVE FALSE
      BY <2>0, <3>2 DEF OneTicket, TicketHolders
    <3> QED BY <3>1, <3>2
  <2>3. Dead = "no"
    BY <2>2 DEF DeadIsQuiet
  <2>4. \A u \in Threads : running[u] = {}
    BY <2>2 DEF RunnersRun
  <2>5. Executing = {} /\ UNCHANGED Executing
    BY <2>1, <2>4 DEF Executing
  <2>6. \A c \in Callbacks : status[c] # "running"
    BY <2>4 DEF RunningHeld
  <2>7. fate' = [c \in Callbacks |-> IF fate[c] = "accepted" THEN "dropped" ELSE fate[c]]
    BY <2>1, <2>6 DEF Fate
  <2>8. Serial!Die
    BY <2>1, <2>3, <2>5, <2>7 DEF Serial!Die
  <2> QED BY <2>8 DEF Serial!Next
<1>6. ASSUME NEW t \in Threads, Post(t) \/ OnFinished(t) \/ DestroyTicket(t) PROVE [Serial!Next]_(Serial!vars)
  BY <1>2, <1>6 DEF Post, OnFinished, DestroyTicket, lockVars
<1>7. CASE Terminate
  BY <1>2, <1>7 DEF Terminate, lockVars
<1>8. CASE UNCHANGED vars
  BY <1>2, <1>8 DEF vars, lockVars
<1> QED BY <1>1, <1>3, <1>4, <1>5, <1>6, <1>7, <1>8 DEF Next

\* The serialized invoker implements the serial executor: callbacks are
\* executed one at a time and in the order of their Invoke calls, until the
\* invoker dies with what is left in its queue.
THEOREM Implements == Spec => ImplementsSerialExecutor
<1> QED BY InitMaps, StepMaps, Invariance, PTL DEF Spec, ImplementsSerialExecutor, Serial!Spec
=============================================================================
