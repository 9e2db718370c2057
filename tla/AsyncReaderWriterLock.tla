------------------------ MODULE AsyncReaderWriterLock ------------------------
(***************************************************************************)
(* TAsyncReaderWriterLock (yt/yt/core/concurrency/async_rw_lock.cpp): a    *)
(* lock whose acquire calls return futures.  A step is a section that      *)
(* holds SpinLock_, or the setting of one promise: WakeNext sets promises  *)
(* with the lock free, finds out only then that one was cancelled, and has *)
(* to take back what it granted.                                           *)
(*                                                                         *)
(* A client is one acquire call; its promise is named by the client.       *)
(***************************************************************************)
EXTENDS Integers, Sequences, FiniteSets

CONSTANTS
    Threads,    \* threads that call ReleaseReader and ReleaseWriter
    Readers,    \* calls of AcquireReader
    Writers     \* calls of AcquireWriter

ASSUME ClientsAssumption == IsFiniteSet(Readers) /\ Readers \cap Writers = {}

Clients == Readers \cup Writers

VARIABLES
    ActiveReaderCount,   \* ActiveReaderCount_
    HasActiveWriter,     \* HasActiveWriter_, "yes" or "no"
    ReaderQueue,         \* ReaderPromiseQueue_, emptied as a whole: a set
    WriterQueue,         \* WriterPromiseQueue_
    pc,                  \* pc[t]: where thread t is in WakeNext
    granted,             \* granted[t]: promises WakeNext has still to set
    dropped,             \* dropped[t]: readers it found cancelled
    status,              \* status[c]: what became of client c
    canceled             \* clients whose future was cancelled before it was set

lockVars == <<ActiveReaderCount, HasActiveWriter, ReaderQueue, WriterQueue>>
vars == <<lockVars, pc, granted, dropped, status, canceled>>

TypeOK ==
    /\ ActiveReaderCount \in Nat
    /\ HasActiveWriter \in {"yes", "no"}
    /\ ReaderQueue \subseteq Readers
    /\ WriterQueue \in Seq(Writers)
    /\ pc \in [Threads -> {"idle", "writer", "retry", "readers"}]
    /\ granted \in [Threads -> SUBSET Clients]
    /\ dropped \in [Threads -> SUBSET Readers]
    /\ status \in [Clients -> {"new", "waiting", "granting", "held", "dropped", "done"}]
    /\ canceled \subseteq Clients

Init ==
    /\ ActiveReaderCount = 0
    /\ HasActiveWriter = "no"
    /\ ReaderQueue = {}
    /\ WriterQueue = <<>>
    /\ pc = [t \in Threads |-> "idle"]
    /\ granted = [t \in Threads |-> {}]
    /\ dropped = [t \in Threads |-> {}]
    /\ status = [c \in Clients |-> "new"]
    /\ canceled = {}

-----------------------------------------------------------------------------
(* Acquiring.                                                              *)

\* Mutant: a reader does not wait behind waiting writers.
AcquireReaderBarging(r) ==
    /\ status[r] = "new"
    /\ IF HasActiveWriter = "no"
         THEN /\ ActiveReaderCount' = ActiveReaderCount + 1
              /\ status' = [status EXCEPT ![r] = "held"]
              /\ UNCHANGED ReaderQueue
         ELSE /\ ReaderQueue' = ReaderQueue \cup {r}
              /\ status' = [status EXCEPT ![r] = "waiting"]
              /\ UNCHANGED ActiveReaderCount
    /\ UNCHANGED <<HasActiveWriter, WriterQueue, pc, granted, dropped, canceled>>

AcquireReader(r) ==
    /\ status[r] = "new"
    /\ IF HasActiveWriter = "no" /\ WriterQueue = <<>>
         THEN /\ ActiveReaderCount' = ActiveReaderCount + 1
              /\ status' = [status EXCEPT ![r] = "held"]
              /\ UNCHANGED ReaderQueue
         ELSE /\ ReaderQueue' = ReaderQueue \cup {r}
              /\ status' = [status EXCEPT ![r] = "waiting"]
              /\ UNCHANGED ActiveReaderCount
    /\ UNCHANGED <<HasActiveWriter, WriterQueue, pc, granted, dropped, canceled>>

\* Mutant: a writer does not wait for the readers that are in.
AcquireWriterUnchecked(w) ==
    /\ status[w] = "new"
    /\ IF HasActiveWriter = "no"
         THEN /\ HasActiveWriter' = "yes"
              /\ status' = [status EXCEPT ![w] = "held"]
              /\ UNCHANGED WriterQueue
         ELSE /\ WriterQueue' = Append(WriterQueue, w)
              /\ status' = [status EXCEPT ![w] = "waiting"]
              /\ UNCHANGED HasActiveWriter
    /\ UNCHANGED <<ActiveReaderCount, ReaderQueue, pc, granted, dropped, canceled>>

AcquireWriter(w) ==
    /\ status[w] = "new"
    /\ IF ActiveReaderCount = 0 /\ HasActiveWriter = "no"
         THEN /\ HasActiveWriter' = "yes"
              /\ status' = [status EXCEPT ![w] = "held"]
              /\ UNCHANGED WriterQueue
         ELSE /\ WriterQueue' = Append(WriterQueue, w)
              /\ status' = [status EXCEPT ![w] = "waiting"]
              /\ UNCHANGED HasActiveWriter
    /\ UNCHANGED <<ActiveReaderCount, ReaderQueue, pc, granted, dropped, canceled>>

\* The future of a waiting client is cancelled; its promise stays queued.
Cancel(c) ==
    /\ status[c] \in {"waiting", "granting"}
    /\ c \notin canceled
    /\ canceled' = canceled \cup {c}
    /\ UNCHANGED <<lockVars, pc, granted, dropped, status>>

-----------------------------------------------------------------------------
(* WakeNext, up to the point where it lets the lock go.  On entry          *)
(* HasActiveWriter_ is false; active is the value of ActiveReaderCount_    *)
(* and st the status of the clients at that point.                         *)

WakeWriter(t, active, st) ==
    /\ WriterQueue # <<>>
    /\ WriterQueue' = Tail(WriterQueue)
    /\ HasActiveWriter' = "yes"
    /\ ActiveReaderCount' = active
    /\ pc' = [pc EXCEPT ![t] = "writer"]
    /\ granted' = [granted EXCEPT ![t] = {Head(WriterQueue)}]
    /\ status' = [st EXCEPT ![Head(WriterQueue)] = "granting"]
    /\ UNCHANGED ReaderQueue

WakeReaders(t, active, st) ==
    /\ WriterQueue = <<>>
    /\ ReaderQueue # {}
    /\ ReaderQueue' = {}
    /\ HasActiveWriter' = "no"
    /\ ActiveReaderCount' = active + Cardinality(ReaderQueue)
    /\ pc' = [pc EXCEPT ![t] = "readers"]
    /\ granted' = [granted EXCEPT ![t] = ReaderQueue]
    /\ status' = [c \in Clients |-> IF c \in ReaderQueue THEN "granting" ELSE st[c]]
    /\ UNCHANGED WriterQueue

WakeNobody(t, active, st) ==
    /\ WriterQueue = <<>>
    /\ ReaderQueue = {}
    /\ HasActiveWriter' = "no"
    /\ ActiveReaderCount' = active
    /\ pc' = [pc EXCEPT ![t] = "idle"]
    /\ status' = st
    /\ UNCHANGED <<ReaderQueue, WriterQueue, granted>>

WakeNext(t, active, st) == WakeWriter(t, active, st) \/ WakeReaders(t, active, st) \/ WakeNobody(t, active, st)

ReleaseWriter(t, w) ==
    /\ pc[t] = "idle"
    /\ status[w] = "held"
    /\ WakeNext(t, ActiveReaderCount, [status EXCEPT ![w] = "done"])
    /\ UNCHANGED <<dropped, canceled>>

\* promise.Set and the test of IsCanceled, for a writer.
SetWriter(t) ==
    /\ pc[t] = "writer"
    /\ \E w \in granted[t] :
         IF w \in canceled
           THEN /\ pc' = [pc EXCEPT ![t] = "retry"]
                /\ status' = [status EXCEPT ![w] = "done"]
           ELSE /\ pc' = [pc EXCEPT ![t] = "idle"]
                /\ status' = [status EXCEPT ![w] = "held"]
    /\ granted' = [granted EXCEPT ![t] = {}]
    /\ UNCHANGED <<lockVars, dropped, canceled>>

\* Mutant: a cancelled writer leaves HasActiveWriter_ set.
RetryWriterForgets(t) ==
    /\ pc[t] = "retry"
    /\ pc' = [pc EXCEPT ![t] = "idle"]
    /\ UNCHANGED <<lockVars, granted, dropped, status, canceled>>

\* The cancelled writer is taken back, and the loop looks for the next client.
RetryWriter(t) ==
    /\ pc[t] = "retry"
    /\ WakeNext(t, ActiveReaderCount, status)
    /\ UNCHANGED <<dropped, canceled>>

\* promise.Set and the test of IsCanceled, for one reader of the batch.
SetReader(t) ==
    /\ pc[t] = "readers"
    /\ \E r \in granted[t] :
         /\ granted' = [granted EXCEPT ![t] = @ \ {r}]
         /\ IF r \in canceled
              THEN /\ dropped' = [dropped EXCEPT ![t] = @ \cup {r}]
                   /\ status' = [status EXCEPT ![r] = "dropped"]
              ELSE /\ status' = [status EXCEPT ![r] = "held"]
                   /\ UNCHANGED dropped
    /\ UNCHANGED <<lockVars, pc, canceled>>

\* Mutant: the last reader leaves without waking anybody.
ReleaseReadersSilently(t, gone) ==
    /\ ActiveReaderCount' = ActiveReaderCount - Cardinality(gone)
    /\ pc' = [pc EXCEPT ![t] = "idle"]
    /\ status' = [c \in Clients |-> IF c \in gone THEN "done" ELSE status[c]]
    /\ UNCHANGED <<HasActiveWriter, ReaderQueue, WriterQueue, granted>>

\* Mutant: one reader too few is subtracted when several leave together.
ReleaseReadersOne(t, gone) ==
    LET st == [c \in Clients |-> IF c \in gone THEN "done" ELSE status[c]]
    IN IF ActiveReaderCount = 1
         THEN WakeNext(t, 0, st)
         ELSE /\ ActiveReaderCount' = ActiveReaderCount - 1
              /\ pc' = [pc EXCEPT ![t] = "idle"]
              /\ status' = st
              /\ UNCHANGED <<HasActiveWriter, ReaderQueue, WriterQueue, granted>>

\* ReleaseReaders: the readers of gone leave, the last one wakes the next.
ReleaseReaders(t, gone) ==
    LET st == [c \in Clients |-> IF c \in gone THEN "done" ELSE status[c]]
    IN IF ActiveReaderCount = Cardinality(gone)
         THEN WakeNext(t, 0, st)
         ELSE /\ ActiveReaderCount' = ActiveReaderCount - Cardinality(gone)
              /\ pc' = [pc EXCEPT ![t] = "idle"]
              /\ status' = st
              /\ UNCHANGED <<HasActiveWriter, ReaderQueue, WriterQueue, granted>>

ReleaseReader(t, r) ==
    /\ pc[t] = "idle"
    /\ status[r] = "held"
    /\ ReleaseReaders(t, {r})
    /\ UNCHANGED <<dropped, canceled>>

\* All readers of the batch are set: the cancelled ones are released.
EndReaders(t) ==
    /\ pc[t] = "readers"
    /\ granted[t] = {}
    /\ IF dropped[t] = {}
         THEN pc' = [pc EXCEPT ![t] = "idle"] /\ UNCHANGED <<lockVars, granted, status>>
         ELSE ReleaseReaders(t, dropped[t])
    /\ dropped' = [dropped EXCEPT ![t] = {}]
    /\ UNCHANGED canceled

-----------------------------------------------------------------------------

ThreadStep(t) == SetWriter(t) \/ RetryWriter(t) \/ SetReader(t) \/ EndReaders(t)

Next ==
    \/ \E r \in Readers : AcquireReader(r)
    \/ \E w \in Writers : AcquireWriter(w)
    \/ \E c \in Clients : Cancel(c)
    \/ \E t \in Threads :
         \/ \E r \in Readers : ReleaseReader(t, r)
         \/ \E w \in Writers : ReleaseWriter(t, w)
         \/ SetWriter(t)
         \/ RetryWriter(t)
         \/ SetReader(t)
         \/ EndReaders(t)

Spec == Init /\ [][Next]_vars

\* A thread in WakeNext keeps running, and a client that holds the lock
\* releases it sooner or later.
Fairness ==
    /\ \A t \in Threads : WF_vars(ThreadStep(t))
    /\ \A r \in Readers : WF_vars(\E t \in Threads : ReleaseReader(t, r))
    /\ \A w \in Writers : WF_vars(\E t \in Threads : ReleaseWriter(t, w))

FairSpec == Spec /\ Fairness

-----------------------------------------------------------------------------

Holds(c) == status[c] = "held"

\* A writer excludes everybody else, also across the grants that WakeNext
\* takes back from cancelled clients.
MutualExclusion ==
    \A w \in Writers : Holds(w) => \A c \in Clients \ {w} : ~Holds(c)

\* The readers the lock counts: granted, and not yet released or taken back.
ReaderOwners == {r \in Readers : status[r] \in {"granting", "held", "dropped"}}

\* The counter is exact at every moment, and readers and a writer are never
\* counted together: the YT_VERIFYs of ReleaseReaders, ReleaseWriter and
\* WakeNext rest on it.
CountsExact ==
    /\ ActiveReaderCount = Cardinality(ReaderOwners)
    /\ ActiveReaderCount > 0 => HasActiveWriter = "no"
    /\ \A w \in Writers : status[w] \in {"granting", "held"} => HasActiveWriter = "yes"

\* When nobody owns the lock, nobody waits for it.
NobodyStranded ==
    (ActiveReaderCount = 0 /\ HasActiveWriter = "no") => ReaderQueue = {} /\ WriterQueue = <<>>

\* A reader is not let in while a writer is left waiting.
WritersFirst ==
    [][(\E r \in Readers : status[r] \in {"new", "waiting"} /\ status'[r] \in {"granting", "held"})
           => WriterQueue' = <<>>]_vars

\* Under fair threads and clients everyone who waits gets the lock, or has
\* cancelled.
EveryoneServed ==
    \A c \in Clients : status[c] = "waiting" ~> status[c] \in {"held", "done"}
=============================================================================
