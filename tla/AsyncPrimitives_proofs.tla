----------------------- MODULE AsyncPrimitives_proofs -----------------------
(***************************************************************************)
(* Proofs about the two lock-protected primitives of yt/core/concurrency   *)
(* that hand out futures: AsyncReaderWriterLock, for any threads, any      *)
(* finite number of readers and any writers, and in the second part        *)
(* AsyncBarrier, for any threads, items and calls.  The two share nothing. *)
(***************************************************************************)
EXTENDS AsyncReaderWriterLock, AsyncBarrier, FiniteSetTheorems, TLAPS

Statuses == {"new", "waiting", "granting", "held", "dropped", "done"}

-----------------------------------------------------------------------------
(* The inductive invariant of the lock.                                    *)

\* The queues hold clients that wait: all readers that do, and no writer twice.
QueuesMatch ==
    /\ ReaderQueue = {r \in Readers : status[r] = "waiting"}
    /\ \A i \in 1..Len(WriterQueue) : status[WriterQueue[i]] = "waiting"
    /\ \A i, j \in 1..Len(WriterQueue) : WriterQueue[i] = WriterQueue[j] => i = j

\* What thread t has at hand in WakeNext.
HandMatches(t) ==
    /\ pc[t] = "writer" => \E w \in Writers : granted[t] = {w}
    /\ pc[t] = "readers" => granted[t] \subseteq Readers
    /\ pc[t] \in {"idle", "retry"} => granted[t] = {}
    /\ pc[t] # "readers" => dropped[t] = {}
    /\ \A c \in granted[t] : status[c] = "granting"
    /\ \A r \in dropped[t] : status[r] = "dropped"

\* No promise is in the hands of two threads.
HandsDisjoint ==
    \A t, u \in Threads : t # u => granted[t] \cap granted[u] = {} /\ dropped[t] \cap dropped[u] = {}

Owns(w) == status[w] \in {"granting", "held"}

\* The lock of a writer is a token: one writer has it, or one thread that has
\* still to take it back from a cancelled writer.
OneWriter ==
    /\ \A v, w \in Writers : Owns(v) /\ Owns(w) => v = w
    /\ \A t, u \in Threads : pc[t] = "retry" /\ pc[u] = "retry" => t = u
    /\ \A t \in Threads : pc[t] = "retry" => HasActiveWriter = "yes" /\ \A w \in Writers : ~Owns(w)

IInv ==
    /\ TypeOK
    /\ QueuesMatch
    /\ \A t \in Threads : HandMatches(t)
    /\ HandsDisjoint
    /\ OneWriter
    /\ CountsExact
    /\ NobodyStranded

-----------------------------------------------------------------------------
(* WakeNext.                                                               *)

\* The readers counted are finite in number.
LEMMA OwnersFinite == IsFiniteSet(ReaderOwners) /\ Cardinality(ReaderOwners) \in Nat
BY ClientsAssumption, FS_Subset, FS_CardinalityType DEF ReaderOwners

\* A lock that nobody owns: no reader is counted, no writer has the token and
\* no thread has a promise at hand.  st is the status of the clients.
Unowned(t, st) ==
    /\ st \in [Clients -> Statuses]
    /\ \A r \in Readers : st[r] \notin {"granting", "held", "dropped"}
    /\ \A w \in Writers : st[w] \notin {"granting", "held"}
    /\ \A c \in Clients : st[c] = "waiting" <=> status[c] = "waiting"
    /\ \A u \in Threads : granted[u] = {}
    /\ \A u \in Threads \ {t} : pc[u] \in {"idle", "readers"}

\* WakeNext of a lock that nobody owns establishes the invariant: it gives the
\* lock to the next writer, to all readers, or to nobody if nobody waits.
LEMMA WakeNextKeeps ==
    ASSUME TypeOK, QueuesMatch, NEW t \in Threads, NEW st, Unowned(t, st),
           dropped' \in [Threads -> SUBSET Readers], \A u \in Threads : dropped'[u] = {},
           canceled' = canceled,
           WakeNext(t, 0, st)
    PROVE  IInv'
<1> USE ClientsAssumption DEF Clients, Statuses
<1>1. CASE WakeWriter(t, 0, st)
  <2> DEFINE w == Head(WriterQueue)
  <2>1. /\ WriterQueue # <<>> /\ WriterQueue \in Seq(Writers)
        /\ w \in Writers /\ w = WriterQueue[1] /\ status[w] = "waiting"
        /\ Tail(WriterQueue) \in Seq(Writers)
        /\ Len(Tail(WriterQueue)) = Len(WriterQueue) - 1
        /\ \A i \in 1..Len(Tail(WriterQueue)) : Tail(WriterQueue)[i] = WriterQueue[i + 1]
    BY <1>1 DEF WakeWriter, TypeOK, QueuesMatch
  <2>2. /\ WriterQueue' = Tail(WriterQueue)
        /\ HasActiveWriter' = "yes" /\ ActiveReaderCount' = 0
        /\ pc' = [pc EXCEPT ![t] = "writer"]
        /\ granted' = [granted EXCEPT ![t] = {w}]
        /\ status' = [st EXCEPT ![w] = "granting"]
        /\ ReaderQueue' = ReaderQueue
    BY <1>1 DEF WakeWriter
  <2> HIDE DEF w
  <2>3. TypeOK'
    BY <2>1, <2>2 DEF TypeOK, Unowned
  <2>4. QueuesMatch'
    <3>1. ReaderQueue' = {r \in Readers : status'[r] = "waiting"}
      BY <2>1, <2>2 DEF Unowned, QueuesMatch, TypeOK
    <3>2. \A i \in 1..Len(WriterQueue') : /\ i + 1 \in 1..Len(WriterQueue)
                                          /\ WriterQueue'[i] = WriterQueue[i + 1]
                                          /\ WriterQueue[i + 1] \in Writers
                                          /\ status[WriterQueue[i + 1]] = "waiting"
                                          /\ WriterQueue[i + 1] # w
      BY <2>1, <2>2 DEF QueuesMatch
    <3>3. \A i \in 1..Len(WriterQueue') : status'[WriterQueue'[i]] = "waiting"
      BY <3>2, <2>2, <2>1 DEF Unowned
    <3>4. \A i, j \in 1..Len(WriterQueue') : WriterQueue'[i] = WriterQueue'[j] => i = j
      BY <3>2, <2>1, <2>2 DEF QueuesMatch
    <3> QED BY <3>1, <3>3, <3>4 DEF QueuesMatch
  <2>5. ASSUME NEW u \in Threads PROVE HandMatches(u)'
    BY <2>1, <2>2 DEF Unowned, HandMatches, TypeOK
  <2>6. HandsDisjoint'
    BY <2>2 DEF HandsDisjoint, Unowned, TypeOK
  <2>7. OneWriter'
    BY <2>1, <2>2 DEF OneWriter, Owns, Unowned, TypeOK
  <2>8. CountsExact'
    <3>1. ReaderOwners' = {}
      BY <2>1, <2>2 DEF ReaderOwners, Unowned
    <3> QED BY <3>1, <2>2, FS_EmptySet DEF CountsExact
  <2>9. NobodyStranded'
    BY <2>2 DEF NobodyStranded
  <2> QED BY <2>3, <2>4, <2>5, <2>6, <2>7, <2>8, <2>9 DEF IInv
<1>2. CASE WakeReaders(t, 0, st)
  <2>1. /\ WriterQueue = <<>> /\ WriterQueue' = <<>>
        /\ ReaderQueue # {} /\ ReaderQueue' = {}
        /\ HasActiveWriter' = "no" /\ ActiveReaderCount' = 0 + Cardinality(ReaderQueue)
        /\ pc' = [pc EXCEPT ![t] = "readers"]
        /\ granted' = [granted EXCEPT ![t] = ReaderQueue]
        /\ status' = [c \in Clients |-> IF c \in ReaderQueue THEN "granting" ELSE st[c]]
    BY <1>2 DEF WakeReaders
  <2>2. ReaderQueue \subseteq Readers
    BY DEF TypeOK
  <2>3. IsFiniteSet(ReaderQueue) /\ Cardinality(ReaderQueue) \in Nat
    BY <2>2, FS_Subset, FS_CardinalityType
  <2>4. ActiveReaderCount' = Cardinality(ReaderQueue)
    BY <2>1, <2>3
  <2>5. ActiveReaderCount' # 0
    BY <2>1, <2>3, <2>4, FS_EmptySet
  <2>6. TypeOK'
    BY <2>1, <2>2, <2>3, <2>4 DEF TypeOK, Unowned
  <2>7. QueuesMatch'
    BY <2>1 DEF QueuesMatch, Unowned
  <2>8. ASSUME NEW u \in Threads PROVE HandMatches(u)'
    BY <2>1, <2>2 DEF Unowned, HandMatches, TypeOK
  <2>9. HandsDisjoint'
    BY <2>1 DEF HandsDisjoint, Unowned, TypeOK
  <2>10. OneWriter'
    BY <2>1, <2>2 DEF OneWriter, Owns, Unowned, TypeOK
  <2>11. CountsExact'
    <3>1. ReaderOwners' = ReaderQueue
      BY <2>1, <2>2 DEF ReaderOwners, Unowned
    <3>2. \A w \in Writers : status'[w] \notin {"granting", "held"}
      BY <2>1, <2>2 DEF Unowned
    <3> QED BY <3>1, <3>2, <2>1, <2>4 DEF CountsExact
  <2>12. NobodyStranded'
    BY <2>5 DEF NobodyStranded
  <2> QED BY <2>6, <2>7, <2>8, <2>9, <2>10, <2>11, <2>12 DEF IInv
<1>3. CASE WakeNobody(t, 0, st)
  <2>1. /\ WriterQueue = <<>> /\ WriterQueue' = <<>>
        /\ ReaderQueue = {} /\ ReaderQueue' = {}
        /\ HasActiveWriter' = "no" /\ ActiveReaderCount' = 0
        /\ pc' = [pc EXCEPT ![t] = "idle"]
        /\ granted' = granted /\ status' = st
    BY <1>3 DEF WakeNobody
  <2>2. TypeOK'
    BY <2>1 DEF TypeOK, Unowned
  <2>3. QueuesMatch'
    BY <2>1 DEF QueuesMatch, Unowned
  <2>4. ASSUME NEW u \in Threads PROVE HandMatches(u)'
    BY <2>1 DEF Unowned, HandMatches, TypeOK
  <2>5. HandsDisjoint'
    BY <2>1 DEF HandsDisjoint, Unowned, TypeOK
  <2>6. OneWriter'
    BY <2>1 DEF OneWriter, Owns, Unowned, TypeOK
  <2>7. CountsExact'
    <3>1. ReaderOwners' = {}
      BY <2>1 DEF ReaderOwners, Unowned
    <3> QED BY <3>1, <2>1, FS_EmptySet DEF CountsExact, Unowned
  <2>8. NobodyStranded'
    BY <2>1 DEF NobodyStranded
  <2> QED BY <2>2, <2>3, <2>4, <2>5, <2>6, <2>7, <2>8 DEF IInv
<1> QED BY <1>1, <1>2, <1>3 DEF WakeNext

-----------------------------------------------------------------------------
(* The steps.                                                              *)

\* Without readers counted nobody is a reader who owns the lock.
LEMMA NoOwners ==
    ASSUME CountsExact, ActiveReaderCount = 0
    PROVE  \A r \in Readers : status[r] \notin {"granting", "held", "dropped"}
<1>1. ReaderOwners = {}
  BY OwnersFinite, FS_EmptySet DEF CountsExact
<1> QED BY <1>1 DEF ReaderOwners

\* A lock whose writer leaves, or is taken back, is owned by nobody.
LEMMA WriterLeaves ==
    ASSUME IInv, NEW t \in Threads, NEW st \in [Clients -> Statuses],
           HasActiveWriter = "yes",
           \A r \in Readers : st[r] = status[r],
           \A w \in Writers : st[w] \notin {"granting", "held"},
           \A w \in Writers : st[w] = "waiting" <=> status[w] = "waiting",
           pc[t] \in {"idle", "retry"},
           \A u \in Threads \ {t} : pc[u] \notin {"writer", "retry"}
    PROVE  /\ ActiveReaderCount = 0
           /\ Unowned(t, st)
           /\ \A u \in Threads : dropped[u] = {}
<1> USE ClientsAssumption DEF Clients, Statuses
<1>1. ActiveReaderCount = 0
  BY DEF IInv, CountsExact, TypeOK
<1>2. \A r \in Readers : status[r] \notin {"granting", "held", "dropped"}
  BY <1>1, NoOwners DEF IInv
<1>3. \A u \in Threads : dropped[u] = {}
  BY <1>2 DEF IInv, HandMatches, TypeOK
<1>4. \A u \in Threads : granted[u] = {}
  <2> TAKE u \in Threads
  <2>1. CASE u = t
    BY <2>1 DEF IInv, HandMatches
  <2>2. CASE pc[u] = "readers"
    BY <2>2, <1>2 DEF IInv, HandMatches
  <2>3. pc[u] \in {"idle", "writer", "retry", "readers"}
    BY DEF IInv, TypeOK
  <2> QED BY <2>1, <2>2, <2>3 DEF IInv, HandMatches
<1>5. \A u \in Threads \ {t} : pc[u] \in {"idle", "readers"}
  BY DEF IInv, TypeOK
<1> QED BY <1>1, <1>2, <1>3, <1>4, <1>5 DEF Unowned

\* Readers that leave take exactly their number off the count; the last of them
\* leaves a lock that nobody owns, and wakes the next client.
LEMMA ReadersLeave ==
    ASSUME IInv, NEW t \in Threads, NEW gone \in SUBSET Readers,
           gone # {}, \A r \in gone : status[r] \in {"held", "dropped"},
           \A u \in Threads \ {t} : dropped[u] \cap gone = {},
           pc[t] \in {"idle", "readers"}, granted[t] = {},
           dropped' = [dropped EXCEPT ![t] = {}], canceled' = canceled,
           ReleaseReaders(t, gone)
    PROVE  IInv'
<1> DEFINE st == [c \in Clients |-> IF c \in gone THEN "done" ELSE status[c]]
<1> USE ClientsAssumption DEF Clients, Statuses
<1>1. gone \subseteq ReaderOwners
  BY DEF ReaderOwners
<1>2. /\ IsFiniteSet(gone) /\ Cardinality(gone) \in Nat /\ Cardinality(gone) # 0
      /\ Cardinality(gone) <= ActiveReaderCount
      /\ ActiveReaderCount = Cardinality(gone) => ReaderOwners = gone
  <2>1. IsFiniteSet(ReaderOwners) /\ ActiveReaderCount = Cardinality(ReaderOwners)
    BY OwnersFinite DEF IInv, CountsExact
  <2>2. IsFiniteSet(gone) /\ Cardinality(gone) <= Cardinality(ReaderOwners)
    BY <1>1, <2>1, FS_Subset
  <2>3. Cardinality(ReaderOwners) = Cardinality(gone) => ReaderOwners = gone
    BY <1>1, <2>1, FS_Subset
  <2>4. Cardinality(gone) \in Nat /\ Cardinality(gone) # 0
    BY <2>2, FS_CardinalityType, FS_EmptySet
  <2> QED BY <2>1, <2>2, <2>3, <2>4
<1>3. HasActiveWriter = "no"
  BY <1>2 DEF IInv, CountsExact, TypeOK
<1>4. \A w \in Writers : status[w] \notin {"granting", "held"}
  BY <1>3 DEF IInv, CountsExact
<1>5. \A u \in Threads : pc[u] \in {"idle", "readers"}
  <2> TAKE u \in Threads
  <2>1. pc[u] # "retry"
    BY <1>3 DEF IInv, OneWriter
  <2>2. pc[u] # "writer"
    BY <1>4 DEF IInv, HandMatches
  <2> QED BY <2>1, <2>2 DEF IInv, TypeOK
<1>6. /\ st \in [Clients -> Statuses]
      /\ \A c \in Clients : st[c] = "waiting" <=> status[c] = "waiting"
  BY DEF IInv, TypeOK
<1>7. dropped' \in [Threads -> SUBSET Readers]
  BY DEF IInv, TypeOK
<1>8. CASE ActiveReaderCount = Cardinality(gone)
  <2>1. \A r \in Readers : r \notin gone => status[r] \notin {"granting", "held", "dropped"}
    BY <1>2, <1>8 DEF ReaderOwners
  <2>2. \A u \in Threads : granted[u] = {}
    <3> TAKE u \in Threads
    <3>1. \A c \in granted[u] : c \in Readers /\ status[c] = "granting"
      BY <1>5 DEF IInv, HandMatches
    <3> QED BY <3>1, <2>1
  <2>3. \A u \in Threads : dropped'[u] = {}
    <3> TAKE u \in Threads
    <3>1. \A c \in dropped[u] : c \in Readers /\ status[c] = "dropped"
      BY DEF IInv, HandMatches, TypeOK
    <3> QED BY <3>1, <2>1 DEF IInv, TypeOK
  <2>4. Unowned(t, st)
    BY <1>4, <1>5, <1>6, <2>1, <2>2 DEF Unowned
  <2>5. WakeNext(t, 0, st)
    BY <1>8 DEF ReleaseReaders
  <2> HIDE DEF st
  <2> QED BY <1>7, <2>3, <2>4, <2>5, WakeNextKeeps DEF IInv
<1>9. CASE ActiveReaderCount # Cardinality(gone)
  <2>1. /\ ActiveReaderCount' = ActiveReaderCount - Cardinality(gone)
        /\ pc' = [pc EXCEPT ![t] = "idle"]
        /\ status' = st
        /\ UNCHANGED <<HasActiveWriter, ReaderQueue, WriterQueue, granted>>
    BY <1>9 DEF ReleaseReaders
  <2>2. ActiveReaderCount' \in Nat /\ ActiveReaderCount' # 0
    BY <1>2, <1>9, <2>1 DEF IInv, TypeOK
  <2>3. TypeOK'
    BY <1>6, <1>7, <2>1, <2>2 DEF IInv, TypeOK
  <2>4. QueuesMatch'
    <3>1. \A i \in 1..Len(WriterQueue) : WriterQueue[i] \in Writers
      BY DEF IInv, TypeOK
    <3> QED BY <1>6, <2>1, <3>1 DEF IInv, QueuesMatch
  <2>5. ASSUME NEW u \in Threads PROVE HandMatches(u)'
    <3>1. CASE u = t
      BY <3>1, <2>1 DEF IInv, TypeOK, HandMatches
    <3>2. CASE u # t
      <4>1. \A c \in granted[u] : c \in Clients /\ status[c] = "granting" /\ c \notin gone
        BY DEF IInv, HandMatches, TypeOK
      <4>2. \A c \in dropped[u] : c \in Clients /\ status[c] = "dropped" /\ c \notin gone
        BY <3>2 DEF IInv, HandMatches, TypeOK
      <4> QED BY <3>2, <4>1, <4>2, <2>1 DEF IInv, TypeOK, HandMatches
    <3> QED BY <3>1, <3>2
  <2>6. HandsDisjoint'
    BY <2>1 DEF IInv, TypeOK, HandsDisjoint
  <2>7. OneWriter'
    BY <1>3, <1>4, <1>5, <2>1 DEF IInv, TypeOK, OneWriter, Owns
  <2>8. CountsExact'
    <3>1. ReaderOwners' = ReaderOwners \ gone
      BY <2>1 DEF ReaderOwners
    <3>2. ReaderOwners \cap gone = gone
      BY <1>1
    <3>3. Cardinality(ReaderOwners') = Cardinality(ReaderOwners) - Cardinality(gone)
      BY <3>1, <3>2, OwnersFinite, FS_Difference
    <3> QED BY <1>3, <1>4, <2>1, <3>3 DEF IInv, CountsExact
  <2>9. NobodyStranded'
    BY <2>2 DEF NobodyStranded
  <2> QED BY <2>3, <2>4, <2>5, <2>6, <2>7, <2>8, <2>9 DEF IInv
<1> QED BY <1>8, <1>9

\* A reader gets the lock at once or waits.
LEMMA AcquireReaderStep == ASSUME IInv, NEW r \in Readers, AcquireReader(r) PROVE IInv'
<1> USE ClientsAssumption DEF Clients
<1>1. /\ status[r] = "new" /\ r \notin ReaderOwners
      /\ UNCHANGED <<HasActiveWriter, WriterQueue, pc, granted, dropped, canceled>>
  BY DEF AcquireReader, ReaderOwners
<1>2. \A i \in 1..Len(WriterQueue) : WriterQueue[i] \in Writers
  BY DEF IInv, TypeOK
<1>3. PICK s \in {"held", "waiting"} : status' = [status EXCEPT ![r] = s]
  BY DEF AcquireReader
<1>4. /\ \A u \in Threads : HandMatches(u)'
      /\ HandsDisjoint'
      /\ OneWriter'
  <2>1. \A u \in Threads : r \notin granted[u] /\ r \notin dropped[u]
    BY <1>1 DEF IInv, HandMatches
  <2>2. ASSUME NEW u \in Threads PROVE HandMatches(u)'
    BY <1>1, <1>3, <2>1 DEF IInv, HandMatches, TypeOK
  <2>3. \A w \in Writers : status'[w] = status[w]
    BY <1>3 DEF IInv, TypeOK
  <2> QED BY <1>1, <2>2, <2>3 DEF IInv, HandsDisjoint, OneWriter, Owns
<1>5. CASE HasActiveWriter = "no" /\ WriterQueue = <<>>
  <2>1. /\ ActiveReaderCount' = ActiveReaderCount + 1
        /\ status' = [status EXCEPT ![r] = "held"]
        /\ ReaderQueue' = ReaderQueue
    BY <1>5 DEF AcquireReader
  <2>2. TypeOK'
    BY <1>1, <2>1 DEF IInv, TypeOK
  <2>3. QueuesMatch'
    BY <1>1, <1>2, <2>1 DEF IInv, TypeOK, QueuesMatch
  <2>4. CountsExact'
    <3>1. ReaderOwners' = ReaderOwners \cup {r}
      BY <2>1 DEF IInv, TypeOK, ReaderOwners
    <3>2. Cardinality(ReaderOwners') = Cardinality(ReaderOwners) + 1
      BY <1>1, <3>1, OwnersFinite, FS_AddElement
    <3> QED BY <1>1, <1>5, <2>1, <3>2 DEF IInv, TypeOK, CountsExact
  <2>5. NobodyStranded'
    BY <2>1 DEF IInv, TypeOK, NobodyStranded
  <2> QED BY <1>4, <2>2, <2>3, <2>4, <2>5 DEF IInv
<1>6. CASE ~(HasActiveWriter = "no" /\ WriterQueue = <<>>)
  <2>1. /\ ReaderQueue' = ReaderQueue \cup {r}
        /\ status' = [status EXCEPT ![r] = "waiting"]
        /\ ActiveReaderCount' = ActiveReaderCount
    BY <1>6 DEF AcquireReader
  <2>2. TypeOK'
    BY <1>1, <2>1 DEF IInv, TypeOK
  <2>3. QueuesMatch'
    <3>1. ReaderQueue' = {q \in Readers : status'[q] = "waiting"}
      BY <2>1 DEF IInv, TypeOK, QueuesMatch
    <3> QED BY <1>1, <1>2, <2>1, <3>1 DEF IInv, TypeOK, QueuesMatch
  <2>4. CountsExact'
    <3>1. ReaderOwners' = ReaderOwners
      BY <1>1, <2>1 DEF IInv, TypeOK, ReaderOwners
    <3> QED BY <1>1, <2>1, <3>1 DEF IInv, TypeOK, CountsExact
  <2>5. NobodyStranded'
    BY <1>1, <1>6, <2>1 DEF IInv, TypeOK, NobodyStranded
  <2> QED BY <1>4, <2>2, <2>3, <2>4, <2>5 DEF IInv
<1> QED BY <1>5, <1>6

\* A writer gets the lock at once or waits.
LEMMA AcquireWriterStep == ASSUME IInv, NEW w \in Writers, AcquireWriter(w) PROVE IInv'
<1> USE ClientsAssumption DEF Clients
<1>1. /\ status[w] = "new"
      /\ UNCHANGED <<ActiveReaderCount, ReaderQueue, pc, granted, dropped, canceled>>
  BY DEF AcquireWriter
<1>2. \A i \in 1..Len(WriterQueue) : WriterQueue[i] \in Writers /\ WriterQueue[i] # w
  BY <1>1 DEF IInv, TypeOK, QueuesMatch
<1>3. PICK s \in {"held", "waiting"} : status' = [status EXCEPT ![w] = s]
  BY DEF AcquireWriter
<1>4. /\ \A r \in Readers : status'[r] = status[r]
      /\ ReaderOwners' = ReaderOwners
  BY <1>3 DEF IInv, TypeOK, ReaderOwners
<1>5. ASSUME NEW u \in Threads PROVE HandMatches(u)'
  <2>1. w \notin granted[u] /\ w \notin dropped[u]
    BY <1>1 DEF IInv, HandMatches
  <2> QED BY <1>1, <1>3, <2>1 DEF IInv, HandMatches, TypeOK
<1>6. HandsDisjoint'
  BY <1>1 DEF IInv, HandsDisjoint
<1>7. CASE ActiveReaderCount = 0 /\ HasActiveWriter = "no"
  <2>1. /\ HasActiveWriter' = "yes"
        /\ status' = [status EXCEPT ![w] = "held"]
        /\ WriterQueue' = WriterQueue
    BY <1>7 DEF AcquireWriter
  <2>2. TypeOK'
    BY <1>1, <2>1 DEF IInv, TypeOK
  <2>3. QueuesMatch'
    BY <1>1, <1>2, <1>4, <2>1 DEF IInv, TypeOK, QueuesMatch
  <2>4. OneWriter'
    BY <1>1, <1>7, <2>1 DEF IInv, TypeOK, OneWriter, Owns, CountsExact
  <2>5. CountsExact'
    BY <1>1, <1>4, <1>7, <2>1 DEF IInv, TypeOK, CountsExact
  <2>6. NobodyStranded'
    BY <2>1 DEF NobodyStranded
  <2> QED BY <1>5, <1>6, <2>2, <2>3, <2>4, <2>5, <2>6 DEF IInv
<1>8. CASE ~(ActiveReaderCount = 0 /\ HasActiveWriter = "no")
  <2>1. /\ WriterQueue' = Append(WriterQueue, w)
        /\ status' = [status EXCEPT ![w] = "waiting"]
        /\ HasActiveWriter' = HasActiveWriter
    BY <1>8 DEF AcquireWriter
  <2>2. /\ WriterQueue' \in Seq(Writers) /\ Len(WriterQueue') = Len(WriterQueue) + 1
        /\ \A i \in 1..Len(WriterQueue') :
             WriterQueue'[i] = IF i \in 1..Len(WriterQueue) THEN WriterQueue[i] ELSE w
    BY <2>1 DEF IInv, TypeOK
  <2>3. TypeOK'
    BY <1>1, <2>1, <2>2 DEF IInv, TypeOK
  <2>4. QueuesMatch'
    <3>1. ReaderQueue' = {q \in Readers : status'[q] = "waiting"}
      BY <1>1, <1>4 DEF IInv, QueuesMatch
    <3>2. \A i \in 1..Len(WriterQueue') : status'[WriterQueue'[i]] = "waiting"
      BY <1>2, <2>1, <2>2 DEF IInv, TypeOK, QueuesMatch
    <3>3. \A i, j \in 1..Len(WriterQueue') : WriterQueue'[i] = WriterQueue'[j] => i = j
      <4>1. Len(WriterQueue) \in Nat
        BY DEF IInv, TypeOK
      <4> QED BY <1>2, <2>2, <4>1 DEF IInv, QueuesMatch
    <3> QED BY <3>1, <3>2, <3>3 DEF QueuesMatch
  <2>5. OneWriter'
    BY <1>1, <2>1 DEF IInv, TypeOK, OneWriter, Owns
  <2>6. CountsExact'
    BY <1>1, <1>4, <2>1 DEF IInv, TypeOK, CountsExact
  <2>7. NobodyStranded'
    BY <1>1, <1>8, <2>1 DEF NobodyStranded
  <2> QED BY <1>5, <1>6, <2>3, <2>4, <2>5, <2>6, <2>7 DEF IInv
<1> QED BY <1>7, <1>8

\* The promise of a writer is set; a cancelled writer leaves the token with the
\* thread.
LEMMA SetWriterStep == ASSUME IInv, NEW t \in Threads, SetWriter(t) PROVE IInv'
<1> USE ClientsAssumption DEF Clients
<1>1. PICK w \in Writers : granted[t] = {w} /\ status[w] = "granting"
  BY DEF SetWriter, IInv, HandMatches
<1>2. /\ pc[t] = "writer"
      /\ granted' = [granted EXCEPT ![t] = {}]
      /\ UNCHANGED <<ActiveReaderCount, HasActiveWriter, ReaderQueue, WriterQueue, dropped, canceled>>
      /\ \/ pc' = [pc EXCEPT ![t] = "retry"] /\ status' = [status EXCEPT ![w] = "done"]
         \/ pc' = [pc EXCEPT ![t] = "idle"] /\ status' = [status EXCEPT ![w] = "held"]
  BY <1>1 DEF SetWriter, lockVars
<1>3. HasActiveWriter = "yes"
  BY <1>1 DEF IInv, CountsExact
<1>4. \A r \in Readers : status'[r] = status[r]
  BY <1>2 DEF IInv, TypeOK
<1>5. TypeOK'
  BY <1>2 DEF IInv, TypeOK
<1>6. QueuesMatch'
  <2>1. \A i \in 1..Len(WriterQueue) : WriterQueue[i] \in Writers /\ WriterQueue[i] # w
    BY <1>1 DEF IInv, TypeOK, QueuesMatch
  <2>2. ReaderQueue' = {r \in Readers : status'[r] = "waiting"}
    BY <1>2, <1>4 DEF IInv, QueuesMatch
  <2>3. \A i \in 1..Len(WriterQueue) : status'[WriterQueue[i]] = status[WriterQueue[i]]
    BY <1>2, <2>1 DEF IInv, TypeOK
  <2>4. WriterQueue' = WriterQueue
    BY <1>2
  <2> QED BY <2>2, <2>3, <2>4 DEF IInv, QueuesMatch
<1>7. ASSUME NEW u \in Threads PROVE HandMatches(u)'
  <2>1. CASE u = t
    BY <1>2, <2>1 DEF IInv, TypeOK, HandMatches
  <2>2. CASE u # t
    <3>1. w \notin granted[u] /\ w \notin dropped[u]
      BY <1>1, <2>2 DEF IInv, HandsDisjoint, HandMatches
    <3> QED BY <1>2, <2>2, <3>1 DEF IInv, TypeOK, HandMatches
  <2> QED BY <2>1, <2>2
<1>8. HandsDisjoint'
  BY <1>2 DEF IInv, TypeOK, HandsDisjoint
<1>9. OneWriter'
  <2>1. \A v \in Writers : Owns(v) => v = w
    BY <1>1 DEF IInv, OneWriter, Owns
  <2>2. \A u \in Threads : pc[u] # "retry"
    BY <1>1 DEF IInv, OneWriter, Owns
  <2> QED BY <1>2, <1>3, <2>1, <2>2 DEF IInv, TypeOK, OneWriter, Owns
<1>10. CountsExact'
  <2>1. ReaderOwners' = ReaderOwners
    BY <1>4 DEF ReaderOwners
  <2> QED BY <1>2, <1>3, <2>1 DEF IInv, CountsExact
<1>11. NobodyStranded'
  BY <1>2, <1>3 DEF NobodyStranded
<1> QED BY <1>5, <1>6, <1>7, <1>8, <1>9, <1>10, <1>11 DEF IInv

\* The promise of a reader is set; a cancelled one stays counted until the end
\* of the batch.
LEMMA SetReaderStep == ASSUME IInv, NEW t \in Threads, SetReader(t) PROVE IInv'
<1> USE ClientsAssumption DEF Clients
<1>1. PICK r \in granted[t] :
        /\ granted' = [granted EXCEPT ![t] = @ \ {r}]
        /\ \/ dropped' = [dropped EXCEPT ![t] = @ \cup {r}] /\ status' = [status EXCEPT ![r] = "dropped"]
           \/ status' = [status EXCEPT ![r] = "held"] /\ dropped' = dropped
  BY DEF SetReader
<1>2. /\ pc[t] = "readers"
      /\ UNCHANGED <<ActiveReaderCount, HasActiveWriter, ReaderQueue, WriterQueue, pc, canceled>>
  BY DEF SetReader, lockVars
<1>3. r \in Readers /\ status[r] = "granting"
  BY <1>2 DEF IInv, HandMatches
<1>4. \A w \in Writers : status'[w] = status[w]
  BY <1>1, <1>3 DEF IInv, TypeOK
<1>5. TypeOK'
  BY <1>1, <1>2, <1>3 DEF IInv, TypeOK
<1>6. QueuesMatch'
  <2>1. \A i \in 1..Len(WriterQueue) : WriterQueue[i] \in Writers
    BY DEF IInv, TypeOK
  <2>2. {q \in Readers : status'[q] = "waiting"} = {q \in Readers : status[q] = "waiting"}
    BY <1>1, <1>3 DEF IInv, TypeOK
  <2> QED BY <1>2, <1>4, <2>1, <2>2 DEF IInv, QueuesMatch
<1>7. ASSUME NEW u \in Threads PROVE HandMatches(u)'
  <2>1. r \notin dropped[u]
    BY <1>3 DEF IInv, HandMatches
  <2>2. CASE u = t
    BY <1>1, <1>2, <1>3, <2>1, <2>2 DEF IInv, TypeOK, HandMatches
  <2>3. CASE u # t
    <3>1. r \notin granted[u]
      BY <2>3 DEF IInv, HandsDisjoint
    <3> QED BY <1>1, <1>2, <2>1, <2>3, <3>1 DEF IInv, TypeOK, HandMatches
  <2> QED BY <2>2, <2>3
<1>8. HandsDisjoint'
  <2>1. \A u \in Threads : r \notin dropped[u]
    BY <1>3 DEF IInv, HandMatches
  <2> QED BY <1>1, <2>1 DEF IInv, TypeOK, HandsDisjoint
<1>9. OneWriter'
  BY <1>2, <1>4 DEF IInv, OneWriter, Owns
<1>10. CountsExact'
  <2>1. ReaderOwners' = ReaderOwners
    BY <1>1, <1>3 DEF IInv, TypeOK, ReaderOwners
  <2> QED BY <1>2, <1>4, <2>1 DEF IInv, CountsExact
<1>11. NobodyStranded'
  BY <1>2 DEF IInv, NobodyStranded
<1> QED BY <1>5, <1>6, <1>7, <1>8, <1>9, <1>10, <1>11 DEF IInv

\* The batch is through; the cancelled readers of it leave together.
LEMMA EndReadersStep == ASSUME IInv, NEW t \in Threads, EndReaders(t) PROVE IInv'
<1>1. /\ pc[t] = "readers" /\ granted[t] = {}
      /\ dropped' = [dropped EXCEPT ![t] = {}] /\ canceled' = canceled
  BY DEF EndReaders
<1>2. CASE dropped[t] = {}
  <2>1. /\ pc' = [pc EXCEPT ![t] = "idle"]
        /\ UNCHANGED <<ActiveReaderCount, HasActiveWriter, ReaderQueue, WriterQueue, granted, status>>
    BY <1>2 DEF EndReaders, lockVars
  <2>2. dropped' = dropped
    BY <1>1, <1>2 DEF IInv, TypeOK
  <2>3. TypeOK' /\ QueuesMatch' /\ HandsDisjoint'
    BY <1>1, <2>1, <2>2 DEF IInv, TypeOK, QueuesMatch, HandsDisjoint
  <2>4. ASSUME NEW u \in Threads PROVE HandMatches(u)'
    BY <1>1, <1>2, <2>1, <2>2 DEF IInv, TypeOK, HandMatches
  <2>5. OneWriter'
    BY <2>1 DEF IInv, TypeOK, OneWriter, Owns
  <2>6. CountsExact' /\ NobodyStranded'
    BY <2>1 DEF IInv, CountsExact, ReaderOwners, NobodyStranded
  <2> QED BY <2>3, <2>4, <2>5, <2>6 DEF IInv
<1>3. CASE dropped[t] # {}
  <2>1. ReleaseReaders(t, dropped[t])
    BY <1>3 DEF EndReaders
  <2>2. /\ dropped[t] \in SUBSET Readers
        /\ \A r \in dropped[t] : status[r] \in {"held", "dropped"}
        /\ \A u \in Threads \ {t} : dropped[u] \cap dropped[t] = {}
    BY DEF IInv, TypeOK, HandMatches, HandsDisjoint
  <2> QED BY <1>1, <1>3, <2>1, <2>2, ReadersLeave
<1> QED BY <1>2, <1>3

\* A reader releases the lock.
LEMMA ReleaseReaderStep ==
    ASSUME IInv, NEW t \in Threads, NEW r \in Readers, ReleaseReader(t, r) PROVE IInv'
<1>1. /\ pc[t] = "idle" /\ status[r] = "held" /\ ReleaseReaders(t, {r})
      /\ dropped' = dropped /\ canceled' = canceled
  BY DEF ReleaseReader
<1>2. granted[t] = {} /\ dropped[t] = {}
  BY <1>1 DEF IInv, HandMatches
<1>3. dropped' = [dropped EXCEPT ![t] = {}]
  BY <1>1, <1>2 DEF IInv, TypeOK
<1>4. \A u \in Threads \ {t} : dropped[u] \cap {r} = {}
  BY <1>1 DEF IInv, HandMatches
<1> QED BY <1>1, <1>2, <1>3, <1>4, ReadersLeave

\* A writer releases the lock.
LEMMA ReleaseWriterStep ==
    ASSUME IInv, NEW t \in Threads, NEW w \in Writers, ReleaseWriter(t, w) PROVE IInv'
<1> DEFINE st == [status EXCEPT ![w] = "done"]
<1> USE ClientsAssumption DEF Clients
<1>1. /\ pc[t] = "idle" /\ status[w] = "held" /\ WakeNext(t, ActiveReaderCount, st)
      /\ dropped' = dropped /\ canceled' = canceled
  BY DEF ReleaseWriter
<1>2. HasActiveWriter = "yes"
  BY <1>1 DEF IInv, CountsExact
<1>3. \A v \in Writers : st[v] \notin {"granting", "held"}
  BY <1>1 DEF IInv, TypeOK, OneWriter, Owns
<1>4. \A u \in Threads \ {t} : pc[u] \notin {"writer", "retry"}
  <2> TAKE u \in Threads \ {t}
  <2>1. pc[u] # "retry"
    BY <1>1 DEF IInv, OneWriter, Owns
  <2>2. pc[u] # "writer"
    <3> SUFFICES ASSUME pc[u] = "writer" PROVE FALSE
      OBVIOUS
    <3>1. PICK v \in Writers : granted[u] = {v} /\ status[v] = "granting"
      BY DEF IInv, HandMatches
    <3> QED BY <1>1, <3>1 DEF IInv, OneWriter, Owns
  <2> QED BY <2>1, <2>2
<1>5. /\ st \in [Clients -> Statuses]
      /\ \A r \in Readers : st[r] = status[r]
      /\ \A v \in Writers : st[v] = "waiting" <=> status[v] = "waiting"
  BY <1>1 DEF IInv, TypeOK, Statuses
<1> HIDE DEF st
<1>6. ActiveReaderCount = 0 /\ Unowned(t, st) /\ \A u \in Threads : dropped[u] = {}
  BY <1>1, <1>2, <1>3, <1>4, <1>5, WriterLeaves
<1>7. dropped' \in [Threads -> SUBSET Readers]
  BY <1>1 DEF IInv, TypeOK
<1> QED BY <1>1, <1>6, <1>7, WakeNextKeeps DEF IInv

\* The token is taken back from a cancelled writer.
LEMMA RetryWriterStep == ASSUME IInv, NEW t \in Threads, RetryWriter(t) PROVE IInv'
<1> USE ClientsAssumption DEF Clients
<1>1. /\ pc[t] = "retry" /\ WakeNext(t, ActiveReaderCount, status)
      /\ dropped' = dropped /\ canceled' = canceled
  BY DEF RetryWriter
<1>2. HasActiveWriter = "yes" /\ \A v \in Writers : status[v] \notin {"granting", "held"}
  BY <1>1 DEF IInv, OneWriter, Owns
<1>3. \A u \in Threads \ {t} : pc[u] \notin {"writer", "retry"}
  BY <1>1, <1>2 DEF IInv, OneWriter, HandMatches
<1>4. status \in [Clients -> Statuses]
  BY DEF IInv, TypeOK, Statuses
<1>5. ActiveReaderCount = 0 /\ Unowned(t, status) /\ \A u \in Threads : dropped[u] = {}
  BY <1>1, <1>2, <1>3, <1>4, WriterLeaves
<1>6. dropped' \in [Threads -> SUBSET Readers]
  BY <1>1 DEF IInv, TypeOK
<1> QED BY <1>1, <1>5, <1>6, WakeNextKeeps DEF IInv

\* Whatever is left alone by a step that changes none of the invariant's state.
LEMMA CancelStep ==
    ASSUME IInv, UNCHANGED <<lockVars, pc, granted, dropped, status>>, canceled' \subseteq Clients
    PROVE  IInv'
BY DEF IInv, lockVars, TypeOK, QueuesMatch, HandMatches, HandsDisjoint, OneWriter, Owns, CountsExact,
       ReaderOwners, NobodyStranded

-----------------------------------------------------------------------------
(* The theorems.                                                           *)

\* The invariant is inductive.
LEMMA InvariantStep == IInv /\ [Next]_vars => IInv'
<1> SUFFICES ASSUME IInv, [Next]_vars PROVE IInv'
  OBVIOUS
<1>1. ASSUME NEW r \in Readers, AcquireReader(r) PROVE IInv'
  BY <1>1, AcquireReaderStep
<1>2. ASSUME NEW w \in Writers, AcquireWriter(w) PROVE IInv'
  BY <1>2, AcquireWriterStep
<1>3. ASSUME NEW c \in Clients, Cancel(c) PROVE IInv'
  <2>1. canceled' \subseteq Clients
    BY <1>3 DEF Cancel, IInv, TypeOK
  <2> QED BY <1>3, <2>1, CancelStep DEF Cancel
<1>4. ASSUME NEW t \in Threads, NEW r \in Readers, ReleaseReader(t, r) PROVE IInv'
  BY <1>4, ReleaseReaderStep
<1>5. ASSUME NEW t \in Threads, NEW w \in Writers, ReleaseWriter(t, w) PROVE IInv'
  BY <1>5, ReleaseWriterStep
<1>6. ASSUME NEW t \in Threads, SetWriter(t) PROVE IInv'
  BY <1>6, SetWriterStep
<1>7. ASSUME NEW t \in Threads, RetryWriter(t) PROVE IInv'
  BY <1>7, RetryWriterStep
<1>8. ASSUME NEW t \in Threads, SetReader(t) PROVE IInv'
  BY <1>8, SetReaderStep
<1>9. ASSUME NEW t \in Threads, EndReaders(t) PROVE IInv'
  BY <1>9, EndReadersStep
<1>10. CASE UNCHANGED vars
  <2>1. canceled' \subseteq Clients
    BY <1>10 DEF vars, IInv, TypeOK
  <2> QED BY <1>10, <2>1, CancelStep DEF vars
<1> QED BY <1>1, <1>2, <1>3, <1>4, <1>5, <1>6, <1>7, <1>8, <1>9, <1>10 DEF Next

\* The invariant holds in the beginning.
LEMMA InvariantInit == Init => IInv
<1> SUFFICES ASSUME Init PROVE IInv
  OBVIOUS
<1> USE DEF Init, Clients
<1>1. TypeOK /\ QueuesMatch /\ HandsDisjoint /\ OneWriter /\ NobodyStranded
  BY DEF TypeOK, QueuesMatch, HandsDisjoint, OneWriter, Owns, NobodyStranded
<1>2. \A t \in Threads : HandMatches(t)
  BY DEF HandMatches
<1>3. CountsExact
  <2>1. ReaderOwners = {}
    BY DEF ReaderOwners
  <2> QED BY <2>1, FS_EmptySet DEF CountsExact
<1> QED BY <1>1, <1>2, <1>3 DEF IInv

\* The invariant holds always.
THEOREM Invariance == Spec => []IInv
BY InvariantInit, InvariantStep, PTL DEF Spec

\* The reader count is exact at every moment and never overlaps with a writer,
\* so the YT_VERIFYs of ReleaseReaders, ReleaseWriter and WakeNext hold.
THEOREM CountsAreExact == Spec => []CountsExact
<1>1. IInv => CountsExact
  BY DEF IInv
<1> QED BY <1>1, Invariance, PTL

\* A client that waits can rely on an owner of the lock to wake it.
THEOREM NobodyIsStranded == Spec => []NobodyStranded
<1>1. IInv => NobodyStranded
  BY DEF IInv
<1> QED BY <1>1, Invariance, PTL

\* A writer that holds the lock holds it alone, whatever was cancelled.
THEOREM Exclusion == Spec => []MutualExclusion
<1>1. IInv => MutualExclusion
  <2> SUFFICES ASSUME IInv, NEW w \in Writers, Holds(w), NEW c \in Clients \ {w}, Holds(c) PROVE FALSE
    BY DEF MutualExclusion
  <2>1. ActiveReaderCount = 0
    BY DEF IInv, CountsExact, Holds, TypeOK
  <2>2. \A r \in Readers : status[r] # "held"
    BY <2>1, NoOwners DEF IInv
  <2> QED BY <2>2 DEF IInv, OneWriter, Owns, Holds, Clients
<1> QED BY <1>1, Invariance, PTL

\* Readers are let in only when no writer is left waiting: by AcquireReader, and
\* by WakeNext, which looks for a writer first.
THEOREM WritersGoFirst == Spec => WritersFirst
<1> DEFINE LetIn(r) == status[r] \in {"new", "waiting"} /\ status'[r] \in {"granting", "held"}
           A == (\E r \in Readers : LetIn(r)) => WriterQueue' = <<>>
<1>1. IInv /\ [Next]_vars => [A]_vars
  <2> SUFFICES ASSUME IInv, Next, NEW r \in Readers, LetIn(r) PROVE WriterQueue' = <<>>
    OBVIOUS
  <2> USE ClientsAssumption DEF Clients
  <2>1. ASSUME NEW q \in Readers, AcquireReader(q) PROVE WriterQueue' = <<>>
    BY <2>1 DEF AcquireReader, IInv, TypeOK
  <2>2. ASSUME NEW w \in Writers, AcquireWriter(w) PROVE WriterQueue' = <<>>
    BY <2>2 DEF AcquireWriter, IInv, TypeOK
  <2>3. ASSUME NEW c \in Clients, Cancel(c) PROVE WriterQueue' = <<>>
    BY <2>3 DEF Cancel
  <2>4. ASSUME NEW t \in Threads, NEW n, NEW st \in [Clients -> Statuses], WakeNext(t, n, st),
               st[r] = status[r] \/ st[r] = "done"
        PROVE  WriterQueue' = <<>>
    <3>1. CASE WakeWriter(t, n, st)
      <4>1. Head(WriterQueue) \in Writers
        BY <3>1 DEF WakeWriter, IInv, TypeOK
      <4>2. status'[r] = st[r]
        BY <2>4, <3>1, <4>1 DEF WakeWriter
      <4> QED BY <2>4, <4>2
    <3>2. CASE WakeReaders(t, n, st)
      BY <3>2 DEF WakeReaders
    <3>3. CASE WakeNobody(t, n, st)
      BY <3>3 DEF WakeNobody
    <3> QED BY <2>4, <3>1, <3>2, <3>3 DEF WakeNext
  <2>5. ASSUME NEW t \in Threads, NEW gone \in SUBSET Readers, ReleaseReaders(t, gone)
        PROVE  WriterQueue' = <<>>
    <3> DEFINE st == [c \in Clients |-> IF c \in gone THEN "done" ELSE status[c]]
    <3>1. st \in [Clients -> Statuses] /\ (st[r] = status[r] \/ st[r] = "done")
      BY DEF IInv, TypeOK, Statuses
    <3>2. CASE WakeNext(t, 0, st)
      <4> HIDE DEF st
      <4> QED BY <2>4, <3>1, <3>2
    <3>3. CASE status' = st
      BY <3>1, <3>3
    <3> QED BY <2>5, <3>2, <3>3 DEF ReleaseReaders
  <2>6. ASSUME NEW t \in Threads, NEW q \in Readers, ReleaseReader(t, q) PROVE WriterQueue' = <<>>
    BY <2>5, <2>6 DEF ReleaseReader
  <2>7. ASSUME NEW t \in Threads, NEW w \in Writers, ReleaseWriter(t, w) PROVE WriterQueue' = <<>>
    <3> DEFINE st == [status EXCEPT ![w] = "done"]
    <3>1. st \in [Clients -> Statuses] /\ st[r] = status[r]
      BY DEF IInv, TypeOK, Statuses
    <3>2. WakeNext(t, ActiveReaderCount, st)
      BY <2>7 DEF ReleaseWriter
    <3> HIDE DEF st
    <3> QED BY <2>4, <3>1, <3>2
  <2>8. ASSUME NEW t \in Threads, RetryWriter(t) PROVE WriterQueue' = <<>>
    <3>1. status \in [Clients -> Statuses]
      BY DEF IInv, TypeOK, Statuses
    <3> QED BY <2>4, <2>8, <3>1 DEF RetryWriter
  <2>9. ASSUME NEW t \in Threads, SetWriter(t) PROVE WriterQueue' = <<>>
    <3>1. PICK w \in Writers : granted[t] = {w}
      BY <2>9 DEF SetWriter, IInv, HandMatches
    <3> QED BY <2>9, <3>1 DEF SetWriter, IInv, TypeOK
  <2>10. ASSUME NEW t \in Threads, SetReader(t) PROVE WriterQueue' = <<>>
    <3>1. PICK q \in granted[t] : status' = [status EXCEPT ![q] = "dropped"] \/ status' = [status EXCEPT ![q] = "held"]
      BY <2>10 DEF SetReader
    <3>2. status[q] = "granting"
      BY DEF IInv, HandMatches
    <3> QED BY <3>1, <3>2 DEF IInv, TypeOK
  <2>11. ASSUME NEW t \in Threads, EndReaders(t) PROVE WriterQueue' = <<>>
    <3>1. dropped[t] \in SUBSET Readers
      BY DEF IInv, TypeOK
    <3> QED BY <2>5, <2>11, <3>1 DEF EndReaders
  <2> QED BY <2>1, <2>2, <2>3, <2>6, <2>7, <2>8, <2>9, <2>10, <2>11 DEF Next
<1>2. Spec => [][A]_vars
  BY <1>1, Invariance, PTL DEF Spec
<1> QED BY <1>2 DEF WritersFirst

-----------------------------------------------------------------------------
(* The inductive invariant of the barrier.                                 *)

\* An item that is present has an occupied slot, by its cookie.
ItemsHaveSlots ==
    \A i \in present : /\ cookie[i] \in FirstSlotCookie .. (NextCookie - 1)
                       /\ SlotOccupied[cookie[i] - FirstSlotCookie + 1] = "yes"

\* No two items have the same slot.
SlotsDiffer == \A i, j \in present : cookie[i] = cookie[j] => i = j

\* An occupied slot belongs to an item that is present.
SlotsHaveItems ==
    \A k \in 1 .. Len(SlotOccupied) :
        SlotOccupied[k] = "yes" => \E i \in present : cookie[i] = FirstSlotCookie + k - 1

\* The queue of slots does not begin with a free one.
FirstIsOccupied == SlotOccupied # <<>> => SlotOccupied[1] = "yes"

\* Subscriptions wait for slots after the first one, in increasing order.
SubscriptionsSorted ==
    /\ \A j \in 1 .. Len(Subscriptions) :
           Subscriptions[j].BarrierCookie \in (FirstSlotCookie + 1) .. NextCookie
    /\ \A j, k \in 1 .. Len(Subscriptions) :
           j < k => Subscriptions[j].BarrierCookie < Subscriptions[k].BarrierCookie

\* Every subscription has a promise of its own, that of the call which made it,
\* and it is not set.
SubscriptionsPending ==
    /\ \A j \in 1 .. Len(Subscriptions) : /\ outcome[Subscriptions[j].promise] = "pending"
                                          /\ promiseOf[Subscriptions[j].promise] = Subscriptions[j].promise
    /\ \A j, k \in 1 .. Len(Subscriptions) : Subscriptions[j].promise = Subscriptions[k].promise => j = k

Subscribed(p) == \E j \in 1 .. Len(Subscriptions) : Subscriptions[j].promise = p

\* What a thread is to set has been taken from the queue of subscriptions.
TakenFromQueue ==
    \A t \in Removers : \A p \in toSet[t].promises : outcome[p] # "none" /\ ~ Subscribed(p)

\* A promise that is not set is in the queue or with a thread that sets it.
PendingHasOwner ==
    \A p \in Calls : outcome[p] = "pending" /\ promiseOf[p] = p => Subscribed(p) \/ Delivering(p)

\* A call waits for its own promise or shares that of an earlier call.
PromisesMatch ==
    \A c \in Calls :
        /\ outcome[c] = "none" => promiseOf[c] = c
        /\ outcome[c] # "none" => outcome[promiseOf[c]] # "none" /\ promiseOf[promiseOf[c]] = promiseOf[c]

\* A call awaits the items it has found, all of which had a cookie.
AwaitedInserted == \A c \in Calls : \A i \in awaited[c] : cookie[i] # 0

\* The cookie of a subscription tells the items that its calls await from
\* those inserted later.
CookieSeparates ==
    \A c \in Calls, j \in 1 .. Len(Subscriptions) :
        outcome[c] # "none" /\ promiseOf[c] = Subscriptions[j].promise =>
            \A i \in present : i \in awaited[c] <=> cookie[i] < Subscriptions[j].BarrierCookie

\* A call whose promise has left the queue awaits nothing any more.
NothingAwaited ==
    \A c \in Calls : outcome[c] # "none" /\ ~ Subscribed(promiseOf[c]) => awaited[c] \cap present = {}

BarrierInv ==
    /\ BarrierTypeOK
    /\ ItemsHaveSlots
    /\ SlotsDiffer
    /\ SlotsHaveItems
    /\ FirstIsOccupied
    /\ SubscriptionsSorted
    /\ SubscriptionsPending
    /\ TakenFromQueue
    /\ PendingHasOwner
    /\ PromisesMatch
    /\ AwaitedInserted
    /\ CookieSeparates
    /\ NothingAwaited

-----------------------------------------------------------------------------
(* The steps.                                                              *)

\* What the sequences hold.
LEMMA BarrierShape ==
    ASSUME BarrierTypeOK
    PROVE  /\ Len(SlotOccupied) \in Nat /\ Len(Subscriptions) \in Nat
           /\ FirstSlotCookie \in Nat \ {0} /\ NextCookie \in Nat
           /\ \A i \in Items : cookie[i] \in Nat
           /\ \A j \in 1 .. Len(Subscriptions) :
                  /\ Subscriptions[j] \in [BarrierCookie : Nat, promise : Calls]
                  /\ Subscriptions[j].BarrierCookie \in Nat /\ Subscriptions[j].promise \in Calls
<1>1. /\ Len(SlotOccupied) \in Nat /\ Len(Subscriptions) \in Nat
      /\ FirstSlotCookie \in Nat \ {0} /\ \A i \in Items : cookie[i] \in Nat
  BY DEF BarrierTypeOK
<1>2. \A j \in 1 .. Len(Subscriptions) : Subscriptions[j] \in [BarrierCookie : Nat, promise : Calls]
  <2> DEFINE S == [BarrierCookie : Nat, promise : Calls]
  <2>1. Subscriptions \in Seq(S)
    BY DEF BarrierTypeOK
  <2> HIDE DEF S
  <2>2. \A j \in 1 .. Len(Subscriptions) : Subscriptions[j] \in S
    BY <2>1
  <2> QED BY <2>2 DEF S
<1> QED BY <1>1, <1>2 DEF NextCookie

\* Insert: the new item has a cookie that no barrier waits to pass.
LEMMA InsertStep == ASSUME BarrierInv, NEW i \in Items, Insert(i) PROVE BarrierInv'
<1> USE DEF BarrierInv, callVars
<1>1. /\ cookie[i] = 0 /\ SlotOccupied' = Append(SlotOccupied, "yes") /\ present' = present \cup {i}
      /\ UNCHANGED <<FirstSlotCookie, Subscriptions, toSet, callVars>>
  BY DEF Insert
<1>2. /\ SlotOccupied' \in Seq({"yes", "no"}) /\ Len(SlotOccupied') = Len(SlotOccupied) + 1
      /\ SlotOccupied'[Len(SlotOccupied) + 1] = "yes"
      /\ \A k \in 1 .. Len(SlotOccupied) : SlotOccupied'[k] = SlotOccupied[k]
  BY <1>1 DEF BarrierTypeOK
<1>3. cookie' = [cookie EXCEPT ![i] = NextCookie] /\ NextCookie' = NextCookie + 1
  BY <1>1, <1>2, BarrierShape DEF Insert, NextCookie
<1>4. /\ cookie' \in [Items -> Nat] /\ cookie'[i] = NextCookie /\ NextCookie # 0
      /\ \A j \in Items \ {i} : cookie'[j] = cookie[j]
  BY <1>3, BarrierShape DEF BarrierTypeOK, NextCookie
<1>5. present \subseteq Items /\ i \notin present /\ \A j \in present : cookie'[j] = cookie[j] /\ cookie[j] < NextCookie
  BY <1>1, <1>4, BarrierShape DEF ItemsHaveSlots, BarrierTypeOK
<1>6. BarrierTypeOK'
  BY <1>1, <1>2, <1>4 DEF BarrierTypeOK
<1>7. ItemsHaveSlots'
  <2>1. ASSUME NEW j \in present
        PROVE  cookie'[j] \in FirstSlotCookie .. NextCookie /\ SlotOccupied'[cookie'[j] - FirstSlotCookie + 1] = "yes"
    <3>1. /\ cookie[j] \in FirstSlotCookie .. (NextCookie - 1)
          /\ SlotOccupied[cookie[j] - FirstSlotCookie + 1] = "yes"
      BY DEF ItemsHaveSlots
    <3>2. cookie[j] - FirstSlotCookie + 1 \in 1 .. Len(SlotOccupied)
      BY <3>1, BarrierShape DEF NextCookie
    <3> QED BY <1>2, <1>5, <3>1, <3>2, BarrierShape
  <2>2. cookie'[i] - FirstSlotCookie + 1 = Len(SlotOccupied) + 1 /\ cookie'[i] \in FirstSlotCookie .. NextCookie
    BY <1>4, BarrierShape DEF NextCookie
  <2>3. NextCookie' - 1 = NextCookie
    BY <1>3, BarrierShape
  <2> QED BY <1>1, <1>2, <2>1, <2>2, <2>3 DEF ItemsHaveSlots
<1>8. SlotsDiffer'
  BY <1>1, <1>4, <1>5, BarrierShape DEF SlotsDiffer
<1>9. SlotsHaveItems'
  <2>1. ASSUME NEW k \in 1 .. Len(SlotOccupied), SlotOccupied[k] = "yes"
        PROVE  \E j \in present' : cookie'[j] = FirstSlotCookie + k - 1
    <3>1. PICK j \in present : cookie[j] = FirstSlotCookie + k - 1
      BY <2>1 DEF SlotsHaveItems
    <3> QED BY <1>1, <1>5, <3>1
  <2>2. cookie'[i] = FirstSlotCookie + (Len(SlotOccupied) + 1) - 1
    BY <1>4, BarrierShape DEF NextCookie
  <2>3. \A k \in 1 .. Len(SlotOccupied') : k \in 1 .. Len(SlotOccupied) \/ k = Len(SlotOccupied) + 1
    BY <1>2, BarrierShape
  <2> QED BY <1>1, <1>2, <2>1, <2>2, <2>3 DEF SlotsHaveItems
<1>10. FirstIsOccupied'
  <2>1. CASE SlotOccupied = <<>>
    BY <1>2, <2>1 DEF FirstIsOccupied
  <2>2. CASE SlotOccupied # <<>>
    <3>1. 1 \in 1 .. Len(SlotOccupied)
      BY <2>2, BarrierShape DEF BarrierTypeOK
    <3> QED BY <1>2, <2>2, <3>1 DEF FirstIsOccupied
  <2> QED BY <2>1, <2>2
<1>11. SubscriptionsSorted'
  BY <1>1, <1>3, BarrierShape DEF SubscriptionsSorted
<1>12. SubscriptionsPending' /\ TakenFromQueue' /\ PendingHasOwner' /\ PromisesMatch'
  BY <1>1 DEF SubscriptionsPending, TakenFromQueue, PendingHasOwner, PromisesMatch, Subscribed, Delivering
<1>13. AwaitedInserted'
  BY <1>1, <1>4 DEF AwaitedInserted, BarrierTypeOK
<1>14. \A c \in Calls : i \notin awaited[c]
  BY <1>1 DEF AwaitedInserted
<1>15. CookieSeparates'
  <2>1. \A j \in 1 .. Len(Subscriptions) : ~ (cookie'[i] < Subscriptions[j].BarrierCookie)
    BY <1>4, BarrierShape DEF SubscriptionsSorted
  <2> QED BY <1>1, <1>5, <1>14, <2>1 DEF CookieSeparates
<1>16. NothingAwaited'
  BY <1>1, <1>14 DEF NothingAwaited, Subscribed
<1> QED BY <1>6, <1>7, <1>8, <1>9, <1>10, <1>11, <1>12, <1>13, <1>15, <1>16

\* A promise is set: it has left the queue before.
LEMMA SetPromiseStep == ASSUME BarrierInv, NEW t \in Removers, SetPromise(t) PROVE BarrierInv'
<1> USE DEF BarrierInv, slotVars
<1>1. PICK p \in toSet[t].promises : /\ outcome' = [outcome EXCEPT ![p] = toSet[t].result]
                                     /\ toSet' = [toSet EXCEPT ![t].promises = @ \ {p}]
  BY DEF SetPromise
<1>2. UNCHANGED <<slotVars, cookie, present, promiseOf, awaited>>
  BY DEF SetPromise
<1>3. /\ p \in Calls /\ outcome[p] # "none" /\ ~ Subscribed(p) /\ toSet[t].result \in {"set", "error"}
      /\ toSet[t] \in [result : {"set", "error"}, promises : SUBSET Calls]
  BY <1>1 DEF BarrierTypeOK, TakenFromQueue
<1>4. /\ outcome'[p] \in {"set", "error"} /\ \A c \in Calls \ {p} : outcome'[c] = outcome[c]
      /\ outcome' \in [Calls -> Outcomes]
  BY <1>1, <1>3 DEF BarrierTypeOK, Outcomes
<1>5. /\ toSet' \in [Removers -> [result : {"set", "error"}, promises : SUBSET Calls]]
      /\ toSet'[t].promises = toSet[t].promises \ {p} /\ \A u \in Removers \ {t} : toSet'[u] = toSet[u]
  BY <1>1, <1>3 DEF BarrierTypeOK
<1>6. BarrierTypeOK'
  BY <1>2, <1>4, <1>5 DEF BarrierTypeOK
<1>7. ItemsHaveSlots' /\ SlotsDiffer' /\ SlotsHaveItems' /\ FirstIsOccupied' /\ SubscriptionsSorted' /\ AwaitedInserted'
  BY <1>2 DEF ItemsHaveSlots, SlotsDiffer, SlotsHaveItems, FirstIsOccupied, SubscriptionsSorted, AwaitedInserted,
              NextCookie
<1>8. \A q : Subscribed(q)' <=> Subscribed(q)
  BY <1>2 DEF Subscribed
<1>9. \A c \in Calls : outcome'[c] = "none" <=> outcome[c] = "none"
  BY <1>3, <1>4
<1>10. SubscriptionsPending'
  <2>1. \A j \in 1 .. Len(Subscriptions) : Subscriptions[j].promise \in Calls \ {p}
    BY <1>3, BarrierShape DEF Subscribed
  <2> QED BY <1>2, <1>4, <2>1 DEF SubscriptionsPending
<1>11. TakenFromQueue'
  BY <1>5, <1>8, <1>9 DEF TakenFromQueue, BarrierTypeOK
<1>12. PendingHasOwner'
  <2>1. ASSUME NEW q \in Calls, outcome'[q] = "pending", promiseOf[q] = q PROVE Subscribed(q) \/ Delivering(q)'
    <3>1. q # p /\ outcome[q] = "pending"
      BY <1>4, <2>1
    <3>2. Delivering(q) => Delivering(q)'
      BY <1>5, <3>1 DEF Delivering
    <3> QED BY <2>1, <3>1, <3>2 DEF PendingHasOwner
  <2> QED BY <1>2, <1>8, <2>1 DEF PendingHasOwner
<1>13. PromisesMatch'
  BY <1>2, <1>9 DEF PromisesMatch, BarrierTypeOK
<1>14. CookieSeparates'
  BY <1>2, <1>9 DEF CookieSeparates
<1>15. NothingAwaited'
  BY <1>2, <1>8, <1>9 DEF NothingAwaited
<1> QED BY <1>6, <1>7, <1>10, <1>11, <1>12, <1>13, <1>14, <1>15

\* Clear: nothing is present any more.
LEMMA ClearStep == ASSUME BarrierInv, NEW t \in Removers, Clear(t) PROVE BarrierInv'
<1> USE DEF BarrierInv, callVars
<1> DEFINE taken == {Subscriptions[j].promise : j \in 1 .. Len(Subscriptions)}
<1>1. /\ Idle(t) /\ SlotOccupied' = <<>> /\ FirstSlotCookie' = 1 /\ Subscriptions' = <<>> /\ present' = {}
      /\ toSet' = [toSet EXCEPT ![t] = [result |-> "error", promises |-> taken]]
      /\ UNCHANGED <<cookie, callVars>>
  BY DEF Clear
<1>2. taken \subseteq Calls /\ \A p : p \in taken <=> Subscribed(p)
  BY BarrierShape DEF Subscribed
<1> HIDE DEF taken
<1>3. /\ toSet' \in [Removers -> [result : {"set", "error"}, promises : SUBSET Calls]]
      /\ toSet'[t].promises = taken /\ \A u \in Removers \ {t} : toSet'[u] = toSet[u]
  BY <1>1, <1>2 DEF BarrierTypeOK
<1>4. Len(Subscriptions') = 0 /\ Len(SlotOccupied') = 0
  BY <1>1
<1>5. \A q : ~ Subscribed(q)'
  BY <1>4 DEF Subscribed
<1>6. BarrierTypeOK'
  BY <1>1, <1>3 DEF BarrierTypeOK
<1>7. ItemsHaveSlots' /\ SlotsDiffer' /\ SlotsHaveItems' /\ FirstIsOccupied' /\ SubscriptionsSorted'
  BY <1>1, <1>4 DEF ItemsHaveSlots, SlotsDiffer, SlotsHaveItems, FirstIsOccupied, SubscriptionsSorted
<1>8. SubscriptionsPending' /\ PromisesMatch' /\ AwaitedInserted' /\ CookieSeparates'
  BY <1>1, <1>4 DEF SubscriptionsPending, PromisesMatch, AwaitedInserted, CookieSeparates
<1>9. TakenFromQueue'
  <2>1. \A p \in taken : outcome[p] # "none"
    BY <1>2 DEF Subscribed, SubscriptionsPending
  <2> QED BY <1>1, <1>3, <1>5, <2>1 DEF TakenFromQueue
<1>10. PendingHasOwner'
  <2>1. ASSUME NEW q \in Calls, Subscribed(q) \/ Delivering(q) PROVE Delivering(q)'
    BY <1>1, <1>2, <1>3, <2>1 DEF Delivering, Idle
  <2> QED BY <1>1, <2>1 DEF PendingHasOwner
<1>11. NothingAwaited'
  BY <1>1 DEF NothingAwaited
<1> QED BY <1>6, <1>7, <1>8, <1>9, <1>10, <1>11

\* A call that is the first to wait for its barrier makes a promise of its own.
LEMMA NewSubscription ==
    ASSUME BarrierInv, NEW c \in Calls, outcome[c] = "none", SlotOccupied # <<>>,
           Subscriptions # <<>> => Subscriptions[Len(Subscriptions)].BarrierCookie # NextCookie,
           Subscriptions' = Append(Subscriptions, [BarrierCookie |-> NextCookie, promise |-> c]),
           outcome' = [outcome EXCEPT ![c] = "pending"], awaited' = [awaited EXCEPT ![c] = present],
           UNCHANGED <<FirstSlotCookie, SlotOccupied, cookie, present, toSet, promiseOf>>
    PROVE  BarrierInv'
<1> USE DEF BarrierInv
<1> DEFINE n == Len(Subscriptions)
           S == [BarrierCookie : Nat, promise : Calls]
           new == [BarrierCookie |-> NextCookie, promise |-> c]
<1>1. new \in S /\ new.BarrierCookie = NextCookie /\ new.promise = c
  BY BarrierShape
<1>2. Subscriptions \in Seq(S) /\ Subscriptions' = Append(Subscriptions, new)
  BY DEF BarrierTypeOK
<1> HIDE DEF new, S
<1>3. /\ Subscriptions' \in Seq(S) /\ Len(Subscriptions') = n + 1 /\ Subscriptions'[n + 1] = new
      /\ \A j \in 1 .. n : Subscriptions'[j] = Subscriptions[j]
  BY <1>1, <1>2
<1>4. n \in Nat /\ \A j \in 1 .. Len(Subscriptions') : j \in 1 .. n \/ j = n + 1
  BY <1>3, BarrierShape
<1> HIDE DEF n
<1>5. /\ outcome' \in [Calls -> Outcomes] /\ awaited' \in [Calls -> SUBSET Items]
      /\ outcome'[c] = "pending" /\ awaited'[c] = present
      /\ \A d \in Calls \ {c} : outcome'[d] = outcome[d] /\ awaited'[d] = awaited[d]
  BY DEF BarrierTypeOK, Outcomes
<1>6. promiseOf[c] = c /\ \A d \in Calls \ {c} : outcome[d] # "none" => promiseOf[d] # c
  BY DEF PromisesMatch
<1>7. \A j \in 1 .. n : Subscriptions[j].promise \in Calls /\ Subscriptions[j].promise # c
  BY BarrierShape DEF SubscriptionsPending, n
<1>8. BarrierTypeOK'
  BY <1>3, <1>5 DEF BarrierTypeOK, S
<1>9. ItemsHaveSlots' /\ SlotsDiffer' /\ SlotsHaveItems' /\ FirstIsOccupied'
  BY DEF ItemsHaveSlots, SlotsDiffer, SlotsHaveItems, FirstIsOccupied, NextCookie
<1>10. NextCookie' = NextCookie /\ NextCookie \in (FirstSlotCookie + 1) .. NextCookie
  <2>1. Len(SlotOccupied) # 0
    BY DEF BarrierTypeOK
  <2> QED BY <2>1, BarrierShape DEF NextCookie
<1>11. SubscriptionsSorted'
  <2>1. \A j \in 1 .. n : Subscriptions[j].BarrierCookie \in (FirstSlotCookie + 1) .. NextCookie
    BY DEF SubscriptionsSorted, n
  <2>2. \A j \in 1 .. n : Subscriptions[j].BarrierCookie < NextCookie
    <3> SUFFICES ASSUME NEW j \in 1 .. n PROVE Subscriptions[j].BarrierCookie < NextCookie
      OBVIOUS
    <3>1. n \in 1 .. n /\ Subscriptions[n].BarrierCookie # NextCookie
      BY <1>4 DEF n
    <3>2. Subscriptions[n].BarrierCookie < NextCookie
      BY <2>1, <3>1, BarrierShape
    <3>3. j = n \/ Subscriptions[j].BarrierCookie < Subscriptions[n].BarrierCookie
      BY <1>4, <3>1 DEF SubscriptionsSorted, n
    <3> QED BY <2>1, <3>1, <3>2, <3>3, BarrierShape
  <2>3. \A j \in 1 .. Len(Subscriptions') : Subscriptions'[j].BarrierCookie \in (FirstSlotCookie + 1) .. NextCookie
    BY <1>1, <1>3, <1>4, <1>10, <2>1
  <2>4. ASSUME NEW j \in 1 .. Len(Subscriptions'), NEW k \in 1 .. Len(Subscriptions'), j < k
        PROVE  Subscriptions'[j].BarrierCookie < Subscriptions'[k].BarrierCookie
    <3>1. j \in 1 .. n
      BY <1>3, <1>4, <2>4
    <3>2. CASE k = n + 1
      BY <1>1, <1>3, <2>2, <3>1, <3>2
    <3>3. CASE k \in 1 .. n
      BY <1>3, <2>4, <3>1, <3>3 DEF SubscriptionsSorted, n
    <3> QED BY <1>4, <3>2, <3>3
  <2> QED BY <1>10, <2>3, <2>4 DEF SubscriptionsSorted
<1>12. SubscriptionsPending'
  <2>1. \A j \in 1 .. Len(Subscriptions') : outcome'[Subscriptions'[j].promise] = "pending"
    BY <1>1, <1>3, <1>4, <1>5, <1>7 DEF SubscriptionsPending, n
  <2>2. \A j \in 1 .. Len(Subscriptions') : promiseOf[Subscriptions'[j].promise] = Subscriptions'[j].promise
    BY <1>1, <1>3, <1>4, <1>6 DEF SubscriptionsPending, n
  <2>3. ASSUME NEW j \in 1 .. Len(Subscriptions'), NEW k \in 1 .. Len(Subscriptions'),
               Subscriptions'[j].promise = Subscriptions'[k].promise
        PROVE  j = k
    BY <1>1, <1>3, <1>4, <1>7, <2>3 DEF SubscriptionsPending, n
  <2> QED BY <2>1, <2>2, <2>3 DEF SubscriptionsPending
<1>13. \A q : Subscribed(q)' <=> Subscribed(q) \/ q = c
  <2>1. n + 1 \in 1 .. Len(Subscriptions') /\ \A j \in 1 .. n : j \in 1 .. Len(Subscriptions')
    BY <1>3, <1>4
  <2> QED BY <1>1, <1>3, <1>4, <2>1 DEF Subscribed, n
<1>14. TakenFromQueue'
  BY <1>5, <1>13 DEF TakenFromQueue, BarrierTypeOK
<1>15. PendingHasOwner'
  BY <1>5, <1>13 DEF PendingHasOwner, Delivering
<1>16. PromisesMatch'
  BY <1>5, <1>6 DEF PromisesMatch, BarrierTypeOK
<1>17. \A i \in present : cookie[i] # 0 /\ cookie[i] < NextCookie
  BY BarrierShape DEF ItemsHaveSlots, BarrierTypeOK
<1>18. AwaitedInserted'
  BY <1>5, <1>17 DEF AwaitedInserted
<1>19. CookieSeparates'
  <2> SUFFICES ASSUME NEW d \in Calls, NEW j \in 1 .. Len(Subscriptions'), outcome'[d] # "none",
                      promiseOf[d] = Subscriptions'[j].promise, NEW i \in present
               PROVE  i \in awaited'[d] <=> cookie[i] < Subscriptions'[j].BarrierCookie
    BY DEF CookieSeparates
  <2>1. CASE d = c
    <3>1. j = n + 1
      BY <1>3, <1>4, <1>6, <1>7, <2>1
    <3> QED BY <1>1, <1>3, <1>5, <1>17, <2>1, <3>1
  <2>2. CASE d # c
    <3>1. outcome[d] # "none" /\ awaited'[d] = awaited[d] /\ promiseOf[d] # c
      BY <1>5, <1>6, <2>2
    <3>2. j \in 1 .. n
      BY <1>1, <1>3, <1>4, <3>1
    <3> QED BY <1>3, <3>1, <3>2 DEF CookieSeparates, n
  <2> QED BY <2>1, <2>2
<1>20. NothingAwaited'
  BY <1>5, <1>6, <1>13 DEF NothingAwaited
<1> QED BY <1>8, <1>9, <1>11, <1>12, <1>14, <1>15, <1>16, <1>18, <1>19, <1>20

\* A call that finds no items, or the promise of a call for the same barrier.
LEMMA OldSubscription ==
    ASSUME BarrierInv, NEW c \in Calls, outcome[c] = "none", awaited' = [awaited EXCEPT ![c] = present],
           UNCHANGED <<FirstSlotCookie, SlotOccupied, Subscriptions, cookie, present, toSet>>,
           NEW p \in Calls, NEW how \in {"set", "pending"},
           promiseOf' = [promiseOf EXCEPT ![c] = p], outcome' = [outcome EXCEPT ![c] = how],
           \/ how = "set" /\ p = c /\ present = {}
           \/ /\ how = "pending" /\ Subscriptions # <<>> /\ p = Subscriptions[Len(Subscriptions)].promise
              /\ Subscriptions[Len(Subscriptions)].BarrierCookie = NextCookie
    PROVE  BarrierInv'
<1> USE DEF BarrierInv
<1>1. /\ outcome' \in [Calls -> Outcomes] /\ awaited' \in [Calls -> SUBSET Items] /\ promiseOf' \in [Calls -> Calls]
      /\ outcome'[c] = how /\ awaited'[c] = present /\ promiseOf'[c] = p
      /\ \A d \in Calls \ {c} : /\ outcome'[d] = outcome[d] /\ awaited'[d] = awaited[d]
                                /\ promiseOf'[d] = promiseOf[d]
  BY DEF BarrierTypeOK, Outcomes
<1>2. promiseOf[c] = c /\ \A d \in Calls \ {c} : outcome[d] # "none" => promiseOf[d] # c
  BY DEF PromisesMatch
<1>3. ~ Subscribed(c)
  BY DEF SubscriptionsPending, Subscribed
<1>4. \A q : Subscribed(q)' <=> Subscribed(q)
  BY DEF Subscribed
<1>5. \A i \in present : cookie[i] # 0 /\ cookie[i] < NextCookie
  BY BarrierShape DEF ItemsHaveSlots, BarrierTypeOK
<1>6. how = "pending" => /\ Len(Subscriptions) \in 1 .. Len(Subscriptions)
                         /\ p = Subscriptions[Len(Subscriptions)].promise
                         /\ Subscriptions[Len(Subscriptions)].BarrierCookie = NextCookie
  <2>1. Subscriptions # <<>> => Len(Subscriptions) # 0
    BY DEF BarrierTypeOK
  <2> QED BY <2>1, BarrierShape
<1>7. how = "pending" => Subscribed(p) /\ p # c /\ outcome[p] = "pending" /\ promiseOf[p] = p
  BY <1>3, <1>6 DEF Subscribed, SubscriptionsPending
<1>8. how = "set" => p = c /\ present = {}
  OBVIOUS
<1>9. BarrierTypeOK'
  BY <1>1 DEF BarrierTypeOK
<1>10. ItemsHaveSlots' /\ SlotsDiffer' /\ SlotsHaveItems' /\ FirstIsOccupied' /\ SubscriptionsSorted'
  BY DEF ItemsHaveSlots, SlotsDiffer, SlotsHaveItems, FirstIsOccupied, SubscriptionsSorted, NextCookie
<1>11. SubscriptionsPending'
  <2>1. \A j \in 1 .. Len(Subscriptions) : Subscriptions[j].promise \in Calls \ {c}
    BY <1>3, BarrierShape DEF Subscribed
  <2> QED BY <1>1, <2>1 DEF SubscriptionsPending
<1>12. TakenFromQueue'
  BY <1>1, <1>4 DEF TakenFromQueue, BarrierTypeOK
<1>13. PendingHasOwner'
  BY <1>1, <1>4, <1>7 DEF PendingHasOwner, Delivering
<1>14. PromisesMatch'
  BY <1>1, <1>2, <1>7, <1>8 DEF PromisesMatch, BarrierTypeOK
<1>15. AwaitedInserted'
  BY <1>1, <1>5 DEF AwaitedInserted
<1>16. CookieSeparates'
  <2> SUFFICES ASSUME NEW d \in Calls, NEW j \in 1 .. Len(Subscriptions), outcome'[d] # "none",
                      promiseOf'[d] = Subscriptions[j].promise, NEW i \in present
               PROVE  i \in awaited'[d] <=> cookie[i] < Subscriptions[j].BarrierCookie
    BY DEF CookieSeparates
  <2>1. CASE d = c
    <3>1. how = "pending"
      BY <1>8
    <3>2. j = Len(Subscriptions)
      BY <1>1, <1>6, <2>1, <3>1 DEF SubscriptionsPending
    <3> QED BY <1>1, <1>5, <1>6, <2>1, <3>1, <3>2
  <2>2. CASE d # c
    BY <1>1, <2>2 DEF CookieSeparates
  <2> QED BY <2>1, <2>2
<1>17. NothingAwaited'
  BY <1>1, <1>4, <1>7, <1>8 DEF NothingAwaited
<1> QED BY <1>9, <1>10, <1>11, <1>12, <1>13, <1>14, <1>15, <1>16, <1>17

\* GetBarrierFuture
LEMMA GetBarrierFutureStep == ASSUME BarrierInv, NEW c \in Calls, GetBarrierFuture(c) PROVE BarrierInv'
<1>1. /\ outcome[c] = "none" /\ awaited' = [awaited EXCEPT ![c] = present]
      /\ UNCHANGED <<FirstSlotCookie, SlotOccupied, cookie, present, toSet>>
  BY DEF GetBarrierFuture
<1>2. CASE SlotOccupied = <<>>
  <2>1. outcome' = [outcome EXCEPT ![c] = "set"] /\ UNCHANGED <<promiseOf, Subscriptions>>
    BY <1>2 DEF GetBarrierFuture
  <2>2. Len(SlotOccupied) = 0
    BY <1>2
  <2>3. present = {}
    BY <2>2, BarrierShape DEF BarrierInv, ItemsHaveSlots, NextCookie
  <2>4. promiseOf' = [promiseOf EXCEPT ![c] = c]
    BY <1>1, <2>1 DEF BarrierInv, BarrierTypeOK, PromisesMatch
  <2> QED BY <1>1, <2>1, <2>3, <2>4, OldSubscription
<1>3. CASE /\ SlotOccupied # <<>> /\ Subscriptions # <<>>
           /\ Subscriptions[Len(Subscriptions)].BarrierCookie = NextCookie
  <2>1. /\ promiseOf' = [promiseOf EXCEPT ![c] = Subscriptions[Len(Subscriptions)].promise]
        /\ outcome' = [outcome EXCEPT ![c] = "pending"] /\ Subscriptions' = Subscriptions
    BY <1>3 DEF GetBarrierFuture
  <2>2. Len(Subscriptions) \in 1 .. Len(Subscriptions)
    <3>1. Len(Subscriptions) # 0
      BY <1>3 DEF BarrierInv, BarrierTypeOK
    <3> QED BY <3>1, BarrierShape DEF BarrierInv
  <2>3. Subscriptions[Len(Subscriptions)].promise \in Calls
    BY <2>2, BarrierShape DEF BarrierInv
  <2> QED BY <1>1, <1>3, <2>1, <2>3, OldSubscription
<1>4. CASE /\ SlotOccupied # <<>>
           /\ Subscriptions # <<>> => Subscriptions[Len(Subscriptions)].BarrierCookie # NextCookie
  <2>1. /\ Subscriptions' = Append(Subscriptions, [BarrierCookie |-> NextCookie, promise |-> c])
        /\ outcome' = [outcome EXCEPT ![c] = "pending"] /\ promiseOf' = promiseOf
    BY <1>4 DEF GetBarrierFuture
  <2> QED BY <1>1, <1>4, <2>1, NewSubscription
<1> QED BY <1>2, <1>3, <1>4

\* Remove: the slots that are popped are free, and the barriers that are due
\* are those that no item present is awaited by.
LEMMA RemoveStep == ASSUME BarrierInv, NEW t \in Removers, NEW i \in Items, Remove(t, i) PROVE BarrierInv'
<1> USE DEF BarrierInv, callVars
<1> DEFINE slots == [SlotOccupied EXCEPT ![cookie[i] - FirstSlotCookie + 1] = "no"]
<1>1. /\ Idle(t) /\ i \in present /\ present' = present \ {i} /\ UNCHANGED <<cookie, callVars>>
  BY DEF Remove
<1>2. PICK n \in 0 .. Len(SlotOccupied), m \in 0 .. Len(Subscriptions) :
          /\ LeadingFree(slots, n) /\ SlotOccupied' = SubSeq(slots, n + 1, Len(slots))
          /\ FirstSlotCookie' = FirstSlotCookie + n
          /\ Due(FirstSlotCookie + n, m)
          /\ Subscriptions' = SubSeq(Subscriptions, m + 1, Len(Subscriptions))
          /\ toSet' = [toSet EXCEPT ![t] = [result |-> "set", promises |-> {Subscriptions[j].promise : j \in 1 .. m}]]
  BY DEF Remove
<1> DEFINE L == Len(SlotOccupied)
           K == Len(Subscriptions)
           due == {Subscriptions[j].promise : j \in 1 .. m}
           first == FirstSlotCookie + n
<1>3. L \in Nat /\ K \in Nat /\ n \in 0 .. L /\ m \in 0 .. K /\ FirstSlotCookie \in Nat \ {0} /\ first \in Nat \ {0}
  BY <1>2, BarrierShape
\* The slots that are left.
<1>4. /\ slots \in Seq({"yes", "no"}) /\ Len(slots) = L
      /\ \A k \in 1 .. L : slots[k] = (IF k = cookie[i] - FirstSlotCookie + 1 THEN "no" ELSE SlotOccupied[k])
  <2>1. cookie[i] - FirstSlotCookie + 1 \in 1 .. L
    BY <1>1, BarrierShape DEF ItemsHaveSlots, NextCookie
  <2>2. SlotOccupied \in Seq({"yes", "no"})
    BY DEF BarrierTypeOK
  <2> DEFINE k0 == cookie[i] - FirstSlotCookie + 1
  <2>3. k0 \in 1 .. L /\ slots = [SlotOccupied EXCEPT ![k0] = "no"]
    BY <2>1
  <2> HIDE DEF k0, slots
  <2>4. slots \in Seq({"yes", "no"}) /\ Len(slots) = L
    BY <2>2, <2>3
  <2>5. \A k \in 1 .. L : slots[k] = (IF k = k0 THEN "no" ELSE SlotOccupied[k])
    BY <2>2, <2>3
  <2> QED BY <2>4, <2>5 DEF k0
<1>5. /\ \A k \in 1 .. n : slots[k] = "no"
      /\ n < L => slots[n + 1] = "yes"
  BY <1>2, <1>4 DEF LeadingFree
<1>6. SlotOccupied' = SubSeq(slots, n + 1, L) /\ FirstSlotCookie' = first
  BY <1>2, <1>4
<1>7. toSet' = [toSet EXCEPT ![t] = [result |-> "set", promises |-> due]]
  BY <1>2
<1> HIDE DEF slots
<1>8. /\ SlotOccupied' \in Seq({"yes", "no"}) /\ Len(SlotOccupied') = L - n
      /\ \A k \in 1 .. (L - n) : SlotOccupied'[k] = slots[k + n]
  BY <1>3, <1>4, <1>6
<1>9. NextCookie' = NextCookie /\ NextCookie = FirstSlotCookie + L
  <2>1. NextCookie' = first + (L - n) /\ NextCookie = FirstSlotCookie + L
    BY <1>6, <1>8 DEF NextCookie
  <2> QED BY <1>3, <2>1
<1>10. present' \subseteq present /\ present \subseteq Items
  BY <1>1 DEF BarrierTypeOK
<1>11. ASSUME NEW j \in present'
       PROVE  /\ cookie[j] \in first .. (NextCookie - 1) /\ SlotOccupied'[cookie[j] - first + 1] = "yes"
  <2> DEFINE k == cookie[j] - FirstSlotCookie + 1
  <2>1. cookie[j] \in FirstSlotCookie .. (NextCookie - 1) /\ SlotOccupied[k] = "yes" /\ cookie[j] \in Nat
    BY <1>10, <1>11, BarrierShape DEF ItemsHaveSlots
  <2>2. cookie[i] # cookie[j] /\ cookie[i] \in Nat
    BY <1>1, <1>10, <1>11, BarrierShape DEF SlotsDiffer
  <2>3. k \in 1 .. L /\ k # cookie[i] - FirstSlotCookie + 1
    <3> HIDE DEF L
    <3>1. cookie[j] < FirstSlotCookie + L /\ FirstSlotCookie <= cookie[j]
      BY <1>3, <1>9, <2>1
    <3>2. k \in 1 .. L
      BY <1>3, <2>1, <3>1
    <3>3. k # cookie[i] - FirstSlotCookie + 1
      BY <1>3, <2>1, <2>2
    <3> QED BY <3>2, <3>3
  <2>4. slots[k] = "yes"
    BY <1>4, <2>1, <2>3
  <2>5. k > n
    BY <1>3, <1>5, <2>3, <2>4
  <2>6. /\ k - n \in 1 .. (L - n) /\ (k - n) + n = k /\ cookie[j] - first + 1 = k - n
        /\ cookie[j] \in first .. (NextCookie - 1)
    <3>0. cookie[j] = FirstSlotCookie + k - 1
      BY <1>3, <2>1
    <3>1. n \in Nat /\ NextCookie \in Nat /\ k \in Nat /\ cookie[j] = FirstSlotCookie + k - 1
      <4> HIDE DEF k, L
      <4> QED BY <1>3, <2>3, <3>0, BarrierShape
    <3>2. n <= L /\ k <= L /\ n < k
      BY <1>3, <2>3, <2>5
    <3> HIDE DEF k, L
    <3>3. k - n \in 1 .. (L - n) /\ (k - n) + n = k
      BY <1>3, <3>1, <3>2
    <3>4. cookie[j] - first + 1 = k - n /\ first <= cookie[j]
      BY <1>3, <2>1, <3>1, <3>2
    <3> QED BY <1>3, <2>1, <3>1, <3>3, <3>4
  <2> HIDE DEF k
  <2>7. SlotOccupied'[k - n] = "yes"
    BY <1>8, <2>4, <2>6
  <2> QED BY <2>6, <2>7
<1>12. ItemsHaveSlots'
  BY <1>1, <1>6, <1>9, <1>11 DEF ItemsHaveSlots
<1>13. SlotsDiffer'
  BY <1>1, <1>10 DEF SlotsDiffer
<1>14. SlotsHaveItems'
  <2> SUFFICES ASSUME NEW k \in 1 .. (L - n), SlotOccupied'[k] = "yes"
               PROVE  \E j \in present' : cookie[j] = first + k - 1
    BY <1>1, <1>6, <1>8 DEF SlotsHaveItems
  <2>1. k + n \in 1 .. L /\ FirstSlotCookie + (k + n) - 1 = first + k - 1
    BY <1>3
  <2>2. slots[k + n] = "yes"
    BY <1>8
  <2>3. SlotOccupied[k + n] = "yes" /\ k + n # cookie[i] - FirstSlotCookie + 1
    BY <1>4, <2>1, <2>2
  <2>4. PICK j \in present : cookie[j] = first + k - 1
    BY <2>1, <2>3 DEF SlotsHaveItems
  <2>5. j # i
    BY <1>3, <2>3, <2>4
  <2> QED BY <1>1, <2>4, <2>5
<1>15. FirstIsOccupied'
  <2> SUFFICES ASSUME SlotOccupied' # <<>> PROVE SlotOccupied'[1] = "yes"
    BY DEF FirstIsOccupied
  <2>1. Len(SlotOccupied') # 0
    BY <1>8
  <2>2. n < L /\ 1 \in 1 .. (L - n) /\ 1 + n = n + 1
    BY <1>3, <1>8, <2>1
  <2> QED BY <1>5, <1>8, <2>2
\* The subscriptions that are left.
<1>16. /\ \A j \in 1 .. m : Subscriptions[j].BarrierCookie <= first
       /\ m < K => Subscriptions[m + 1].BarrierCookie > first
  BY <1>2 DEF Due
<1>17. /\ Subscriptions' \in Seq([BarrierCookie : Nat, promise : Calls]) /\ Len(Subscriptions') = K - m
       /\ \A j \in 1 .. (K - m) : Subscriptions'[j] = Subscriptions[j + m]
  <2> DEFINE S == [BarrierCookie : Nat, promise : Calls]
  <2>1. Subscriptions \in Seq(S) /\ Subscriptions' = SubSeq(Subscriptions, m + 1, K)
    BY <1>2 DEF BarrierTypeOK
  <2> HIDE DEF S
  <2>2. /\ Subscriptions' \in Seq(S) /\ Len(Subscriptions') = K - m
        /\ \A j \in 1 .. (K - m) : Subscriptions'[j] = Subscriptions[j + m]
    BY <1>3, <2>1
  <2> QED BY <2>2 DEF S
<1>18. \A j \in 1 .. (K - m) : j + m \in 1 .. K /\ j + m \notin 1 .. m
  BY <1>3
<1>19. \A j \in 1 .. K : j \in 1 .. m \/ (j - m \in 1 .. (K - m) /\ (j - m) + m = j)
  BY <1>3
<1>20. due \subseteq Calls /\ \A p \in due : \E j \in 1 .. m : Subscriptions[j].promise = p
  <2>1. \A j \in 1 .. m : j \in 1 .. K
    BY <1>3
  <2> QED BY <2>1, BarrierShape
<1>21. \A j \in 1 .. m : Subscriptions[j].promise \in due /\ j \in 1 .. K
  BY <1>3
<1> HIDE DEF due, first
<1>22. ASSUME NEW j \in 1 .. K, j \notin 1 .. m
       PROVE  Subscriptions[j].BarrierCookie \in (first + 1) .. NextCookie
  <2>1. m + 1 \in 1 .. K /\ m < K /\ (m + 1 = j \/ m + 1 < j)
    BY <1>3, <1>22
  <2>2. Subscriptions[m + 1].BarrierCookie \in Nat /\ Subscriptions[j].BarrierCookie \in Nat
    BY <2>1, BarrierShape
  <2>3. Subscriptions[m + 1].BarrierCookie <= Subscriptions[j].BarrierCookie
    BY <2>1, <2>2 DEF SubscriptionsSorted
  <2>4. Subscriptions[j].BarrierCookie <= NextCookie
    BY BarrierShape DEF SubscriptionsSorted
  <2> QED BY <1>3, <1>16, <2>1, <2>2, <2>3, <2>4, BarrierShape
<1>23. SubscriptionsSorted'
  <2>1. \A j \in 1 .. (K - m) : Subscriptions'[j].BarrierCookie \in (first + 1) .. NextCookie
    BY <1>17, <1>18, <1>22
  <2>2. ASSUME NEW j \in 1 .. (K - m), NEW k \in 1 .. (K - m), j < k
        PROVE  Subscriptions'[j].BarrierCookie < Subscriptions'[k].BarrierCookie
    <3>1. j + m < k + m
      BY <1>3, <2>2
    <3> QED BY <1>17, <1>18, <3>1 DEF SubscriptionsSorted
  <2> QED BY <1>6, <1>9, <1>17, <2>1, <2>2 DEF SubscriptionsSorted
<1>24. SubscriptionsPending'
  <2>1. ASSUME NEW j \in 1 .. (K - m), NEW k \in 1 .. (K - m), Subscriptions'[j].promise = Subscriptions'[k].promise
        PROVE  j = k
    <3>1. j + m \in 1 .. K /\ k + m \in 1 .. K /\ Subscriptions[j + m].promise = Subscriptions[k + m].promise
      BY <1>17, <1>18, <2>1
    <3>2. j + m = k + m
      BY <3>1 DEF SubscriptionsPending
    <3> QED BY <1>3, <3>2
  <2>2. \A j \in 1 .. (K - m) : /\ outcome[Subscriptions'[j].promise] = "pending"
                                /\ promiseOf[Subscriptions'[j].promise] = Subscriptions'[j].promise
    <3> SUFFICES ASSUME NEW j \in 1 .. (K - m)
                 PROVE  /\ outcome[Subscriptions'[j].promise] = "pending"
                        /\ promiseOf[Subscriptions'[j].promise] = Subscriptions'[j].promise
      OBVIOUS
    <3>1. j + m \in 1 .. K /\ Subscriptions'[j] = Subscriptions[j + m]
      BY <1>17, <1>18
    <3> QED BY <3>1 DEF SubscriptionsPending
  <2> QED BY <1>1, <1>17, <2>1, <2>2 DEF SubscriptionsPending
<1>25. \A p : Subscribed(p) <=> Subscribed(p)' \/ p \in due
  <2>1. ASSUME NEW p, Subscribed(p)' PROVE Subscribed(p)
    BY <1>17, <1>18, <2>1 DEF Subscribed
  <2>2. ASSUME NEW p \in due PROVE Subscribed(p)
    BY <1>20, <1>21, <2>2 DEF Subscribed
  <2>3. ASSUME NEW p, Subscribed(p) PROVE Subscribed(p)' \/ p \in due
    <3>1. PICK j \in 1 .. K : Subscriptions[j].promise = p
      BY <2>3 DEF Subscribed
    <3>2. CASE j \in 1 .. m
      BY <1>21, <3>1, <3>2
    <3>3. CASE j - m \in 1 .. (K - m) /\ (j - m) + m = j
      BY <1>17, <3>1, <3>3 DEF Subscribed
    <3> QED BY <1>19, <3>2, <3>3
  <2> QED BY <2>1, <2>2, <2>3
<1>26. \A p \in due : ~ Subscribed(p)'
  <2> SUFFICES ASSUME NEW p \in due, Subscribed(p)' PROVE FALSE
    OBVIOUS
  <2>1. PICK j \in 1 .. (K - m) : Subscriptions[j + m].promise = p
    BY <1>17 DEF Subscribed
  <2>2. PICK k \in 1 .. m : Subscriptions[k].promise = p
    BY <1>20
  <2> QED BY <1>18, <1>21, <2>1, <2>2 DEF SubscriptionsPending
<1>27. /\ toSet' \in [Removers -> [result : {"set", "error"}, promises : SUBSET Calls]]
       /\ toSet'[t].promises = due /\ \A u \in Removers \ {t} : toSet'[u] = toSet[u]
  BY <1>7, <1>20 DEF BarrierTypeOK
<1>28. BarrierTypeOK'
  BY <1>1, <1>3, <1>6, <1>8, <1>10, <1>17, <1>27 DEF BarrierTypeOK
<1>29. TakenFromQueue'
  <2>1. \A p \in due : outcome[p] # "none"
    BY <1>25 DEF Subscribed, SubscriptionsPending
  <2> QED BY <1>1, <1>25, <1>26, <1>27, <2>1 DEF TakenFromQueue
<1>30. PendingHasOwner'
  <2>1. ASSUME NEW q \in Calls, Subscribed(q) \/ Delivering(q) PROVE Subscribed(q)' \/ Delivering(q)'
    BY <1>1, <1>25, <1>27, <2>1 DEF Delivering, Idle
  <2> QED BY <1>1, <2>1 DEF PendingHasOwner
<1>31. PromisesMatch' /\ AwaitedInserted'
  BY <1>1 DEF PromisesMatch, AwaitedInserted
<1>32. CookieSeparates'
  <2> SUFFICES ASSUME NEW c \in Calls, NEW j \in 1 .. (K - m), outcome[c] # "none",
                      promiseOf[c] = Subscriptions'[j].promise, NEW k \in present'
               PROVE  k \in awaited[c] <=> cookie[k] < Subscriptions'[j].BarrierCookie
    BY <1>1, <1>17 DEF CookieSeparates
  <2> QED BY <1>10, <1>17, <1>18 DEF CookieSeparates
\* What a barrier that is due awaits has a cookie before the first slot.
<1>33. NothingAwaited'
  <2> SUFFICES ASSUME NEW c \in Calls, outcome[c] # "none", ~ Subscribed(promiseOf[c])'
               PROVE  awaited[c] \cap present' = {}
    BY <1>1 DEF NothingAwaited
  <2>1. CASE ~ Subscribed(promiseOf[c])
    BY <1>10, <2>1 DEF NothingAwaited
  <2>2. CASE promiseOf[c] \in due
    <3>1. PICK j \in 1 .. m : Subscriptions[j].promise = promiseOf[c]
      BY <1>20, <2>2
    <3>2. j \in 1 .. K /\ Subscriptions[j].BarrierCookie <= first /\ Subscriptions[j].BarrierCookie \in Nat
      BY <1>16, <1>21, BarrierShape
    <3>3. ASSUME NEW k \in present', k \in awaited[c] PROVE FALSE
      <4>1. cookie[k] < Subscriptions[j].BarrierCookie
        BY <1>10, <3>1, <3>2, <3>3 DEF CookieSeparates
      <4>2. cookie[k] \in first .. (NextCookie - 1)
        BY <1>11, <3>3
      <4> QED BY <1>3, <3>2, <4>1, <4>2, BarrierShape
    <3> QED BY <3>3
  <2> QED BY <1>1, <1>25, <2>1, <2>2
<1> QED BY <1>12, <1>13, <1>14, <1>15, <1>23, <1>24, <1>28, <1>29, <1>30, <1>31, <1>32, <1>33

-----------------------------------------------------------------------------
(* The specification.                                                      *)

\* The barrier is empty in the initial state.
LEMMA BarrierInvInit == BarrierInit => BarrierInv
<1> SUFFICES ASSUME BarrierInit PROVE BarrierInv
  OBVIOUS
<1> USE DEF BarrierInit, Nothing
<1>1. BarrierTypeOK
  BY DEF BarrierTypeOK, Outcomes
<1>2. Len(Subscriptions) = 0 /\ Len(SlotOccupied) = 0 /\ present = {}
  OBVIOUS
<1>3. ItemsHaveSlots /\ SlotsDiffer /\ SlotsHaveItems /\ FirstIsOccupied /\ SubscriptionsSorted /\ SubscriptionsPending
  BY <1>2 DEF ItemsHaveSlots, SlotsDiffer, SlotsHaveItems, FirstIsOccupied, SubscriptionsSorted, SubscriptionsPending
<1>4. TakenFromQueue /\ PendingHasOwner /\ PromisesMatch /\ AwaitedInserted /\ CookieSeparates /\ NothingAwaited
  BY <1>2 DEF TakenFromQueue, PendingHasOwner, PromisesMatch, AwaitedInserted, CookieSeparates, NothingAwaited
<1> QED BY <1>1, <1>3, <1>4 DEF BarrierInv

\* Every step keeps the invariant.
LEMMA BarrierInvStep == BarrierInv /\ [BarrierNext]_barrierVars => BarrierInv'
<1> SUFFICES ASSUME BarrierInv, [BarrierNext]_barrierVars PROVE BarrierInv'
  OBVIOUS
<1>1. CASE \E i \in Items : Insert(i)
  BY <1>1, InsertStep
<1>2. CASE \E c \in Calls : GetBarrierFuture(c)
  BY <1>2, GetBarrierFutureStep
<1>3. CASE \E t \in Removers : (\E i \in Items : Remove(t, i)) \/ Clear(t) \/ SetPromise(t)
  BY <1>3, RemoveStep, ClearStep, SetPromiseStep
<1>4. CASE UNCHANGED barrierVars
  <2> USE <1>4 DEF barrierVars, slotVars, callVars, BarrierInv
  <2>1. BarrierTypeOK'
    BY DEF BarrierTypeOK
  <2>2. ItemsHaveSlots' /\ SlotsDiffer' /\ SlotsHaveItems' /\ FirstIsOccupied' /\ SubscriptionsSorted'
    BY DEF ItemsHaveSlots, SlotsDiffer, SlotsHaveItems, FirstIsOccupied, SubscriptionsSorted, NextCookie
  <2>3. SubscriptionsPending' /\ PromisesMatch' /\ AwaitedInserted' /\ CookieSeparates'
    BY DEF SubscriptionsPending, PromisesMatch, AwaitedInserted, CookieSeparates
  <2>4. TakenFromQueue' /\ PendingHasOwner' /\ NothingAwaited'
    BY DEF TakenFromQueue, PendingHasOwner, NothingAwaited, Subscribed, Delivering
  <2> QED BY <2>1, <2>2, <2>3, <2>4
<1> QED BY <1>1, <1>2, <1>3, <1>4 DEF BarrierNext

\* The invariant holds in every behaviour of the barrier.
THEOREM BarrierInvariance == BarrierSpec => []BarrierInv
BY BarrierInvInit, BarrierInvStep, PTL DEF BarrierSpec

\* A future of TAsyncBarrier::GetBarrierFuture is set successfully only when all
\* items present at the call are gone, shared promises and Clear included.
THEOREM BarrierIsNotEarly == BarrierSpec => []BarrierNotEarly
<1>1. BarrierInv => BarrierNotEarly
  <2> SUFFICES ASSUME BarrierInv, NEW c \in Calls, FutureOutcome(c) = "set" PROVE awaited[c] \cap present = {}
    BY DEF BarrierNotEarly
  <2>1. outcome[c] # "none" /\ outcome[promiseOf[c]] = "set"
    BY DEF FutureOutcome
  <2>2. ~ Subscribed(promiseOf[c])
    BY <2>1 DEF BarrierInv, SubscriptionsPending, Subscribed
  <2> QED BY <2>1, <2>2 DEF BarrierInv, NothingAwaited
<1> QED BY <1>1, BarrierInvariance, PTL

\* When the last item that a future awaits is gone, the Remove or Clear that did
\* it has the promise in hand: no subscription stays behind in the queue.
THEOREM BarrierIsNotLate == BarrierSpec => []BarrierNotLate
<1>1. BarrierInv => BarrierNotLate
  <2> SUFFICES ASSUME BarrierInv, NEW c \in Calls, FutureOutcome(c) = "pending", awaited[c] \cap present = {}
               PROVE  Delivering(promiseOf[c])
    BY DEF BarrierNotLate
  <2>1. /\ outcome[c] # "none" /\ outcome[promiseOf[c]] = "pending" /\ promiseOf[c] \in Calls
        /\ promiseOf[promiseOf[c]] = promiseOf[c]
    BY DEF FutureOutcome, BarrierInv, BarrierTypeOK, PromisesMatch
  <2>2. SUFFICES ASSUME Subscribed(promiseOf[c]) PROVE FALSE
    BY <2>1 DEF BarrierInv, PendingHasOwner
  <2>3. PICK j \in 1 .. Len(Subscriptions) : Subscriptions[j].promise = promiseOf[c]
    BY <2>2 DEF Subscribed
  <2>4. Subscriptions[j].BarrierCookie \in (FirstSlotCookie + 1) .. NextCookie
    BY DEF BarrierInv, SubscriptionsSorted
  <2>5. Len(SlotOccupied) # 0 /\ FirstSlotCookie < Subscriptions[j].BarrierCookie
    BY <2>4, BarrierShape DEF BarrierInv, NextCookie
  <2>6. 1 \in 1 .. Len(SlotOccupied) /\ SlotOccupied # <<>>
    BY <2>5, BarrierShape DEF BarrierInv
  <2>7. PICK i \in present : cookie[i] = FirstSlotCookie + 1 - 1
    BY <2>6 DEF BarrierInv, FirstIsOccupied, SlotsHaveItems
  <2>8. cookie[i] < Subscriptions[j].BarrierCookie
    BY <2>5, <2>7, BarrierShape DEF BarrierInv
  <2>9. i \in awaited[c]
    BY <2>1, <2>3, <2>8 DEF BarrierInv, CookieSeparates
  <2> QED BY <2>7, <2>9
<1> QED BY <1>1, BarrierInvariance, PTL

=============================================================================
