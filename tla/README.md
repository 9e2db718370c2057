# Verification of the concurrency and RPC core of the YTsaurus C++ SDK

This directory holds TLA+ models of the building blocks of
`yt/yt/core/concurrency`, the library under the RPC stack and the clients of
the YTsaurus C++ SDK, and of the two protocols of `yt/yt/core/rpc` with the most
state: streamed attachments and retried mutations. The models are checked with
TLC on small instances, and their safety properties, the two refinements
included, are proved with TLAPS for every instance.

## The system

The repository is a C++ SDK: a general core (`yt/yt/core`: actions and futures,
concurrency, RPC, bus), the native client (`yt/yt/client`) and the MapReduce
client (`yt/cpp/mapreduce`). Everything above the core is written with
*callbacks* that are given to *invokers*, and with *futures*. The correctness of
the rest depends on a small number of classes with few lines, little state and
many interleavings. These come first here.

### Inventory

| Component | State | Operations | What is hard | What makes it correct |
| --- | --- | --- | --- | --- |
| `TAsyncSemaphore` and its guard | total and free slots, waiter queue, ready event, `Releasing_` | `Acquire`, `TryAcquire`, `AsyncAcquire`, `Release`, `SetTotal`, `GetReadyEvent`, transfer between guards, cancellation | `Release` sets promises with the lock free, is reentered by a cancelled waiter's guard and hands its work to the thread already in the loop | no slot lost, no wakeup lost, one thread in the loop |
| `TAsyncReaderWriterLock` | active readers, active writer, two promise queues | acquire and release of readers and writers, cancellation | a grant is found to be void only after the lock was let go | exclusion, exact counts, nobody stranded, writers before readers |
| `TAsyncBarrier` | slots with a moving first number, subscriptions | `Insert`, `Remove`, `GetBarrierFuture`, `Clear` | futures shared by calls, slots freed out of order, promises set after the lock | a future is set neither early nor late |
| `TBoundedConcurrencyInvoker` | limit, pending limit, permits, queue | `Invoke`, `SetMaxConcurrentInvocations`, end of a callback | limit changed while callbacks are out, terminated underlying invoker | exact permits, limit respected, nothing waits for ever, decreases take effect |
| `TSuspendableInvoker` | three atomics, lock-free queue, promise | `Invoke`, `Suspend`, `Resume`, end of a callback | nearly everything is a single atomic access | exact count, no callback forgotten, every suspension reported, quiet when reported |
| `TSerializedInvoker` | queue, `CallbackScheduled_`, `Dead_` | `Invoke`, run and end of a callback, death | the ticket is passed on with the lock free, and may be destroyed | one at a time, in order, none stranded |
| Futures and promises | value, cancelled flag, handlers | set, cancel, combinators | cancellation against setting | the first of the two wins |
| `TPeriodicExecutor` | four flags, a timer, three promises, posted callbacks | `Start`, `Stop`, `ScheduleOutOfBand`, `GetExecutedEvent`, `SetOptions`, run and cleanup, cancelled fibers and callbacks, callbacks that throw | a posted callback cannot be called back; restart while a run is in progress; a throw skips cleanup; cleanup sets promises with the lock free | one run at a time, none after `Stop`, no stall, every future set |
| RPC attachment streams | windows, positions, queues, promises at both ends; early payloads at the service | `Write`, `Close`, pull, feedback, abort; `Read`, payloads, abort; register, reply, cancel, timeouts | messages overtake each other, the pull and read callbacks run with the lock free, abort against data from both ends | in order, no loss, window respected, promises set once, everyone answered |
| `TResponseKeeper` | pending and finished responses, eviction queue, warmup | `Start`, `Stop`, `TryReplyFrom`, `EndRequest`, `CancelPendingRequests`, eviction | retries of requests that run, have ended, or were forgotten; the response is sent before it is kept | a mutation is carried out once, its retries get its response |
| Retrying channel | attempt, backoff, control thunk | send, retry, cancel, response, error | attempts share a request id, late answers, control that comes late | one true answer for each call |
| Other channels | hedging state, peers | send, cancel | late answers, peer discovery | one answer for each request |
| `TNonblockingQueue`, `TNonblockingBatcher` | values, promises, batches | enqueue, dequeue, drop, drain, batch timeout | stale timeouts, drain while others wait | every value is delivered once, in order |
| `TAsyncLooper` | stage, epoch, futures | `Start`, `Stop`, iterations | restart while an iteration is in progress | no overlap of iterations |
| Fibers, thread pools, delayed execution, throttlers, bus | - | - | real time, context switches, sockets | not in reach of a discrete model |

Invokers stack: a suspendable, a bounded or a serialized invoker is itself an
invoker over another one, and calls it with its own lock free. Semaphores, locks
and barriers meet the invokers through futures: whoever sets a promise runs its
subscribers on the spot. Cancelling a future races with setting its promise
(`actions/future.cpp`); the first wins, and the one who sets learns about it
only afterwards.

## Modules

Every module models one class. A *step* is a section of code that holds the
object's lock, or one access of an atomic, or one call made with the lock free
(setting a promise, calling the underlying invoker). Names of variables and
actions are those of the code without the trailing underscore; history
variables, marked as such, only serve the properties. Operators commented as
"Mutant" are deliberately wrong versions of the definition that follows them;
`PROJECT.json` names the property that has to catch each of them.

| Module | Models | State and actions |
| --- | --- | --- |
| `AsyncSemaphore` | `async_semaphore.{h,cpp}` | A request is one acquire call and owns one guard. `EnterRelease`, `Drain`, `Deliver`, `EndDelivery` are the parts of `Release`: return of the slots, the locked loop body, one promise, the end of the batch. `Kick` is the call of `Release(0)` that ends `SetTotal`. |
| `AsyncReaderWriterLock` | `async_rw_lock*` | A client is one acquire call. `WakeNext` is the locked part; `SetWriter` and `SetReader` set one promise each, and learn whether it was cancelled; `RetryWriter` and `EndReaders` take back what was granted in vain. |
| `AsyncBarrier` | `async_barrier.{h,cpp}` | Items and calls are one-shot. `awaited` is history: the items present at a call. |
| `BoundedConcurrencyInvoker` | `bounded_concurrency_invoker.cpp` | `launch[t]` are the callbacks thread `t` took under the lock and has to pass on. `SubmitDropped` is a call of a terminated underlying invoker, with the `OnFinished` that happens inside it. |
| `SuspendableInvoker` | `suspendable_invoker.cpp` | One action for each atomic access; `pc[t]` is the next one. |
| `SerializedInvoker` | `serialized_invoker.cpp` | A *ticket* is `RunCallback` with its guard, in the underlying invoker or on its way to or from it. |
| `SerialExecutor` | the promise of `serialized_invoker.h` | Abstract: one callback at a time, in order, until death. `SerializedInvoker` implements it. |
| `PeriodicExecutor` | `periodic_executor_base*`, `periodic_executor.cpp` | `posted` are callbacks in the invoker. `BeginCleanup`, `SetPromises`, `EndCleanup` are the parts of `cleanup`: two sections under the lock and what is between them; `Unwind` is the way there over the delayed executor, `Throw` the way past it. Promises are named after the call of `Start` they belong to. |
| `Attachments`, `SlidingWindow` | `stream.cpp`, `sliding_window-inl.h` | Blocks with sizes; a window that puts packets into order and may overflow. |
| `AttachmentsOutputStream` | `TAttachmentsOutputStream` | `Compressed` is the end of a compression; `Confirm` sets the promise of a `Write` with the lock free; `pulls` are pull callbacks on their way. |
| `AttachmentsInputStream` | `TAttachmentsInputStream` | `DoEnqueuePayload`, `Read` and the abort; `LateCallback` is the read callback that an enqueuing thread owes. |
| `StreamingRequest` | `client.cpp`, `bus/channel.cpp`, `service_detail.cpp` | Composes both ends for the attachments of a request: payloads, feedback, cancelation and reply in flight, payloads that come before the request, the lease on them, timeouts, a broken connection. |
| `BlockStream` | what the streams promise | Abstract: blocks are received in the order they were sent, the end after all of them, and a confirmed `Close` means that everything was read. `StreamingRequest` implements it. |
| `RetryingChannel` | `retrying_channel.cpp` | One call for each mutation. `Send`, `Retry`, `DoRetry`, `SetNewUnderlying`, `CancelCall`; an attempt is active while the bus channel has it in its map. |
| `ResponseKeeper` | `response_keeper.cpp`, `service.cpp` | A context is one attempt at the server. `Execute`, `ReplyEpilogue`, `EndRequest` are the end of the handler, the reply, and the keeper hearing of it in its own invoker. |
| `RetriedMutation` | the two over a connection | Composes channel and keeper: requests and replies in flight, late replies taken for current ones, a crash, a stopped keeper, a broken connection. `applied` and `forgotten` are history. |
| `MC*` | - | Instances for TLC. |
| `*_proofs` | - | Inductive invariants, lemmas and theorems of the module of that name, with proofs. `AsyncPrimitives_proofs` is about two modules, `AsyncReaderWriterLock` and `AsyncBarrier`; it extends both, which is why the specification of the barrier is called `BarrierSpec` and its threads `Removers`. |

The underlying invoker is external to each invoker's model. It is taken at its
word: it runs what it is given, in any order and on any thread, and a terminated
one destroys callbacks unrun, which runs the destructors of the guards bound to
them. A callback that gives up its thread (a context switch of its fiber)
counts as ended, as the code has it; what is left of it comes back as another
callback. Not modelled are underlying invokers that run a callback inside
`Invoke`, the termination of the invoker under a suspendable one, and
profiling.

## Runs

All runs are exhaustive on their instance. The numbers of clients are chosen so
that one holds, one waits and one interferes, with enough threads that one is in
the middle of the operation while another performs a whole one. A class has one
passing run, which checks its invariants, action properties and liveness
together, without symmetry. `TypeOK` is checked for the semaphore; in the other
modules it documents the types and is the first conjunct of the invariant that
is proved.

| Run | Instance | Shows |
| --- | --- | --- |
| `semaphore` | Two threads; requests of 1, 1, 2 and 3 slots, the first taken unconditionally, the last larger than the total of 2, so that overdraft happens; the total is changed once, to 1 or 3 | `TypeOK`, `SlotsConserved`, `OneReleaser`, `NoLostWakeup`; `EveryWaiterServed` |
| `rw_lock` | Two threads, three readers and two writers, all of which may cancel | `MutualExclusion`, `CountsExact` (on which the `YT_VERIFY`s rest), `NobodyStranded`, `WritersFirst`; `EveryoneServed` |
| `barrier` | Two threads, three items, two calls, `Clear` at any time | `BarrierNotEarly`, `BarrierNotLate`; `BarrierReached` |
| `bounded` | Two threads, four callbacks, limit 2 changed twice to 0, 1 or 3, termination of the underlying invoker at any time | `PermitsExact`, `WithinLimit`; `EveryCallbackRuns`, `DecreaseTakesEffect` |
| `suspendable` | Two workers and the controller, two callbacks, two suspensions | `ActiveCountExact`, `NothingForgotten`; `SuspensionReported`, also if the invoker is never resumed |
| `serialized` | Three threads, four callbacks, termination at any time | `OneTicket`, `NothingStranded`, `ImplementsSerialExecutor`; `EveryCallbackEnds` |
| `periodic` | Two threads in the invoker, no period, a short or a long one, two starts, two events, one dropped callback; any invocation may throw | `OneAtATime`, `QuietAfterStop`, `NeverStalls`, `ExecutedFromTheStart`; `OutOfBandBegins`, `FuturesSet` |
| `streams` | Two blocks of 3 and 1 bytes and the end of the stream, a window of 2 bytes (so that a block is larger than the window), sequence windows of 1 and 2 packets, with and without codec and timeouts; one connection that may break | `WithinWindow`, `PullNotForgotten`, `PromisesSetOnce`, `ImplementsBlockStream`; `Answered` |
| `retries` | One mutation with three attempts, of which one may execute, one wait and one come late, and one fault: the caller cancels, the server crashes, its keeper is stopped, pending requests are cancelled or the connection breaks; any attempt may time out and any waiting context be cancelled | `AtMostOnce`, `AnswersAreTrue`, `PendingHasExecutor`; `WaitersReplied`, `CallersAnswered` |

`CHECK_DEADLOCK FALSE` is set everywhere: requests are one-shot, so every
behaviour comes to rest when all of them were made and answered; a periodic
executor comes to rest when it is stopped or has no period. That nobody is
left waiting at that point is what the liveness properties and `NobodyStranded`,
`NothingForgotten`, `NothingStranded`, `PullNotForgotten` and `NeverStalls` say.

Bounds. Requests, items, callbacks and calls are used once, which bounds every
queue; `MaxSetTotals`, `MaxSetCalls` and `MaxSuspends` bound the
reconfigurations. `MaxStarts`, `MaxEvents`, `MaxPosted` and `MaxCancels` bound
the periodic executor, which otherwise runs for ever; two starts are what a
restart during a run takes, and two posted callbacks are one for each thread.
`MaxFaults` bounds the faults around a retried mutation to one, together with
up to three attempts that time out at any moment. The counters of the code are bounded by the number of clients
and come nowhere near the range of their types.

Fairness. A thread inside an operation is weakly fair: spin locks are held for a
few instructions, and the loops are driven by finite queues. The owner of a
guard or a lock returns it, the underlying invoker runs what it accepted, and
callbacks end: these are obligations of the users and not of the class, and
without them waiting for ever is correct. Nothing makes clients arrive, cancel
or resume, and nothing makes the underlying invoker terminate.

In `streams`, threads run, the request reaches the server while the connection
is up, the handler reads to the end or to an error and then replies, an aborted
stream cancels its request, and timeouts expire in the configurations that have
them. In `retries`, handlers end, messages are delivered unless a fault loses
them, backoff times pass and an attempt that is not answered times out, as every
request does sooner or later: one that has no timeout gets
`default_request_timeout`, 24 hours (`bus/channel.cpp:392`). In `periodic`, a
timer fires, the invoker runs what was posted and callbacks end: they return,
throw or are unwound. Faults, cancelation, restarts and evictions are never assumed to
happen.

Assumptions of the two protocols. Messages are lost only with their connection,
and are not duplicated (the bus is TCP), but are handled in any order, since
each is handled by whatever thread has it. A stream has one reader, as
`Read` demands. For the keeper, `ExpirationTime` and `WarmupTime` are assumed to
be longer than any call with its retries, which is what they are configured for
(`config.cpp` only makes sure that warmup is not shorter than expiration), and
warmup is enabled. The handler carries out the mutation in one step.

What `AtMostOnce` and the second part of `AnswersAreTrue` leave out are *forgotten* mutations:
`CancelPendingRequests` forgets requests that still run, so that a retry
executes them again, and the warmup after `Stop` and `Start` only guards against
requests marked as retries, not against a first attempt that comes late.
`Answered` leaves out streams without timeouts some of whose payloads came so
long before the request that the lease on them ran out: the service drops them
without a word, and the writer waits until the request itself times out. The
configurations without timeouts stand for a request with the default timeout of
24 hours, which is not counted on.

A callback of the periodic executor that throws anything but the cancelation of
its fiber leaves `RunCallback` without `cleanup`, and the fiber loop only logs
the exception. `Throw` does that, at any invocation, and the properties say what
it takes away. `OneAtATime`, `QuietAfterStop` and `ExecutedFromTheStart` hold as
they are. `NeverStalls` and `OutOfBandBegins` hold as long as nothing was
thrown; afterwards the executor is dead, which `ThrowIsFinal` proves. Of
`FuturesSet` it takes the future that the last `Stop` has returned, until
another `Start` abandons it, and the futures of `Start` and `GetExecutedEvent`
while the executor is started; `Stop` still fails the latter.

`EveryWaiterServed` should be read with the bound in mind: `AsyncAcquire` and
`TryAcquire` do not look at the queue, so an endless stream of small requests
can keep a large one waiting. With finitely many requests the overtaking ends.

### Disagreements

Three runs are expected to fail. Each states what the repository says and shows
that the code does something else.

* `bounded_verify`: `Invoke` asserts that the queue is empty when it finds a
  free permit. A callback dropped by a terminated underlying invoker inside
  `RunCallback` returns its permit and does not look at the queue, so the next
  `Invoke` meets a free permit and callbacks in the queue: `YT_VERIFY` fails.
* `bounded_last_request`: while a decrease of the limit is pending, a request
  for the value still in force is taken for a request that changes nothing. The
  decrease goes on, and the limit becomes the one before last.
* `suspendable_stale`: `OnFinished` decrements the count and then reads
  `Suspended_`. A thread delayed between the two, or before it takes
  `FreeEvent_`, sets the future of a `Suspend` that came later, while another
  thread that counted up in between is passing a callback on. One suspension is
  enough; with `Resume` and a second `Suspend` the window is wider.

Other observations, made while modelling and built into the models:

* `TPeriodicExecutor`: `Start` before the last run has ended drops the promise
  that `Stop` has handed out; its future then fails as abandoned while the
  callback still runs (`periodic_executor_base.h` says that it "becomes set when
  all outstanding callback invocations are finished"). `QuietAfterStop` is about
  futures that are set without error. In the same situation the future of the
  new `Start` is set by the old invocation. After a callback that throws
  anything but a fiber cancelation the executor stays busy for ever: nothing
  runs any more, also after `Stop` and `Start`, and the future of `Stop` is not
  set although all invocations are finished, until the next `Start` abandons it.
* `IServiceContext::ReplyFrom`: cancelling one retry that waits for a pending
  response cancels the promise that all retries share, and it stays in the map
  of the keeper: later retries get the cancelation as well, while the request
  goes on and may succeed.
* `TRetryingChannel`: all attempts have one request id. The error with which the
  keeper refuses a late first attempt ("not marked as retry") is taken for the
  answer to the current attempt. `SetNewUnderlying` of an attempt that was
  overtaken by the next one cancels the newer control. A timeout of an attempt
  is not announced to the server.
* Streams: the reader is answered before the read callback, so the reply may
  overtake the last feedback and `Close` fail although everything was read.
  `Close` overtakes blocks that are still being compressed, and their writes
  fail. A sliding window that holds as many packets as it may rejects even the
  packet that is missing.

Two comments of `async_semaphore.h` are imprecise without being a matter for a
run: `Acquire` is said to return whether an overdraft happened and returns the
opposite (`FreeSlots_ >= 0`), and `TryAcquire` is said to leave a non-negative
number of slots, which is not so with overdraft enabled.

## Proofs

`AsyncSemaphore_proofs` proves, for any set of threads, any finite set of
requests with any numbers of slots, and any totals, that the state stays
well-typed (`TypeCorrect`), that slots are conserved (`SlotsAreConserved`), that
no wakeup is lost (`WakeupsAreNotLost`) and that one thread releases
(`ReleaserIsUnique`). The inductive invariant `IInv` is

    TypeOK /\ OneReleaser /\ Bookkeeping /\ SlotsConserved /\ NoLostWakeup

`Bookkeeping` says that the queue and the batches hold distinct requests with
the status they should have, and that a request without a grant has no slots in
its guard. It is needed because the sum of the slots in use is taken over the
requests, and popping the same request twice would count it once. That sum is
written without recursion, as the number of units (r, i) with i up to the slots
of r; the first lemmas say how it changes when one request changes and when a
batch is granted. `NoLostWakeup` is inductive together with the rest: only a
thread that leaves the loop can make its premise true, and it leaves only after
it found that the front of the queue does not fit.

`SerializedInvoker_proofs` proves, for any threads and callbacks, `TypeCorrect`,
`TicketIsUnique`, `NoneStranded`, `OrderIsKept` and, as the main result,
`Implements`: the invoker implements `SerialExecutor`. Its invariant treats the
ticket as a token (`OneTicket`); `RunnersRun` and `RunningHeld` tie running
callbacks to the thread that has the token, `QueueDistinct` says that the queue
holds each queued callback once, and `DeadIsQuiet` that nothing is left after
death. Initial states map to initial states; `Invoke`, `RunCallback`,
`EndCallback` and `Discard` map to `Accept` or `Refuse`, `Begin`, `End` and
`Die`; the other steps leave the abstract state alone.

The first part of `AsyncPrimitives_proofs` proves of the reader-writer lock, for
any threads, any finite set of readers and any writers, `Exclusion`, `CountsAreExact`, `NobodyIsStranded` and, of single
steps, `WritersGoFirst`. Exclusion does not follow from itself: between the two
locked sections of `WakeNext` the lock belongs to a promise that is being set,
or to a thread that has learnt that its writer cancelled. `OneWriter` therefore
treats the lock of a writer as a token that is with one writer, granted or
granting, or with one thread in `RetryWriter`. `QueuesMatch`, `HandMatches` and
`HandsDisjoint` say where each waiting or woken client is, so that the reader
count, a cardinality, changes by one when one client moves and by the size of
the batch when a batch is released.

The second part proves `BarrierIsNotEarly` and `BarrierIsNotLate` of the barrier,
for any threads, items and calls. The invariant, `BarrierInv`, relates numbers to items: items present
have distinct occupied slots (`ItemsHaveSlots`, `SlotsDiffer`), occupied slots
have an item (`SlotsHaveItems`), and the first slot is never free
(`FirstIsOccupied`). `CookieSeparates` is the idea of the class: the cookie of a
subscription tells the items that its calls await from those inserted later.
With the cookies of the subscriptions in increasing order, what `Remove` pops are
exactly the barriers whose items are gone. The first slot being occupied is what
makes the barrier not late: a subscription that stays has a cookie beyond it, and
the item in it is awaited. `PromisesMatch` and `PendingHasOwner` follow promises
shared by several calls to the queue or to the thread that sets them.

`BoundedConcurrencyInvoker_proofs` proves, for any threads, any finite set of
callbacks and any limits, `PermitsAreExact`, `StaysWithinLimit` and
`DecreaseHasCallback`: a pending decrease is below the number of callbacks out.
The last one is the strengthening that the second needs, since a decrease takes
effect in the `OnFinished` that brings the count down to it, and it is what
`DecreaseTakesEffect` rests on. `QueueMatches`, `LaunchMatches` and
`LaunchDisjoint` say that no callback is queued or in hand twice.

`SuspendableInvoker_proofs` proves, for any finite sets of workers and callbacks
and any number of suspensions, `ActiveCountIsExact`, `SchedulerIsUnique`,
`NothingIsForgotten` and `AnswerIsNotLost`. All are about single atomic accesses.
`OneScheduler` says that the exchange on `SchedulingMore_` is a lock, also for
the `OnFinished` called inside the loop. `QueueIsWatched` strengthens
`NothingForgotten` to the middle of operations: a callback may be in the queue
of an invoker that is not suspended only while a thread has still to look, be it
in `Invoke`, in the loop or in the check after it. `SuspensionHasReporter` does
the same for the future of `Suspend`.

`PeriodicExecutor_proofs` proves, for any threads, periods and bounds,
`RunsOneAtATime`, `IsQuietAfterStop`, `DoesNotStall`, `ThrowIsFinal` and, of
single steps, `EventsFromTheStart`. The invariant ties the flags to the phases of the threads:
`Busy_` to a thread in `RunCallback` (`BusyExact`), `ExecutingCallback_` to one
that has yet to reach its cleanup (`ExecutingExact`), each as long as no callback
has thrown. `DeadWhenThrown` says what holds afterwards: `Busy_` is set
and no thread is in `RunCallback`, so that everything posted is skipped. From it
follows `ThrowIsFinal`: once a callback has thrown, nothing runs ever again,
whatever is posted and however often the executor is restarted. `NotedMatches`,
`IdleMatches` and `StopWaits` number the promises of `Stop` by the call of
`Start` they belong to, because a cleanup may hold the promise of an earlier one
when the executor has been started again. `TakenMatches` says that the promise
an invocation took with it is not the one later callers get.

`RetriedMutation_proofs` proves, for any mutations, any number of attempts and
any number of faults, `MutationsAtMostOnce`, `AnswersTrue` and
`PendingIsExecuted`. The argument goes by the *fate* of a mutation: it was
applied, or somebody knows that its handler failed. A fate is decided once
(`OneFate`), and from then on it is kept (`FateKept`): by the keeper, by a
context that is about to tell the keeper, or because the mutation is *shut*. A
mutation is shut when its first attempt has come or is lost and retries are
refused or nothing is left of the call: the keeper is stopped, or it is warming
up and the call was in progress when it was started. `OneBusy` says that one
context at a time works on a mutation, and that the keeper has it as pending
unless the mutation is shut, which is how it survives a keeper that was stopped
under a running handler. A crash, `Stop`, eviction and the end of the warmup all
replace one reason for `FateKept` by another; that is why no weaker statement is
inductive. `OkIsTrue` follows every success from the handler to the caller, also
for forgotten mutations.

`StreamingRequest_proofs` proves, for any number and sizes of blocks, any window
in bytes and any windows in packets, with and without codec, `TypeCorrect`,
`WindowRespected`, `PullOnItsWay`, `SetOnce` and, as the main result,
`Refinement`: client, connection and service together implement `BlockStream`.

The argument is that there is one stream. The blocks that were accepted, and the
end when `Close` was called, are a sequence in which entry i is the block i; every
queue, payload and reading is a `Run` of consecutive entries of it, and every
position is `Pos`, the bytes before some entry. The parts of the invariant say
which ones. `InOrder`: accepted are the first blocks, and those that are being
compressed or held in the window of the writer come after them. `QueueIsRest`:
the data queue is the end of the stream, and the write and sent positions are
those of its two ends. `ConfirmationsMatch`: confirmations are waited for by the
last entries, each at its position. `PayloadsAreCuts`: there is a way to cut what
was sent into numbered pieces such that each payload, in flight, kept by the
service for a request that has not come, or held in the window of the reader,
is the piece with its number, and the pieces before the next number have
arrived. `ReadIsPrefix`: what was read and what waits to be read is the
beginning of the stream. `ConfirmedWhenRead`: nobody knows of more than was
read. The cuts are stated to exist and not computed: payloads are of any size,
come in any order and may be lost, so the state does not determine them. The
rest is about callbacks and promises: `PromisesOwned` (a promise has at most one
place from which it can be set), `ReadWaits`, `UnreadFits` and
`PullNotForgotten`.

Bytes are summed without recursion, as the number of pairs (i, k) with k up to
the size of entry i, as in the semaphore; the first lemmas say that the sum of a
run is the difference of two positions and that positions grow with entries. The
lemmas on `SlidingWindow` say what `Missing`, `Released` and `AddPacket` give for
any window, which is the order the two windows restore. The step lemmas follow
the actions. `StepKeeps` puts them together and also says of each step what it
does to the stream (`StreamStep`: entries are added at the end, the reader takes
the next one, the close is confirmed, or nothing happens), from which `StepRefines`
obtains the step of `BlockStream`.

The assumptions are those of the modules: natural numbers where the code has
sizes and limits (blocks are not empty and windows not zero), finite sets where something is counted (requests, readers,
callbacks, workers), disjoint names (readers and writers, the controller and the
workers), at least one attempt, and that contexts are pairs of a mutation and an
attempt. `SerializedInvoker` and `AsyncBarrier` assume nothing. TLC evaluates all
of them on the instances of the runs, and it has checked each `IInv` on the
instance of the module's run.

Only model-checked:

* liveness under fairness, which is outside the prover's reach:
  `EveryWaiterServed`, `EveryoneServed`, `BarrierReached`, `EveryCallbackRuns`,
  `DecreaseTakesEffect`, `SuspensionReported`, `EveryCallbackEnds`, `Answered`,
  `WaitersReplied`, `CallersAnswered`, `OutOfBandBegins`, `FuturesSet`;
* the three properties that do not hold, which have counterexamples.

## Not modelled

Listed in `PROJECT.json` with the reasons. Fibers, thread pools, delayed
execution and throttlers depend on real time or on context switches; the bus is
input and output. Protocol buffers, YSON, skiff, formats and other conversions
are data without concurrency.

Left out of the components that are modelled: the shutdown of the delayed
executor, which aborts the cleanup of an unwound callback in
`TPeriodicExecutor`; the timeout that the service itself keeps for a request
(`HandleTimeout` of `service_detail.cpp`), whose abort of the streams is the one
that cancelation and a broken connection cause at any time in `streams`. The
two sections under the lock of `RegisterRequest` are one step of
`StreamingRequest`, and taking a promise from the keeper and setting it are one
step of `ResponseKeeper`.

## Plan

All safety properties of the runs that hold are proved. What could come next, in
this order:

1. Models of `TNonblockingBatcher` (batches cut by a stale timeout, drain),
   `TAsyncLooper` and the hedging channel.
2. The response stream, with the service as the writer, in a module that
   composes the same two stream modules the other way round.
