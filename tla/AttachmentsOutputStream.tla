---------------------- MODULE AttachmentsOutputStream ----------------------
(***************************************************************************)
(* TAttachmentsOutputStream (yt/yt/core/rpc/stream.cpp): the writing end   *)
(* of an RPC attachment stream.  Blocks are numbered by the order of the   *)
(* Write calls; End stands for the null attachment that Close queues, and  *)
(* for the future of Close.                                                *)
(*                                                                         *)
(* A step is a section that holds Lock_.  The pull callback, and the       *)
(* setting of promises that were confirmed, follow with the lock free and  *)
(* are steps of their own (pulls, confirming).  Promises that fail are set *)
(* in the step that takes them.  The stall and drain timers only measure.  *)
(***************************************************************************)
EXTENDS Attachments, SlidingWindow

CONSTANT WindowSize   \* WindowSize_

ASSUME WindowSizeAssumption == WindowSize \in Nat \ {0}

VARIABLES
    codec,              \* Codec_, "none" or "some"
    written,            \* Write calls so far, CompressionSequenceNumber_
    compressing,        \* blocks in the compression pool
    outWindow,          \* Window_, of compressed blocks
    dataQueue,          \* DataQueue_
    confirmationQueue,  \* ConfirmationQueue_, of [position, promise]
    closeCalled,        \* whether ClosePromise_ is there
    outError,           \* whether Error_ is set
    outClosed,          \* Closed_
    writePosition,      \* WritePosition_
    sentPosition,       \* SentPosition_
    ackedPosition,      \* ReadPosition_, as far as feedback told
    payloadNumber,      \* PayloadSequenceNumber_
    pulls,              \* PullCallback_ calls about to be made
    future,             \* future[f]: the future of a Write, or of Close
    confirming,         \* promises taken to be set to OK, not set yet
    accepted            \* blocks queued for sending (history)

queueVars == <<dataQueue, confirmationQueue, writePosition, accepted>>
outVars == <<codec, written, compressing, outWindow, queueVars, closeCalled, outError, outClosed,
             sentPosition, ackedPosition, payloadNumber, pulls, future, confirming>>

NoPromise == 0

OutInit ==
    /\ codec \in {"none", "some"}
    /\ written = 0
    /\ compressing = {}
    /\ outWindow = EmptyWindow
    /\ dataQueue = <<>>
    /\ confirmationQueue = <<>>
    /\ closeCalled = "no"
    /\ outError = "no"
    /\ outClosed = "no"
    /\ writePosition = 0
    /\ sentPosition = 0
    /\ ackedPosition = 0
    /\ payloadNumber = 0
    /\ pulls = 0
    /\ future = [f \in Blocks \cup {End} |-> "none"]
    /\ confirming = {}
    /\ accepted = <<>>

\* Mutant: the first block of a payload is always pulled.
CanPullMoreFirst(queue, i, sent, acked) ==
    sent - acked + Bytes(queue, i) <= WindowSize \/ i = 1

\* CanPullMore, for the i-th entry of a queue that is being pulled.
CanPullMore(queue, i, sent, acked) ==
    \/ sent - acked + Bytes(queue, i) <= WindowSize
    \/ i = 1 /\ sent = acked

\* Mutant: a block larger than the window does not ask to be pulled.
PullsAfterSmall(queue, sent, acked) ==
    IF queue # <<>> /\ sent - acked + SizeOf(Head(queue)) <= WindowSize THEN pulls + 1 ELSE pulls

\* MaybeInvokePullCallback: the calls to be made after the step.
PullsAfter(queue, sent, acked) ==
    IF queue # <<>> /\ CanPullMore(queue, 1, sent, acked) THEN pulls + 1 ELSE pulls

\* Promise.Set of the futures in fs; a promise that is set already is "twice".
Settle(fut, fs, outcome) ==
    [f \in DOMAIN fut |->
        IF f \notin fs THEN fut[f] ELSE IF fut[f] = "pending" THEN outcome ELSE "twice"]

\* Promise.TrySet of the futures in fs.
TrySettle(fut, fs, outcome) == Settle(fut, {f \in fs : fut[f] = "pending"}, outcome)

\* OnWindowPacketsReady of a stream that was closed or aborted.
RefusePackets(bs, fut) ==
    /\ closeCalled = "yes" \/ outError = "yes"
    /\ future' = Settle(fut, {bs[i] : i \in DOMAIN bs}, "failed")
    /\ UNCHANGED <<queueVars, pulls, confirming>>

\* The window covers a block that ends at a position: it is confirmed at once.
Fits(position) == position - ackedPosition <= WindowSize

\* OnWindowPacketsReady: queues the blocks and confirms those that fit into
\* the window at once.
AcceptPackets(bs, fut) ==
    LET position(i) == writePosition + Bytes(bs, i)
    IN  /\ closeCalled = "no" /\ outError = "no"
        /\ writePosition' = writePosition + Bytes(bs, Len(bs))
        /\ dataQueue' = dataQueue \o bs
        /\ confirmationQueue' = confirmationQueue \o
             [i \in DOMAIN bs |-> [position |-> position(i),
                                   promise |-> IF Fits(position(i)) THEN NoPromise ELSE bs[i]]]
        /\ confirming' = confirming \cup {bs[i] : i \in {j \in DOMAIN bs : Fits(position(j))}}
        /\ future' = fut
        /\ accepted' = accepted \o bs
        /\ pulls' = PullsAfter(dataQueue', sentPosition, ackedPosition)

OnWindowPacketsReady(bs, fut) == RefusePackets(bs, fut) \/ AcceptPackets(bs, fut)

\* Write: with a codec, the block first goes to the compression pool.
Write ==
    LET b == written + 1
        fut == [future EXCEPT ![b] = "pending"]
    IN  /\ written < N
        /\ written' = b
        /\ \/ /\ codec = "none"
              /\ OnWindowPacketsReady(<<b>>, fut)
              /\ UNCHANGED compressing
           \/ /\ codec = "some"
              /\ compressing' = compressing \cup {b}
              /\ future' = fut
              /\ UNCHANGED <<queueVars, pulls, confirming>>
        /\ UNCHANGED <<codec, outWindow, closeCalled, outError, outClosed,
                       sentPosition, ackedPosition, payloadNumber>>

\* The pool has compressed block b: the blocks that are next go on, in order.
Compressed(b) ==
    /\ b \in compressing
    /\ compressing' = compressing \ {b}
    /\ outWindow' = AddPacket(outWindow, b - 1, b)
    /\ OnWindowPacketsReady(Released(outWindow, b - 1, b), future)
    /\ UNCHANGED <<codec, written, closeCalled, outError, outClosed,
                   sentPosition, ackedPosition, payloadNumber>>

\* Close of a stream without error; a second call returns the same future.
Close ==
    /\ closeCalled = "no" /\ outError = "no"
    /\ closeCalled' = "yes"
    /\ future' = [future EXCEPT ![End] = "pending"]
    /\ dataQueue' = Append(dataQueue, End)
    /\ writePosition' = writePosition + SizeOf(End)
    /\ confirmationQueue' = Append(confirmationQueue,
                                   [position |-> writePosition', promise |-> NoPromise])
    /\ pulls' = PullsAfter(dataQueue', sentPosition, ackedPosition)
    /\ UNCHANGED <<codec, written, compressing, outWindow, outError, outClosed, sentPosition,
                   ackedPosition, payloadNumber, confirming, accepted>>

\* The promises that DoAbort fails.
Unconfirmed ==
    ({confirmationQueue[i].promise : i \in DOMAIN confirmationQueue} \ {NoPromise})
    \cup {f \in {End} : closeCalled = "yes"}

\* DoAbort, when no error was set before: fails the writes that wait to be
\* confirmed, and Close.
DoAbort ==
    /\ outError' = "yes"
    /\ confirmationQueue' = <<>>
    /\ future' = TrySettle(future, Unconfirmed, "failed")
    /\ UNCHANGED <<codec, written, compressing, outWindow, dataQueue, closeCalled, outClosed,
                   writePosition, sentPosition, ackedPosition, payloadNumber, pulls, confirming,
                   accepted>>

\* Abort
AbortOutput == IF outError = "no" THEN DoAbort ELSE UNCHANGED outVars

\* AbortUnlessClosed
AbortOutputUnlessClosed ==
    IF outError = "no" /\ outClosed = "no" THEN DoAbort ELSE UNCHANGED outVars

\* HandleFeedback of a position that is news: confirms the writes the window
\* now covers, and Close when everything was read.  A position past the write
\* position would throw, and does not occur (WithinWindow).
HandleFeedback(position) ==
    LET confirmed == {i \in DOMAIN confirmationQueue :
                        confirmationQueue[i].position <= position + WindowSize}
        complete == closeCalled = "yes" /\ position = writePosition
    IN  /\ outError = "no" /\ ackedPosition < position
        /\ ackedPosition' = position
        /\ confirmationQueue' =
             SubSeq(confirmationQueue, Cardinality(confirmed) + 1, Len(confirmationQueue))
        /\ confirming' = confirming \cup
             ({confirmationQueue[i].promise : i \in confirmed} \ {NoPromise})
             \cup {f \in {End} : complete}
        /\ outClosed' = IF complete THEN "yes" ELSE outClosed
        /\ pulls' = PullsAfter(dataQueue, sentPosition, position)
        /\ UNCHANGED <<codec, written, compressing, outWindow, dataQueue, closeCalled, outError,
                       writePosition, sentPosition, payloadNumber, future, accepted>>

\* The promise of a confirmed write is Set, that of Close TrySet.
Confirm(f) ==
    /\ f \in confirming
    /\ confirming' = confirming \ {f}
    /\ future' = IF f = End THEN TrySettle(future, {f}, "ok") ELSE Settle(future, {f}, "ok")
    /\ UNCHANGED <<codec, written, compressing, outWindow, queueVars, closeCalled, outError,
                   outClosed, sentPosition, ackedPosition, payloadNumber, pulls>>

\* How many blocks TryPull takes: as many as the window admits, the first
\* one also when it is larger than the whole window.
PullCount ==
    IF outError = "yes" THEN 0
    ELSE Max({n \in 0 .. Len(dataQueue) :
                \A i \in 1 .. n : CanPullMore(dataQueue, i, sentPosition, ackedPosition)})

\* The payload that TryPull returns, if any.
PulledPayload ==
    IF PullCount = 0 THEN {}
    ELSE {[seq |-> payloadNumber, blocks |-> SubSeq(dataQueue, 1, PullCount)]}

\* TryPull, called by the pull callback.
TryPull ==
    /\ pulls > 0
    /\ pulls' = pulls - 1
    /\ sentPosition' = sentPosition + Bytes(dataQueue, PullCount)
    /\ dataQueue' = SubSeq(dataQueue, PullCount + 1, Len(dataQueue))
    /\ payloadNumber' = IF PullCount = 0 THEN payloadNumber ELSE payloadNumber + 1
    /\ UNCHANGED <<codec, written, compressing, outWindow, confirmationQueue, closeCalled, outError,
                   outClosed, writePosition, ackedPosition, future, confirming, accepted>>
=============================================================================
