----------------------- MODULE AttachmentsInputStream ----------------------
(***************************************************************************)
(* TAttachmentsInputStream (yt/yt/core/rpc/stream.cpp): the reading end of *)
(* an RPC attachment stream, with one reader.  Payloads come with sequence *)
(* numbers, from any thread; a sliding window puts them back into order.   *)
(*                                                                         *)
(* A step is a section that holds Lock_.  The read callback follows with   *)
(* the lock free: in the call of Read, or, when a payload answers a Read   *)
(* that waits, after the promise was set (owed), so that the reader may be *)
(* ahead of it.                                                            *)
(***************************************************************************)
EXTENDS Attachments, SequencesExt, SlidingWindow

CONSTANT MaxWindowSizes   \* values for MaxWindowSize

ASSUME MaxWindowSizesAssumption == MaxWindowSizes \subseteq Nat \ {0}

VARIABLES
    maxWindowSize,   \* Window_.MaxSize_
    inWindow,        \* Window_
    queue,           \* Queue_
    promise,         \* Promise_, "none" or "armed"
    inError,         \* whether Error_ is set
    inClosed,        \* Closed_
    readPosition,    \* ReadPosition_
    readFuture,      \* the future of the last Read
    inRead,          \* whether Read still has to call ReadCallback_
    owed,            \* ReadCallback_ calls that enqueuing threads have to make
    inAbort,         \* whether a call of Abort is about to be made
    got              \* attachments taken from the queue (history)

inVars == <<maxWindowSize, inWindow, queue, promise, inError, inClosed, readPosition, readFuture,
            inRead, owed, inAbort, got>>

InInit ==
    /\ maxWindowSize \in MaxWindowSizes
    /\ inWindow = EmptyWindow
    /\ queue = <<>>
    /\ promise = "none"
    /\ inError = "no"
    /\ inClosed = "no"
    /\ readPosition = 0
    /\ readFuture = "none"
    /\ inRead = "no"
    /\ owed = 0
    /\ inAbort = "no"
    /\ got = <<>>

\* Promise_.Set of the Read that waits.
SetRead(outcome) == IF readFuture = "pending" THEN outcome ELSE "twice"

\* An entry is taken from the queue.
Pop(q) ==
    /\ queue' = Tail(q)
    /\ readPosition' = readPosition + SizeOf(Head(q))
    /\ inClosed' = IF Head(q) = End THEN "yes" ELSE inClosed
    /\ got' = Append(got, Head(q))

\* Read, before the end and with no other Read in progress: it fails, waits,
\* or takes an entry and goes on to the read callback.
Read ==
    /\ inClosed = "no" /\ readFuture \in {"none", "value"} /\ inRead = "no"
    /\ \/ /\ inError = "yes"
          /\ readFuture' = "error"
          /\ UNCHANGED <<promise, queue, readPosition, inClosed, got, inRead>>
       \/ /\ inError = "no" /\ queue = <<>>
          /\ promise' = "armed"
          /\ readFuture' = "pending"
          /\ UNCHANGED <<queue, readPosition, inClosed, got, inRead>>
       \/ /\ inError = "no" /\ queue # <<>>
          /\ Pop(queue)
          /\ readFuture' = "value"
          /\ inRead' = "yes"
          /\ UNCHANGED promise
    /\ UNCHANGED <<maxWindowSize, inWindow, inError, owed, inAbort>>

\* GetFeedback
GetFeedback == readPosition

\* Read calls ReadCallback_ and returns.
ReadReturns ==
    /\ inRead = "yes"
    /\ inRead' = "no"
    /\ UNCHANGED <<maxWindowSize, inWindow, queue, promise, inError, inClosed, readPosition,
                   readFuture, owed, inAbort, got>>

\* An enqueuing thread calls ReadCallback_, after it has answered a Read.
LateCallback ==
    /\ owed > 0
    /\ owed' = owed - 1
    /\ UNCHANGED <<maxWindowSize, inWindow, queue, promise, inError, inClosed, readPosition,
                   readFuture, inRead, inAbort, got>>

\* Mutant: payloads are still taken after an error.
AliveAlways == TRUE

\* The check that DoEnqueuePayload begins with.
Alive == inError = "no"

\* Whether DoEnqueuePayload answers a Read with the entries now queued.
Answers(q) == promise = "armed" /\ q # <<>>

\* DoEnqueuePayload of a stream without error: the payload takes its place,
\* and the first entry answers a Read that waits.
Accept(p) ==
    LET q == queue \o FlattenSeq(Released(inWindow, p.seq, p.blocks))
    IN  /\ Alive
        /\ ~Rejects(inWindow, p.seq, maxWindowSize)
        /\ inWindow' = AddPacket(inWindow, p.seq, p.blocks)
        /\ \/ /\ Answers(q)
              /\ Pop(q)
              /\ promise' = "none"
              /\ readFuture' = SetRead("value")
              /\ owed' = owed + 1
           \/ /\ ~Answers(q)
              /\ queue' = q
              /\ UNCHANGED <<promise, readFuture, readPosition, inClosed, got, owed>>
        /\ UNCHANGED <<maxWindowSize, inError, inRead, inAbort>>

\* DoEnqueuePayload when the window does not take the packet, or
\* DecompressAndEnqueuePayload when the codec fails: the exception is caught
\* with the lock free, and Abort follows.
Refuse(p, codecFails) ==
    /\ codecFails \/ (Alive /\ Rejects(inWindow, p.seq, maxWindowSize))
    /\ inAbort' = "yes"
    /\ UNCHANGED <<maxWindowSize, inWindow, queue, promise, inError, inClosed, readPosition,
                   readFuture, inRead, owed, got>>

\* DoEnqueuePayload
DoEnqueuePayload(p) ==
    \/ Accept(p)
    \/ Refuse(p, FALSE)
    \/ ~Alive /\ UNCHANGED inVars

\* DoAbort, when no error was set before: fails the Read that waits.
DoAbortInput ==
    /\ inError' = "yes"
    /\ readFuture' = IF promise = "armed" THEN SetRead("error") ELSE readFuture
    /\ UNCHANGED <<maxWindowSize, inWindow, queue, promise, inClosed, readPosition, inRead, owed,
                   got>>

\* Abort, after an exception, by the timer of a Read, or because a feedback
\* could not be sent.
AbortInput ==
    /\ inAbort = "yes"
    /\ inAbort' = "no"
    /\ IF inError = "no" THEN DoAbortInput
       ELSE UNCHANGED <<maxWindowSize, inWindow, queue, promise, inError, inClosed, readPosition,
                        readFuture, inRead, owed, got>>

\* AbortUnlessClosed
AbortInputUnlessClosed ==
    IF inError = "no" /\ inClosed = "no" THEN DoAbortInput /\ UNCHANGED inAbort
    ELSE UNCHANGED inVars

\* OnTimeout of a Read that waits: the timer fires, and calls Abort.  The
\* Read may be answered in between.
FireReadTimer ==
    /\ readFuture = "pending"
    /\ inAbort' = "yes"
    /\ UNCHANGED <<maxWindowSize, inWindow, queue, promise, inError, inClosed, readPosition,
                   readFuture, inRead, owed, got>>
=============================================================================
