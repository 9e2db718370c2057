-------------------------- MODULE StreamingRequest -------------------------
(***************************************************************************)
(* A request that streams its attachments: the client writes to a          *)
(* TAttachmentsOutputStream, the handler of the method on the server reads *)
(* from a TAttachmentsInputStream.  Payloads go one way, feedback about    *)
(* the read position the other, between client.cpp, bus/channel.cpp and    *)
(* service_detail.cpp in yt/yt/core/rpc.                                   *)
(*                                                                         *)
(* A payload is sent, and handled, by whatever thread has pulled or        *)
(* received it, so messages may overtake each other.  The connection may   *)
(* break, which loses what is in flight and is noticed by both sides.      *)
(* Payloads may come before the request they belong to; the service keeps  *)
(* them for a while.                                                       *)
(***************************************************************************)
EXTENDS AttachmentsOutputStream, AttachmentsInputStream

CONSTANT Configs   \* which <<codec, maxWindowSize, timeouts>> to look at

ASSUME ConfigsAssumption == Configs \subseteq {"none", "some"} \X MaxWindowSizes \X {"yes", "no"}

VARIABLES
    timeouts,          \* whether timeouts expire, "yes" or "no" (they are off, or long)
    bus,               \* the connection, "up" or "dead"
    payloads,          \* payloads on their way into the input stream
    feedbacks,         \* read positions on their way to the client
    cancelation,       \* whether a cancelation is on its way to the server
    reply,             \* whether the reply is on its way to the client
    request,           \* the client's view: "active", "finalized" or "finished"
    server,            \* the service's view: "unknown", "registered", "finished"
    pendingPayloads,   \* RequestIdToPendingPayloads, of this request
    lost               \* whether the lease on pending payloads took some away

netVars == <<bus, payloads, feedbacks, cancelation, reply>>
serverVars == <<server, pendingPayloads, lost>>
vars == <<outVars, inVars, timeouts, netVars, request, serverVars>>

Init ==
    /\ OutInit
    /\ InInit
    /\ timeouts \in {"yes", "no"}
    /\ <<codec, maxWindowSize, timeouts>> \in Configs
    /\ bus = "up"
    /\ payloads = {}
    /\ feedbacks = {}
    /\ cancelation = "no"
    /\ reply = "no"
    /\ request = "active"
    /\ server = "unknown"
    /\ pendingPayloads = {}
    /\ lost = "no"

-----------------------------------------------------------------------------
\* The client.

ClientCalls ==
    /\ Write \/ Close
    /\ UNCHANGED <<inVars, timeouts, netVars, request, serverVars>>

ClientSteps ==
    /\ (\E b \in Blocks : Compressed(b)) \/ (\E f \in Blocks \cup {End} : Confirm(f))
    /\ UNCHANGED <<inVars, timeouts, netVars, request, serverVars>>

\* OnPullRequestAttachmentsStream
Pull ==
    /\ TryPull
    /\ payloads' = IF bus = "up" THEN payloads \cup PulledPayload ELSE payloads
    /\ UNCHANGED <<inVars, timeouts, bus, feedbacks, cancelation, reply, request, serverVars>>

\* OnStreamingFeedbackMessage: feedback reaches the stream while the request is
\* active, and may still do so when it was looked up before that ended.
ReceiveFeedback(position) ==
    /\ position \in feedbacks
    /\ feedbacks' = feedbacks \ {position}
    /\ \/ request \in {"active", "finalized"} /\ HandleFeedback(position)
       \/ /\ request # "active" \/ outError = "yes" \/ position <= ackedPosition
          /\ UNCHANGED outVars
    /\ UNCHANGED <<inVars, timeouts, bus, payloads, cancelation, reply, request, serverVars>>

\* Abort: by the timer of a Write or of Close, which may have fired before the
\* promise it guards was set, or by OnRequestStreamingPayloadAcked with an error.
AbortWrites ==
    /\ \/ timeouts = "yes" /\ (written > 0 \/ closeCalled = "yes")
       \/ bus = "dead" /\ payloadNumber > 0
    /\ AbortOutput
    /\ UNCHANGED <<inVars, timeouts, netVars, request, serverVars>>

\* Cancel: by the caller, or by the Aborted signal of the stream.
Cancel ==
    /\ request = "active"
    /\ request' = "finalized"
    /\ cancelation' = IF bus = "up" THEN "yes" ELSE cancelation
    /\ UNCHANGED <<outVars, inVars, timeouts, bus, payloads, feedbacks, reply, serverVars>>

\* OnResponseMessage
ReceiveReply ==
    /\ reply = "yes"
    /\ reply' = "no"
    /\ request' = IF request = "active" THEN "finalized" ELSE request
    /\ UNCHANGED <<outVars, inVars, timeouts, bus, payloads, feedbacks, cancelation, serverVars>>

\* The session of the channel terminates with its bus.
Terminate ==
    /\ bus = "dead" /\ request = "active"
    /\ request' = "finalized"
    /\ UNCHANGED <<outVars, inVars, timeouts, netVars, serverVars>>

\* HandleTimeout of the request, of which the server is not told.
TimeOut ==
    /\ timeouts = "yes" /\ request = "active"
    /\ request' = "finalized"
    /\ UNCHANGED <<outVars, inVars, timeouts, netVars, serverVars>>

\* TClientResponse::Finish, in the invoker of the response.
Finish ==
    /\ request = "finalized"
    /\ request' = "finished"
    /\ AbortOutputUnlessClosed
    /\ UNCHANGED <<inVars, timeouts, netVars, serverVars>>

-----------------------------------------------------------------------------
\* The server.

\* Mutant: payloads that came before the request are forgotten.
RegisterRequestForgets ==
    /\ server = "unknown"
    /\ server' = "registered"
    /\ pendingPayloads' = {}
    /\ UNCHANGED <<outVars, inVars, timeouts, netVars, request, lost>>

\* RegisterRequest, which goes on to handle the payloads that came before it.
RegisterRequest ==
    /\ server = "unknown"
    /\ server' = "registered"
    /\ payloads' = payloads \cup pendingPayloads
    /\ pendingPayloads' = {}
    /\ UNCHANGED <<outVars, inVars, timeouts, bus, feedbacks, cancelation, reply, request, lost>>

\* OnPendingPayloadsLeaseExpired
LeaseExpires ==
    /\ pendingPayloads # {}
    /\ pendingPayloads' = {}
    /\ lost' = IF server = "unknown" THEN "yes" ELSE lost
    /\ UNCHANGED <<outVars, inVars, timeouts, netVars, request, server>>

\* HandleStreamingPayload of the service, for a request it does not know (yet)
KeepPayload(p) ==
    /\ p \in payloads /\ server # "registered"
    /\ payloads' = payloads \ {p}
    /\ pendingPayloads' = pendingPayloads \cup {p}
    /\ UNCHANGED <<outVars, inVars, timeouts, bus, feedbacks, cancelation, reply, request, server,
                   lost>>

\* HandleStreamingPayload of the context: EnqueuePayload, after decompression
\* if there is a codec.
EnqueuePayload(p) ==
    /\ p \in payloads /\ server = "registered"
    /\ payloads' = payloads \ {p}
    /\ DoEnqueuePayload(p)
    /\ UNCHANGED <<outVars, timeouts, bus, feedbacks, cancelation, reply, request, serverVars>>

\* DecompressAndEnqueuePayload when the codec fails
DecompressionFails(p) ==
    /\ codec = "some" /\ p \in payloads /\ server = "registered"
    /\ payloads' = payloads \ {p}
    /\ Refuse(p, TRUE)
    /\ UNCHANGED <<outVars, timeouts, bus, feedbacks, cancelation, reply, request, serverVars>>

\* The handler of the method reads.
HandlerReads ==
    /\ server = "registered"
    /\ Read
    /\ UNCHANGED <<outVars, timeouts, netVars, request, serverVars>>

\* OnRequestAttachmentsStreamRead, called by Read or by an enqueuing thread.
SendFeedback ==
    /\ ReadReturns \/ LateCallback
    /\ feedbacks' = IF bus = "up" THEN feedbacks \cup {GetFeedback} ELSE feedbacks
    /\ UNCHANGED <<outVars, timeouts, bus, payloads, cancelation, reply, request, serverVars>>

\* OnRequestStreamingFeedbackAcked with an error
FeedbackFails ==
    /\ bus = "dead" /\ readPosition > 0 /\ inError = "no"
    /\ inAbort' = "yes"
    /\ UNCHANGED <<maxWindowSize, inWindow, queue, promise, inError, inClosed, readPosition,
                   readFuture, inRead, owed, got>>
    /\ UNCHANGED <<outVars, timeouts, netVars, request, serverVars>>

ReadTimerFires ==
    /\ timeouts = "yes"
    /\ FireReadTimer
    /\ UNCHANGED <<outVars, timeouts, netVars, request, serverVars>>

AbortReads ==
    /\ AbortInput
    /\ UNCHANGED <<outVars, timeouts, netVars, request, serverVars>>

\* HandleRequestCancellation and OnReplyBusTerminated: an unknown request is
\* ignored.
CancelContext ==
    /\ cancelation = "yes" \/ bus = "dead"
    /\ cancelation' = "no"
    /\ IF server = "registered" THEN AbortInputUnlessClosed ELSE UNCHANGED inVars
    /\ UNCHANGED <<outVars, timeouts, bus, payloads, feedbacks, reply, request, serverVars>>

\* Reply and Finish of the context, whatever the handler has read.
Reply ==
    /\ server = "registered" /\ inRead = "no"
    /\ server' = "finished"
    /\ reply' = IF bus = "up" THEN "yes" ELSE reply
    /\ AbortInputUnlessClosed
    /\ UNCHANGED <<outVars, timeouts, bus, payloads, feedbacks, cancelation, request,
                   pendingPayloads, lost>>

\* The connection breaks.  Payloads that are left have reached the server.
Disconnect ==
    /\ bus = "up"
    /\ bus' = "dead"
    /\ payloads' \in IF server = "registered" THEN SUBSET payloads ELSE {{}}
    /\ feedbacks' = {} /\ cancelation' = "no" /\ reply' = "no"
    /\ UNCHANGED <<outVars, inVars, timeouts, request, serverVars>>

-----------------------------------------------------------------------------

\* What threads do once they have it to do.
Steps ==
    \/ ClientSteps \/ Pull \/ ReceiveReply \/ Terminate \/ Finish
    \/ \E position \in feedbacks : ReceiveFeedback(position)
    \/ HandlerReads \/ SendFeedback \/ AbortReads \/ CancelContext
    \/ \E p \in payloads : KeepPayload(p) \/ EnqueuePayload(p)

\* What callers, timers and faults may do.
Environment ==
    \/ ClientCalls \/ AbortWrites \/ Cancel \/ TimeOut
    \/ RegisterRequest \/ LeaseExpires \/ FeedbackFails \/ ReadTimerFires \/ Reply \/ Disconnect
    \/ \E p \in payloads : DecompressionFails(p)

Next == Steps \/ Environment

Spec == Init /\ [][Next]_vars

\* The handler reads to the end or to an error, and then replies.
HandlerDone == readFuture = "error" \/ (readFuture = "value" /\ inClosed = "yes")

\* Threads run, the request reaches the server while the connection is up, the
\* handler replies at the end, an aborted stream cancels its request, and
\* timeouts expire when they are short enough to matter.
Fairness ==
    /\ WF_vars(Steps)
    /\ WF_vars(bus = "up" /\ RegisterRequest)
    /\ WF_vars(HandlerDone /\ Reply)
    /\ WF_vars(outError = "yes" /\ Cancel)
    /\ WF_vars(TimeOut)

FairSpec == Spec /\ Fairness

-----------------------------------------------------------------------------

YesNo == {"yes", "no"}
Entries == Blocks \cup {End}
Confirmations == [position : Nat, promise : Blocks \cup {NoPromise}]
Payloads == [seq : Nat, blocks : Seq(Entries)]

TypeOK ==
    /\ codec \in {"none", "some"} /\ written \in 0 .. N /\ compressing \subseteq Blocks
    /\ outWindow \in [next : Nat, held : SUBSET [seq : Nat, data : Blocks]]
    /\ dataQueue \in Seq(Entries) /\ accepted \in Seq(Blocks)
    /\ confirmationQueue \in Seq(Confirmations)
    /\ {closeCalled, outError, outClosed, inError, inClosed, inRead, inAbort} \subseteq YesNo
    /\ {cancelation, reply, lost, timeouts} \subseteq YesNo
    /\ {writePosition, sentPosition, ackedPosition, readPosition} \subseteq Nat
    /\ payloadNumber \in Nat /\ pulls \in Nat /\ owed \in Nat
    /\ future \in [Entries -> {"none", "pending", "ok", "failed", "twice"}]
    /\ confirming \subseteq Entries
    /\ maxWindowSize \in MaxWindowSizes
    /\ inWindow \in [next : Nat, held : SUBSET [seq : Nat, data : Seq(Entries)]]
    /\ queue \in Seq(Entries) /\ got \in Seq(Entries)
    /\ promise \in {"none", "armed"}
    /\ readFuture \in {"none", "pending", "value", "error", "twice"}
    /\ bus \in {"up", "dead"}
    /\ payloads \cup pendingPayloads \subseteq Payloads
    /\ feedbacks \subseteq Nat
    /\ request \in {"active", "finalized", "finished"}
    /\ server \in {"unknown", "registered", "finished"}

\* Neither sender nor writer runs ahead of the reader, whatever order payloads
\* and feedback arrive in.  What was sent and not read, so what the server may
\* have to keep, is at most the window, or a single block that is larger than
\* the window; a write is confirmed only when at most a window of bytes up to
\* its end is unread; and no feedback is about more than was read, or
\* HandleFeedback might throw for a position past its write position.
WithinWindow ==
    LET unread == Len(accepted) + (IF closeCalled = "yes" THEN 1 ELSE 0) - Len(dataQueue) - Len(got)
    IN  /\ sentPosition - readPosition <= WindowSize \/ unread = 1
        /\ \A i \in DOMAIN accepted :
               future[accepted[i]] = "ok" => Bytes(accepted, i) <= readPosition + WindowSize
        /\ \A position \in feedbacks : position <= readPosition /\ readPosition <= writePosition

\* Whenever there is something to pull, a pull callback is on its way: the
\* callback runs without the lock, and the window may move before it does.
PullNotForgotten ==
    outError = "no" /\ dataQueue # <<>> /\ CanPullMore(dataQueue, 1, sentPosition, ackedPosition)
        => pulls > 0

\* No promise is Set twice, which would crash: not by a payload and an abort,
\* nor by a confirmation and an abort.
PromisesSetOnce ==
    /\ readFuture # "twice"
    /\ \A f \in Entries : future[f] # "twice"

\* Every Write and Close is answered, even if the other side goes away: again
\* and again none is pending.  The exception are streams without timeouts some
\* of whose payloads were dropped with their lease.
Answered ==
    []<>((\A f \in Entries : future[f] # "pending") \/ (lost = "yes" /\ timeouts = "no"))

Abstract == INSTANCE BlockStream WITH
    sent <- accepted,
    received <- IF inClosed = "yes" THEN Front(got) ELSE got,
    end <- IF inClosed = "yes" THEN "seen" ELSE IF closeCalled = "yes" THEN "closed" ELSE "open",
    confirmed <- IF future[End] = "ok" THEN "yes" ELSE "no"

\* The two ends, with their windows, positions, queues and messages, are one
\* stream of blocks.
ImplementsBlockStream == Abstract!Spec
=============================================================================
