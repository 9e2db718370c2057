-------------------------- MODULE RetriedMutation --------------------------
(***************************************************************************)
(* Mutating requests sent through a TRetryingChannel to a server that      *)
(* keeps responses with a TResponseKeeper: the two ends of what lets a     *)
(* client retry requests that are not idempotent.                          *)
(*                                                                         *)
(* All attempts of a call have its request id, so the channel takes a late *)
(* reply to an earlier attempt for an answer to the current one.  The      *)
(* connection may break, the server may crash or stop its keeper, and an   *)
(* attempt may time out, of which the server is not told.                  *)
(*                                                                         *)
(* Time is left out, but for what the configuration is there to ensure:    *)
(* ExpirationTime and WarmupTime outlast every call that they are about,   *)
(* with all that it has left in the network or on the server.              *)
(***************************************************************************)
EXTENDS RetryingChannel, ResponseKeeper

CONSTANT MaxFaults   \* how often the caller cancels, the server crashes, its keeper is
                     \* stopped, pending requests are canceled or the connection breaks

ASSUME RetriedMutationAssumption ==
    /\ Ids = Mutations /\ Contexts = Attempts
    /\ MaxFaults \in Nat

VARIABLES
    requests,     \* attempts on their way to the server
    faults,       \* how many faults there were
    before,       \* calls that were in progress when the keeper was started
    applied,      \* applied[m]: how often the handler has carried out mutation m
    forgotten     \* mutations that the keeper was told to forget and may see again

faultVars == <<faults, before>>
historyVars == <<applied, forgotten>>
vars == <<channelVars, keeperVars, requests, faultVars, historyVars>>

Init ==
    /\ ChannelInit
    /\ KeeperInit
    /\ requests = {}
    /\ faults = 0 /\ before = {}
    /\ applied = [m \in Mutations |-> 0]
    /\ forgotten = {}

Fault == faults < MaxFaults /\ faults' = faults + 1

-----------------------------------------------------------------------------
\* The client.

\* Send and DoRetry; a retry is sent as a request marked as such.
SendAttempt(m) ==
    /\ Send(m) \/ DoRetry(m)
    /\ requests' = IF call'[m] = "active" THEN requests \cup {<<m, attempt'[m]>>} ELSE requests
    /\ UNCHANGED <<keeperVars, faultVars, historyVars>>

\* The control of an attempt reaches the thunk.
HandOver(m) ==
    /\ \E k \in handover[m] : SetNewUnderlying(m, k)
    /\ UNCHANGED <<keeperVars, requests, faultVars, historyVars>>

\* The caller cancels the request.
Cancel(m) ==
    /\ Fault
    /\ CancelCall(m)
    /\ UNCHANGED <<keeperVars, requests, before, historyVars>>

\* HandleTimeout, or the session is terminated with its connection.
FailAttempt(m) ==
    /\ call[m] = "active"
    /\ Retry(m)
    /\ UNCHANGED <<keeperVars, requests, faultVars, historyVars>>

\* OnResponseMessage: whatever attempt it is a reply to.
ReceiveReply(c, value) ==
    /\ <<c, value>> \in replies
    /\ replies' = replies \ {<<c, value>>}
    /\ LET m == IdOf(c) IN
       \/ call[m] = "active" /\ value = "ok" /\ HandleResponse(m)
       \/ call[m] = "active" /\ value = "unavailable" /\ Retry(m)
       \/ call[m] = "active" /\ value \in {"failed", "error"} /\ HandleFatalError(m, value)
       \/ call[m] # "active" /\ UNCHANGED channelVars
    /\ UNCHANGED <<runVars, pendingVars, keptVars, context, outcome, detached, requests, faultVars,
                   historyVars>>

-----------------------------------------------------------------------------
\* The server.

\* A request comes to the handler, which asks the keeper first.
ReceiveRequest(c) ==
    /\ c \in requests
    /\ requests' = requests \ {c}
    /\ TryReplyFrom(c)
    /\ UNCHANGED <<channelVars, faultVars, historyVars>>

\* The handler of the method ends; it carries out the mutation or it does not.
RunHandler(c) ==
    /\ \E how \in {"ok", "failed", "unavailable", "dropped"} :
           /\ Execute(c, how)
           /\ applied' = IF how = "ok" THEN [applied EXCEPT ![IdOf(c)] = @ + 1] ELSE applied
    /\ UNCHANGED <<channelVars, requests, faultVars, forgotten>>

\* The response of a handler is sent and then kept.
EndHandler(c) ==
    /\ ReplyEpilogue(c) \/ EndRequest(c)
    /\ UNCHANGED <<channelVars, requests, faultVars, historyVars>>

\* A context is canceled: by the client, its timeout or the end of its connection.
CancelContext(c) ==
    /\ CancelWaiter(c)
    /\ UNCHANGED <<channelVars, requests, faultVars, historyVars>>

\* Nothing is left of a call.
Quiet(m) ==
    /\ call[m] \in {"idle", "done"}
    /\ \A c \in Contexts : IdOf(c) = m => c \notin requests /\ context[c] \in {"new", "done"}

StartKeeper ==
    /\ Start
    /\ before' = {m \in Mutations : ~Quiet(m)}
    /\ UNCHANGED <<channelVars, requests, faults, historyVars>>

WarmUp ==
    /\ \A m \in before : Quiet(m)
    /\ EndWarmup
    /\ before' = {}
    /\ UNCHANGED <<channelVars, requests, faults, historyVars>>

\* The owner stops the keeper.  The warmup that follows is only a guard against
\* requests marked as retries.
StopKeeper ==
    /\ Fault
    /\ Stop
    /\ forgotten' = forgotten \cup {IdOf(c) : c \in {c \in requests : ~IsRetry(c)}}
    /\ before' = {}
    /\ UNCHANGED <<channelVars, requests, applied>>

\* The owner of the keeper cancels pending requests, which may still run.
CancelPending ==
    /\ Fault
    /\ \E id \in Ids : pending[id] # {}
    /\ \E error \in {"error", "unavailable"} : CancelPendingRequests(error)
    /\ forgotten' = forgotten \cup {id \in Ids : pending[id] # {}}
    /\ UNCHANGED <<channelVars, requests, before, applied>>

Evict ==
    /\ evictionQueue # <<>> /\ Quiet(Head(evictionQueue))
    /\ OnEvict
    /\ UNCHANGED <<channelVars, requests, faultVars, historyVars>>

-----------------------------------------------------------------------------
\* Faults.

\* The server crashes, with all connections.
CrashServer ==
    /\ Fault
    /\ started = "yes"
    /\ Crash
    /\ requests' = {} /\ before' = {}
    /\ UNCHANGED <<channelVars, historyVars>>

\* The connection breaks, with what is in it.
Disconnect ==
    /\ Fault
    /\ requests' = {} /\ replies' = {}
    /\ detached' = {c \in Contexts : context[c] \notin {"new", "done"}}
    /\ UNCHANGED <<channelVars, runVars, pendingVars, keptVars, context, outcome, before,
                   historyVars>>

-----------------------------------------------------------------------------

\* What threads and timers do once they have it to do.
Steps ==
    \/ \E m \in Mutations :
           \/ call[m] = "backoff" /\ SendAttempt(m)
           \/ FailAttempt(m)
           \/ HandOver(m)
    \/ \E r \in replies : ReceiveReply(r[1], r[2])
    \/ \E c \in requests : ReceiveRequest(c)
    \/ \E c \in Contexts : RunHandler(c) \/ EndHandler(c)

\* What callers, the owner of the keeper and faults may do.
Environment ==
    \/ \E m \in Mutations : SendAttempt(m) \/ Cancel(m)
    \/ \E c \in Contexts : CancelContext(c)
    \/ StartKeeper \/ WarmUp \/ StopKeeper \/ CancelPending \/ Evict
    \/ CrashServer \/ Disconnect

Next == Steps \/ Environment

Spec == Init /\ [][Next]_vars

\* Threads run, handlers end, an attempt times out if it is not answered and
\* the backoff time passes.  Nothing is assumed of the environment.
FairSpec == Spec /\ WF_vars(Steps)

-----------------------------------------------------------------------------

Values == {"ok", "failed", "unavailable", "error"}

TypeOK ==
    /\ call \in [Mutations -> {"idle", "active", "backoff", "done"}]
    /\ attempt \in [Mutations -> 0 .. RetryAttempts]
    /\ underlying \in [Mutations -> 0 .. RetryAttempts]
    /\ handover \in [Mutations -> SUBSET (1 .. RetryAttempts)]
    /\ canceled \in [Mutations -> {"yes", "no"}]
    /\ result \in [Mutations -> {"none", "ok", "failed", "error"}]
    /\ {started, warmingUp} \subseteq {"yes", "no"}
    /\ pending \in [Ids -> SUBSET Contexts]
    /\ finished \in [Ids -> {"none", "ok", "failed"}]
    /\ evictionQueue \in Seq(Ids)
    /\ promise \in [Ids -> {"none", "unset", "error"}]
    /\ context \in [Contexts -> {"new", "executing", "executed", "replied", "waiting", "done"}]
    /\ outcome \in [Contexts -> {"none", "ok", "failed", "unavailable", "dropped"}]
    /\ requests \subseteq Attempts
    /\ replies \subseteq Contexts \X Values
    /\ detached \subseteq Contexts
    /\ faults \in 0 .. MaxFaults
    /\ before \subseteq Mutations /\ forgotten \subseteq Mutations
    /\ applied \in [Mutations -> Nat]

\* A mutation is carried out at most once, and never by two contexts at a time,
\* whatever attempts time out, replies are lost or servers restart; the
\* exception are mutations the keeper was told to forget.
AtMostOnce ==
    \A m \in Mutations \ forgotten :
        /\ applied[m] <= 1
        /\ \A c, d \in Contexts :
               IdOf(c) = m /\ IdOf(d) = m /\ context[c] = "executing" /\ context[d] = "executing"
                   => c = d

\* What a caller is told is true, even if the answer came from the keeper or was
\* meant for another attempt: after a success the mutation was carried out,
\* after a failure reported by the handler it is not and will not be.
AnswersAreTrue ==
    \A m \in Mutations :
        /\ result[m] = "ok" => applied[m] >= 1
        /\ result[m] = "failed" /\ m \notin forgotten => applied[m] = 0

\* A response is pending only while a context is busy with the request, which
\* will end it: a retry never waits for nobody.
PendingHasExecutor ==
    \A id \in Ids : \A c \in pending[id] :
        IdOf(c) = id /\ context[c] \in {"executing", "executed", "replied"}

\* Every retry that waits for a pending response is answered, even if the
\* keeper is stopped or the context with the promise is dropped.
WaitersReplied == []<>(\A c \in Contexts : context[c] # "waiting")

\* Every caller is answered, canceled or not.
CallersAnswered == []<>(\A m \in Mutations : call[m] \in {"idle", "done"})
=============================================================================
