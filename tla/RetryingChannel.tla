-------------------------- MODULE RetryingChannel --------------------------
(***************************************************************************)
(* TRetryingChannel (yt/yt/core/rpc/retrying_channel.cpp): sends a request *)
(* again, under the same request id and mutation id, as long as its        *)
(* attempts fail in a way that may be retried.  From the second attempt on *)
(* the request is marked as a retry (client.cpp, Serialize).               *)
(*                                                                         *)
(* An attempt is active while the channel below has it in its map of       *)
(* active requests.  DoSend passes the control of an attempt to the thunk  *)
(* after it has sent it, so attempts may end, and new ones be sent, before *)
(* that; Cancel goes to the control that the thunk has by then.            *)
(***************************************************************************)
EXTENDS Integers, Sequences, FiniteSets

CONSTANTS
    Mutations,      \* requests, each with a mutation id of its own
    RetryAttempts   \* Config_->RetryAttempts

ASSUME RetryAttemptsAssumption == RetryAttempts \in Nat \ {0}

VARIABLES
    call,       \* call[m]: "idle", "active", "backoff" or "done"
    attempt,    \* attempt[m]: CurrentAttempt_, 0 before the call
    underlying, \* underlying[m]: the attempt whose control is Underlying_, or 0
    handover,   \* handover[m]: attempts sent whose control is not with the thunk yet
    canceled,   \* canceled[m]: Canceled_ of the thunk, "yes" or "no"
    result      \* result[m]: what ResponseHandler_ was told: "ok", "failed" by the
                \* handler on the server, or an "error" of the machinery between

channelVars == <<call, attempt, underlying, handover, canceled, result>>

Attempts == Mutations \X (1 .. RetryAttempts)

ChannelInit ==
    /\ call = [m \in Mutations |-> "idle"]
    /\ attempt = [m \in Mutations |-> 0]
    /\ underlying = [m \in Mutations |-> 0]
    /\ handover = [m \in Mutations |-> {}]
    /\ canceled = [m \in Mutations |-> "no"]
    /\ result = [m \in Mutations |-> "none"]

\* The request is answered, by HandleResponse or by ReportError.
Report(m, outcome) ==
    /\ call' = [call EXCEPT ![m] = "done"]
    /\ result' = [result EXCEPT ![m] = outcome]

\* DoSend of the attempt with number k: up to UnderlyingChannel_->Send.
DoSend(m, k) ==
    /\ attempt' = [attempt EXCEPT ![m] = k]
    /\ call' = [call EXCEPT ![m] = "active"]
    /\ handover' = [handover EXCEPT ![m] = @ \cup {k}]
    /\ UNCHANGED <<underlying, canceled, result>>

\* Send
Send(m) == call[m] = "idle" /\ DoSend(m, 1)

\* Retry counts the next attempt and finds that there is none left.
Exhausted(m) == attempt[m] + 1 > RetryAttempts

\* Retry, after an error that may be retried: waits for the next attempt, or
\* gives up when there is none left or its time would be past the deadline.
Retry(m) ==
    /\ \/ /\ ~Exhausted(m)
          /\ call' = [call EXCEPT ![m] = "backoff"]
          /\ UNCHANGED result
       \/ Report(m, "error")
    /\ UNCHANGED <<attempt, underlying, handover, canceled>>

\* HandleError of an attempt with an error that may not be retried.
HandleFatalError(m, error) ==
    Report(m, error) /\ UNCHANGED <<attempt, underlying, handover, canceled>>

\* HandleResponse
HandleResponse(m) == Report(m, "ok") /\ UNCHANGED <<attempt, underlying, handover, canceled>>

\* Mutant: a canceled request ends without a word.
RetryCanceledSilently(m) == UNCHANGED channelVars

\* DoRetry of a request that was canceled meanwhile.
RetryCanceled(m) == HandleFatalError(m, "error")

\* DoRetry, when the backoff time is over or its timer is aborted; DoSend gives
\* up when the deadline has passed meanwhile.
DoRetry(m) ==
    /\ call[m] = "backoff"
    /\ \/ canceled[m] = "yes" /\ RetryCanceled(m)
       \/ canceled[m] = "no" /\ DoSend(m, attempt[m] + 1)
       \/ canceled[m] = "no" /\ HandleFatalError(m, "error")

\* Cancel of the controls of the attempts in ks: the channel below ignores it
\* unless the attempt is the active one.
CancelAttempts(m, ks) ==
    IF call[m] = "active" /\ attempt[m] \in ks THEN Report(m, "error") ELSE UNCHANGED <<call, result>>

\* SetNewUnderlying: also cancels the control that the thunk had before.
SetNewUnderlying(m, k) ==
    /\ k \in handover[m]
    /\ handover' = [handover EXCEPT ![m] = @ \ {k}]
    /\ underlying' = [underlying EXCEPT ![m] = IF canceled[m] = "yes" THEN 0 ELSE k]
    /\ CancelAttempts(m, {underlying[m]} \cup {j \in {k} : canceled[m] = "yes"})
    /\ UNCHANGED <<attempt, canceled>>

\* Cancel, by the caller.
CancelCall(m) ==
    /\ call[m] # "idle" /\ canceled[m] = "no"
    /\ canceled' = [canceled EXCEPT ![m] = "yes"]
    /\ underlying' = [underlying EXCEPT ![m] = 0]
    /\ CancelAttempts(m, {underlying[m]})
    /\ UNCHANGED <<attempt, handover>>
=============================================================================
