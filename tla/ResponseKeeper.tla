--------------------------- MODULE ResponseKeeper --------------------------
(***************************************************************************)
(* TResponseKeeper (yt/yt/core/rpc/response_keeper.cpp): lets a server     *)
(* recognise the retries of a mutating request, so that a request is       *)
(* executed once and its retries get the same response.                    *)
(*                                                                         *)
(* A request comes in a context of its own for every attempt.  Contexts of *)
(* retries wait for the promise of the pending response; setting it        *)
(* follows the step that takes it from the map at once, runs in the same   *)
(* thread, and is part of that step.                                       *)
(***************************************************************************)
EXTENDS Integers, Sequences, FiniteSets

CONSTANTS
    Ids,        \* mutation ids
    Contexts    \* pairs of a mutation id and the number of an attempt

VARIABLES
    started,        \* Started_, "yes" or "no"
    warmingUp,      \* IsWarmingUp, "yes" or "no"
    pending,        \* PendingResponses_: pending[id] is the context executing it, as a set
    promise,        \* promise[id]: the promise in PendingResponses_, "none" if there is none
    finished,       \* FinishedResponses_: finished[id], "none" if there is none
    evictionQueue,  \* ResponseEvictionQueue_, of ids
    context,        \* context[c]: what context c is doing
    outcome,        \* outcome[c]: how the handler of context c has ended, until it is known
    replies,        \* pairs of a context and its reply, on their way to the client
    detached        \* contexts whose connection is gone

runVars == <<started, warmingUp>>
pendingVars == <<pending, promise>>
keptVars == <<finished, evictionQueue>>
keeperVars == <<runVars, pendingVars, keptVars, context, outcome, replies, detached>>

IdOf(c) == c[1]
IsRetry(c) == c[2] > 1

KeeperInit ==
    /\ started = "no"
    /\ warmingUp = "no"
    /\ pending = [id \in Ids |-> {}]
    /\ promise = [id \in Ids |-> "none"]
    /\ finished = [id \in Ids |-> "none"]
    /\ evictionQueue = <<>>
    /\ context = [c \in Contexts |-> "new"]
    /\ outcome = [c \in Contexts |-> "none"]
    /\ replies = {}
    /\ detached = {}

\* What reaches the connections when the contexts in cs reply.
Sent(cs, value) == {<<c, value>> : c \in cs \ detached}

\* ReplyFrom: what contexts reply that have waited for a promise; a response
\* that was dropped leaves an error in it.
PromisedReply(value) == IF value = "dropped" THEN "error" ELSE value

Waiters(ids) == {c \in Contexts : IdOf(c) \in ids /\ context[c] = "waiting"}

Finish(cs) == [c \in Contexts |-> IF c \in cs THEN "done" ELSE context[c]]

\* TrySet of the promises of ids: all contexts that wait for them reply.
TrySet(ids, value) ==
    LET waiters == Waiters({id \in ids : promise[id] = "unset"})
    IN  /\ context' = Finish(waiters)
        /\ replies' = replies \cup Sent(waiters, PromisedReply(value))

\* All pending responses are taken from the map.
TakePending == pending' = [id \in Ids |-> {}] /\ promise' = [id \in Ids |-> "none"]

\* Start
Start ==
    /\ started = "no"
    /\ started' = "yes"
    /\ warmingUp' = "yes"
    /\ UNCHANGED <<pendingVars, keptVars, context, outcome, replies, detached>>

\* The warmup time is over.
EndWarmup ==
    /\ started = "yes" /\ warmingUp = "yes"
    /\ warmingUp' = "no"
    /\ UNCHANGED <<started, pendingVars, keptVars, context, outcome, replies, detached>>

\* Stop: forgets everything; pending promises are abandoned.
Stop ==
    /\ started = "yes"
    /\ started' = "no"
    /\ TakePending
    /\ TrySet(Ids, "error")
    /\ finished' = [id \in Ids |-> "none"]
    /\ evictionQueue' = <<>>
    /\ UNCHANGED <<warmingUp, outcome, detached>>

\* CancelPendingRequests: the error may be one that clients retry.
CancelPendingRequests(error) ==
    /\ started = "yes"
    /\ TakePending
    /\ TrySet(Ids, error)
    /\ UNCHANGED <<runVars, keptVars, outcome, detached>>

Known(id) == pending[id] # {} \/ finished[id] # "none"

\* Mutant: a retry is trusted while the keeper is warming up.
MustRejectCold(c) == started = "no" \/ (Known(IdOf(c)) /\ ~IsRetry(c))

\* DoFindRequest throws: the keeper is not active, a duplicate is not marked
\* as a retry, or the keeper cannot know yet whether it is one.
MustReject(c) ==
    \/ started = "no"
    \/ Known(IdOf(c)) /\ ~IsRetry(c)
    \/ ~Known(IdOf(c)) /\ IsRetry(c) /\ warmingUp = "yes"

\* A context replies with a value that is known, or with an error.
ReplyAtOnce(c, value) ==
    /\ context' = Finish({c})
    /\ replies' = replies \cup Sent({c}, value)
    /\ UNCHANGED pendingVars

\* TryReplyFrom, of the request of context c: throws; replies from a pending
\* response, whose promise may have been canceled, or from a finished one; or
\* makes the request pending and lets the handler go on.
TryReplyFrom(c) ==
    LET id == IdOf(c) IN
    /\ \/ MustReject(c) /\ ReplyAtOnce(c, "error")
       \/ ~MustReject(c) /\ promise[id] = "error" /\ ReplyAtOnce(c, "error")
       \/ /\ ~MustReject(c) /\ promise[id] = "unset"
          /\ context' = [context EXCEPT ![c] = "waiting"]
          /\ UNCHANGED <<pendingVars, replies>>
       \/ /\ ~MustReject(c) /\ pending[id] = {} /\ finished[id] # "none"
          /\ ReplyAtOnce(c, finished[id])
       \/ /\ ~MustReject(c) /\ ~Known(id)
          /\ pending' = [pending EXCEPT ![id] = {c}]
          /\ promise' = [promise EXCEPT ![id] = "unset"]
          /\ context' = [context EXCEPT ![c] = "executing"]
          /\ UNCHANGED replies
    /\ UNCHANGED <<runVars, keptVars, outcome, detached>>

\* The handler ends: "ok", "failed" with an application error, "unavailable",
\* or the context is "dropped" without a reply.
Execute(c, how) ==
    /\ context[c] = "executing"
    /\ context' = [context EXCEPT ![c] = "executed"]
    /\ outcome' = [outcome EXCEPT ![c] = how]
    /\ UNCHANGED <<runVars, pendingVars, keptVars, replies, detached>>

\* ReplyEpilogue: the response is sent, and only then does AsyncResponseMessage_
\* get it, which tells the keeper in its own invoker.
ReplyEpilogue(c) ==
    /\ context[c] = "executed"
    /\ context' = [context EXCEPT ![c] = "replied"]
    /\ replies' = IF outcome[c] = "dropped" THEN replies ELSE replies \cup Sent({c}, outcome[c])
    /\ UNCHANGED <<runVars, pendingVars, keptVars, outcome, detached>>

\* Mutant: only success is remembered.
RememberOk(how) == how = "ok"

\* Whether a response is remembered (ValidateHeaderAndParseRememberOption).
Remember(how) == how \in {"ok", "failed"}

\* EndRequest remembers a response, unless there is one.
Keep(id, how) ==
    IF Remember(how) /\ finished[id] = "none"
    THEN /\ finished' = [finished EXCEPT ![id] = how]
         /\ evictionQueue' = Append(evictionQueue, id)
    ELSE UNCHANGED keptVars

\* Mutant: a response that is not remembered stays pending.
TakenPendingRemembered(id, how) ==
    IF Remember(how) THEN [pending EXCEPT ![id] = {}] ELSE pending

\* EndRequest takes the pending response of id from the map, whoever began it.
TakenPending(id, how) == [pending EXCEPT ![id] = {}]

\* Mutant: the promise is not set when the response is not remembered.
WokenRemembered(id, how) == IF Remember(how) THEN Waiters({id}) ELSE {}

\* The contexts that the promise of id wakes up when EndRequest sets it.
Woken(id, how) == IF promise[id] = "unset" THEN Waiters({id}) ELSE {}

\* EndRequest, called for the response of a context.
EndRequest(c) ==
    LET id == IdOf(c)
        how == outcome[c]
    IN  /\ context[c] = "replied"
        /\ \/ /\ started = "yes"
              /\ pending' = TakenPending(id, how)
              /\ promise' = [promise EXCEPT ![id] = "none"]
              /\ context' = Finish({c} \cup Woken(id, how))
              /\ replies' = replies \cup Sent(Woken(id, how), PromisedReply(how))
              /\ Keep(id, how)
           \/ /\ started = "no"
              /\ context' = Finish({c})
              /\ UNCHANGED <<pendingVars, keptVars, replies>>
        /\ outcome' = [outcome EXCEPT ![c] = "none"]
        /\ UNCHANGED <<runVars, detached>>

\* ReplyFrom: a context that waits is canceled, and with it the promise, for
\* everybody who waits for it or will do so.
CancelWaiter(c) ==
    /\ context[c] = "waiting"
    /\ promise' = [promise EXCEPT ![IdOf(c)] = "error"]
    /\ TrySet({IdOf(c)}, "error")
    /\ UNCHANGED <<runVars, pending, keptVars, outcome, detached>>

\* OnEvict: the oldest response has expired.
OnEvict ==
    /\ started = "yes" /\ evictionQueue # <<>>
    /\ finished' = [finished EXCEPT ![Head(evictionQueue)] = "none"]
    /\ evictionQueue' = Tail(evictionQueue)
    /\ UNCHANGED <<runVars, pendingVars, context, outcome, replies, detached>>

\* The server goes down with all its state and connections.
Crash ==
    /\ started' = "no" /\ warmingUp' = "no"
    /\ TakePending
    /\ finished' = [id \in Ids |-> "none"]
    /\ evictionQueue' = <<>>
    /\ context' = Finish({c \in Contexts : context[c] # "new"})
    /\ outcome' = [c \in Contexts |-> "none"]
    /\ replies' = {} /\ detached' = {}
=============================================================================
