------------------------ MODULE RetriedMutation_proofs -----------------------
(***************************************************************************)
(* Proofs about RetriedMutation, for any mutations, any number of attempts *)
(* and any number of faults.                                               *)
(***************************************************************************)
EXTENDS RetriedMutation, TLAPS

-----------------------------------------------------------------------------
(* The inductive invariant.                                                *)

Number(c) == c[2]

\* The handler of context c is at work, or its response is yet to be kept.
Busy(c) == context[c] \in {"executing", "executed", "replied"}

\* CurrentAttempt_ counts the attempts, and there is one left in a backoff.
ChannelMatches ==
    \A m \in Mutations :
        /\ call[m] = "idle" <=> attempt[m] = 0
        /\ call[m] = "backoff" => attempt[m] < RetryAttempts

\* Every attempt is sent once: it comes to the server in a new context.
ContextsMatch ==
    \A c \in Contexts :
        /\ c \in requests => context[c] = "new"
        /\ c \in requests \/ context[c] # "new" => Number(c) <= attempt[IdOf(c)]

OutcomesMatch ==
    \A c \in Contexts : outcome[c] # "none" <=> context[c] \in {"executed", "replied"}

PendingStarted == \A m \in Mutations : pending[m] # {} => started = "yes"

\* A success that somebody knows of is true.
OkIsTrue ==
    /\ \A m \in Mutations : finished[m] = "ok" \/ result[m] = "ok" => applied[m] >= 1
    /\ \A c \in Contexts : outcome[c] = "ok" \/ <<c, "ok">> \in replies => applied[IdOf(c)] >= 1

\* Mutation m cannot begin to execute any more: its first attempt has come or
\* is lost, and retries will not come or are rejected.
Shut(m) ==
    /\ call[m] # "idle" /\ <<m, 1>> \notin requests
    /\ \/ Quiet(m)
       \/ started = "no"
       \/ warmingUp = "yes" /\ m \in before

\* A failure of the handler is known to somebody.
KnownFailed(m) ==
    \/ finished[m] = "failed" \/ result[m] = "failed"
    \/ \E c \in Contexts : IdOf(c) = m /\ (outcome[c] = "failed" \/ <<c, "failed">> \in replies)

\* The fate of a mutation is decided.
HasFate(m) == applied[m] # 0 \/ KnownFailed(m)

\* The keeper knows the fate of m, or will be told, or will not let m execute.
FateKept(m) ==
    \/ finished[m] # "none"
    \/ \E c \in Contexts : IdOf(c) = m /\ outcome[c] \in {"ok", "failed"}
    \/ Shut(m)

\* One context at a time is busy with m, and the keeper knows it as pending,
\* unless it lets no other one in.
OneBusy(m) ==
    /\ \A c, d \in Contexts : IdOf(c) = m /\ IdOf(d) = m /\ Busy(c) /\ Busy(d) => c = d
    /\ \A c \in Contexts : IdOf(c) = m /\ Busy(c) => finished[m] = "none" /\ (pending[m] = {c} \/ Shut(m))

\* A fate is decided once and is final.
OneFate(m) ==
    /\ applied[m] <= 1
    /\ KnownFailed(m) => applied[m] = 0
    /\ HasFate(m) => /\ call[m] # "idle"
                     /\ FateKept(m)
                     /\ \A c \in Contexts : IdOf(c) = m => context[c] # "executing"

IInv ==
    /\ TypeOK
    /\ ChannelMatches
    /\ ContextsMatch
    /\ OutcomesMatch
    /\ PendingHasExecutor
    /\ PendingStarted
    /\ OkIsTrue
    /\ \A m \in Mutations \ forgotten : OneBusy(m) /\ OneFate(m)

-----------------------------------------------------------------------------
(* Contexts, and what a step may leave alone.                              *)

\* A context is a mutation and the number of an attempt.
LEMMA Shape ==
    /\ Ids = Mutations /\ Attempts = Contexts /\ RetryAttempts \in Nat \ {0}
    /\ \A c \in Contexts : /\ IdOf(c) \in Mutations /\ Number(c) \in 1 .. RetryAttempts
                           /\ c = <<IdOf(c), Number(c)>>
                           /\ IsRetry(c) <=> Number(c) > 1
    /\ \A m \in Mutations, k \in 1 .. RetryAttempts :
           <<m, k>> \in Contexts /\ IdOf(<<m, k>>) = m /\ Number(<<m, k>>) = k
BY RetriedMutationAssumption, RetryAttemptsAssumption DEF Attempts, IdOf, Number, IsRetry

\* A context that has come belongs to a call that has begun.
LEMMA CalledOnce ==
    ASSUME IInv, NEW c \in Contexts, context[c] # "new" \/ c \in requests
    PROVE  call[IdOf(c)] # "idle"
<1>1. Number(c) <= attempt[IdOf(c)]
  BY DEF IInv, ContextsMatch
<1>2. IdOf(c) \in Mutations /\ Number(c) \in 1 .. RetryAttempts /\ RetryAttempts \in Nat \ {0}
  BY Shape
<1>3. attempt[IdOf(c)] # 0
  BY <1>1, <1>2
<1> QED BY <1>2, <1>3 DEF IInv, ChannelMatches

\* A mutation that cannot begin any more does not come to be able to by a step
\* that sends it no attempt and leaves the keeper running or stopped.
LEMMA ShutStays ==
    ASSUME NEW m \in Mutations, Shut(m), call'[m] # "idle", call[m] = "done" => call'[m] = "done",
           \A c \in Contexts : IdOf(c) = m =>
               /\ c \in requests' => c \in requests
               /\ context[c] \in {"new", "done"} /\ c \notin requests => context'[c] \in {"new", "done"},
           started' = started, warmingUp' = warmingUp, before' = before
    PROVE  Shut(m)'
<1>1. <<m, 1>> \in Contexts /\ IdOf(<<m, 1>>) = m
  BY Shape
<1>2. <<m, 1>> \notin requests'
  BY <1>1 DEF Shut
<1>3. Quiet(m) => Quiet(m)'
  BY DEF Shut, Quiet
<1> QED BY <1>2, <1>3 DEF Shut

\* A step that neither begins nor ends an execution of m, nor makes the keeper
\* forget it, keeps what the invariant says of m.
LEMMA Untouched ==
    ASSUME NEW m \in Mutations, OneBusy(m), OneFate(m),
           \A c \in Contexts : IdOf(c) = m =>
               /\ Busy(c)' <=> Busy(c)
               /\ context'[c] = "executing" => context[c] = "executing"
               /\ outcome'[c] = outcome[c],
           finished'[m] = finished[m], applied'[m] = applied[m], pending'[m] = pending[m],
           Shut(m) => Shut(m)',
           KnownFailed(m)' => KnownFailed(m),
           call[m] # "idle" => call'[m] # "idle"
    PROVE  OneBusy(m)' /\ OneFate(m)'
<1>1. OneBusy(m)'
  BY DEF OneBusy
<1>2. FateKept(m) => FateKept(m)'
  BY DEF FateKept
<1>3. HasFate(m)' => HasFate(m)
  BY DEF HasFate
<1>4. OneFate(m)'
  BY <1>2, <1>3 DEF OneFate
<1> QED BY <1>1, <1>4

\* What reaches the connections is what was sent.
LEMMA SentShape ==
    ASSUME NEW cs \in SUBSET Contexts, NEW value
    PROVE  /\ \A c, v : <<c, v>> \in Sent(cs, value) => c \in cs /\ v = value
           /\ value \in Values => Sent(cs, value) \subseteq Contexts \X Values
<1>1. ASSUME NEW c, NEW v, <<c, v>> \in Sent(cs, value) PROVE c \in cs /\ v = value
  BY <1>1 DEF Sent
<1>2. ASSUME value \in Values PROVE Sent(cs, value) \subseteq Contexts \X Values
  BY <1>2 DEF Sent
<1> QED BY <1>1, <1>2

-----------------------------------------------------------------------------
(* The client.                                                             *)

ChannelOK ==
    /\ call \in [Mutations -> {"idle", "active", "backoff", "done"}]
    /\ attempt \in [Mutations -> 0 .. RetryAttempts]
    /\ underlying \in [Mutations -> 0 .. RetryAttempts]
    /\ handover \in [Mutations -> SUBSET (1 .. RetryAttempts)]
    /\ canceled \in [Mutations -> {"yes", "no"}]
    /\ result \in [Mutations -> {"none", "ok", "failed", "error"}]

\* A step in which attempts end: the call goes on to a backoff or is answered,
\* with an error or with what a reply says.
AttemptsEnd ==
    /\ ChannelOK'
    /\ attempt' = attempt
    /\ \A m \in Mutations :
           \/ call'[m] = call[m]
           \/ call[m] \in {"active", "backoff"} /\ call'[m] = "done"
           \/ call[m] = "active" /\ call'[m] = "backoff" /\ attempt[m] < RetryAttempts
    /\ \A m \in Mutations :
           \/ result'[m] \in {result[m], "error"}
           \/ \E c \in Contexts : IdOf(c) = m /\ <<c, result'[m]>> \in replies

\* The end of attempts keeps the invariant.
LEMMA AttemptsEndStep ==
    ASSUME IInv, AttemptsEnd, replies' \subseteq replies, faults' \in 0 .. MaxFaults,
           UNCHANGED <<runVars, pendingVars, keptVars, context, outcome, detached, requests, before, historyVars>>
    PROVE  IInv'
<1> USE DEF IInv, runVars, pendingVars, keptVars, historyVars
<1>1. TypeOK'
  BY DEF TypeOK, AttemptsEnd, ChannelOK
<1>2. ChannelMatches'
  BY DEF ChannelMatches, AttemptsEnd
<1>3. ContextsMatch'
  BY DEF ContextsMatch, AttemptsEnd
<1>4. OutcomesMatch' /\ PendingHasExecutor' /\ PendingStarted'
  BY DEF OutcomesMatch, PendingHasExecutor, PendingStarted
<1>5. OkIsTrue'
  BY DEF OkIsTrue, AttemptsEnd
<1>6. ASSUME NEW m \in Mutations \ forgotten PROVE OneBusy(m)' /\ OneFate(m)'
  <2>1. call[m] # "idle" => call'[m] # "idle"
    BY DEF AttemptsEnd
  <2>2. Shut(m) => Shut(m)'
    <3>1. call[m] = "done" => call'[m] = "done"
      BY DEF AttemptsEnd
    <3>2. SUFFICES ASSUME Shut(m) PROVE Shut(m)'
      OBVIOUS
    <3>3. call'[m] # "idle"
      BY <2>1, <3>2 DEF Shut
    <3> QED BY <3>1, <3>2, <3>3, ShutStays
  <2>3. KnownFailed(m)' => KnownFailed(m)
    BY DEF KnownFailed, AttemptsEnd
  <2> QED BY <2>1, <2>2, <2>3, Untouched DEF Busy
<1> QED BY <1>1, <1>2, <1>3, <1>4, <1>5, <1>6

\* An attempt fails: Retry.
LEMMA FailAttemptStep == ASSUME IInv, NEW m \in Mutations, FailAttempt(m) PROVE IInv'
<1>1. AttemptsEnd
  <2>1. CASE ~ Exhausted(m) /\ call' = [call EXCEPT ![m] = "backoff"] /\ result' = result
    BY <2>1, Shape DEF FailAttempt, Retry, Exhausted, AttemptsEnd, ChannelOK, IInv, TypeOK
  <2>2. CASE Report(m, "error")
    BY <2>2 DEF FailAttempt, Retry, Report, AttemptsEnd, ChannelOK, IInv, TypeOK
  <2> QED BY <2>1, <2>2 DEF FailAttempt, Retry
<1> QED BY <1>1, AttemptsEndStep DEF FailAttempt, keeperVars, faultVars, IInv, TypeOK

\* Cancel of attempts ends the active one, or nothing.
LEMMA CancelAttemptsEnds ==
    ASSUME IInv, NEW m \in Mutations, NEW ks, CancelAttempts(m, ks), attempt' = attempt,
           underlying' \in [Mutations -> 0 .. RetryAttempts], canceled' \in [Mutations -> {"yes", "no"}],
           handover' \in [Mutations -> SUBSET (1 .. RetryAttempts)]
    PROVE  AttemptsEnd
<1>1. CASE call[m] = "active" /\ attempt[m] \in ks
  <2>1. call' = [call EXCEPT ![m] = "done"] /\ result' = [result EXCEPT ![m] = "error"]
    BY <1>1 DEF CancelAttempts, Report
  <2>2. ChannelOK'
    BY <2>1 DEF ChannelOK, IInv, TypeOK
  <2> QED BY <1>1, <2>1, <2>2 DEF AttemptsEnd, IInv, TypeOK
<1>2. CASE ~ (call[m] = "active" /\ attempt[m] \in ks)
  BY <1>2 DEF CancelAttempts, AttemptsEnd, ChannelOK, IInv, TypeOK
<1> QED BY <1>1, <1>2

\* The control of an attempt comes to the thunk, and may be canceled at once.
LEMMA HandOverStep == ASSUME IInv, NEW m \in Mutations, HandOver(m) PROVE IInv'
<1>1. PICK k \in handover[m] : SetNewUnderlying(m, k)
  BY DEF HandOver
<1>2. k \in 1 .. RetryAttempts
  BY <1>1 DEF IInv, TypeOK
<1>3. /\ underlying' \in [Mutations -> 0 .. RetryAttempts] /\ canceled' \in [Mutations -> {"yes", "no"}]
      /\ handover' \in [Mutations -> SUBSET (1 .. RetryAttempts)] /\ attempt' = attempt
  BY <1>1, <1>2, Shape DEF SetNewUnderlying, IInv, TypeOK
<1>4. AttemptsEnd
  BY <1>1, <1>3, CancelAttemptsEnds DEF SetNewUnderlying
<1> QED BY <1>4, AttemptsEndStep DEF HandOver, keeperVars, faultVars, IInv, TypeOK

\* The caller cancels.
LEMMA CancelStep == ASSUME IInv, NEW m \in Mutations, Cancel(m) PROVE IInv'
<1>1. /\ underlying' \in [Mutations -> 0 .. RetryAttempts] /\ canceled' \in [Mutations -> {"yes", "no"}]
      /\ handover' \in [Mutations -> SUBSET (1 .. RetryAttempts)] /\ attempt' = attempt
  BY Shape DEF Cancel, CancelCall, IInv, TypeOK
<1>2. AttemptsEnd
  BY <1>1, CancelAttemptsEnds DEF Cancel, CancelCall
<1>3. faults' \in 0 .. MaxFaults
  BY RetriedMutationAssumption DEF Cancel, Fault, IInv, TypeOK
<1> QED BY <1>2, <1>3, AttemptsEndStep DEF Cancel, keeperVars

\* A reply comes, to whatever attempt, and ends the current one.
LEMMA ReceiveReplyStep == ASSUME IInv, NEW c, NEW value, ReceiveReply(c, value) PROVE IInv'
<1>1. /\ c \in Contexts /\ value \in Values /\ <<c, value>> \in replies /\ IdOf(c) \in Mutations
      /\ replies' \subseteq replies
  BY Shape DEF ReceiveReply, IInv, TypeOK
<1> DEFINE m == IdOf(c)
<1>2. AttemptsEnd
  <2> HIDE DEF m
  <2>1. CASE call[m] = "active" /\ value = "ok" /\ HandleResponse(m)
    BY <1>1, <2>1 DEF HandleResponse, Report, AttemptsEnd, ChannelOK, IInv, TypeOK, m
  <2>2. CASE call[m] = "active" /\ value = "unavailable" /\ Retry(m)
    <3>1. CASE ~ Exhausted(m) /\ call' = [call EXCEPT ![m] = "backoff"] /\ result' = result
      BY <1>1, <2>2, <3>1, Shape DEF Retry, Exhausted, AttemptsEnd, ChannelOK, IInv, TypeOK, m
    <3>2. CASE Report(m, "error")
      BY <1>1, <2>2, <3>2 DEF Retry, Report, AttemptsEnd, ChannelOK, IInv, TypeOK, m
    <3> QED BY <2>2, <3>1, <3>2 DEF Retry
  <2>3. CASE call[m] = "active" /\ value \in {"failed", "error"} /\ HandleFatalError(m, value)
    BY <1>1, <2>3 DEF HandleFatalError, Report, AttemptsEnd, ChannelOK, IInv, TypeOK, m
  <2>4. CASE UNCHANGED channelVars
    BY <2>4 DEF channelVars, AttemptsEnd, ChannelOK, IInv, TypeOK
  <2> QED BY <2>1, <2>2, <2>3, <2>4 DEF ReceiveReply, m
<1> QED BY <1>1, <1>2, AttemptsEndStep DEF ReceiveReply, faultVars, IInv, TypeOK

\* An attempt is sent, the first one or the next: it has a new context, and is
\* marked as a retry unless it is the first.
LEMMA DoSendStep ==
    ASSUME IInv, NEW m \in Mutations, call[m] \in {"idle", "backoff"}, DoSend(m, attempt[m] + 1),
           requests' = requests \cup {<<m, attempt[m] + 1>>},
           UNCHANGED <<keeperVars, faultVars, historyVars>>
    PROVE  IInv'
<1> USE DEF IInv, keeperVars, faultVars, historyVars, runVars, pendingVars, keptVars
<1> DEFINE k == attempt[m] + 1
           c0 == <<m, k>>
<1>1. k \in 1 .. RetryAttempts
  BY Shape DEF ChannelMatches, TypeOK
<1>2. c0 \in Contexts /\ IdOf(c0) = m /\ Number(c0) = k
  BY <1>1, Shape
<1>3. /\ attempt' = [attempt EXCEPT ![m] = k] /\ call' = [call EXCEPT ![m] = "active"]
      /\ handover' = [handover EXCEPT ![m] = @ \cup {k}]
      /\ underlying' = underlying /\ canceled' = canceled /\ result' = result
      /\ requests' = requests \cup {c0}
  BY DEF DoSend
<1>4. attempt[m] \in Nat /\ attempt[m] < k /\ \A n \in Mutations : attempt[n] <= attempt'[n]
  BY <1>3, Shape DEF TypeOK
<1> HIDE DEF k, c0
<1>5. TypeOK'
  <2>1. attempt' \in [Mutations -> 0 .. RetryAttempts] /\ call' \in [Mutations -> {"idle", "active", "backoff", "done"}]
    BY <1>1, <1>3, Shape DEF TypeOK
  <2>2. handover' \in [Mutations -> SUBSET (1 .. RetryAttempts)]
    BY <1>1, <1>3 DEF TypeOK
  <2>3. requests' \subseteq Attempts
    BY <1>2, <1>3, Shape DEF TypeOK
  <2> QED BY <1>3, <2>1, <2>2, <2>3 DEF TypeOK
<1>6. ChannelMatches'
  BY <1>1, <1>3 DEF ChannelMatches, TypeOK
<1>7. ContextsMatch'
  <2>1. context[c0] = "new"
    BY <1>1, <1>2, <1>4 DEF ContextsMatch
  <2>2. \A c \in Contexts : /\ IdOf(c) \in Mutations /\ Number(c) \in Nat
                             /\ attempt[IdOf(c)] \in Nat /\ attempt'[IdOf(c)] \in Nat
    BY <1>5, Shape DEF TypeOK
  <2>3. attempt'[IdOf(c0)] = Number(c0)
    BY <1>2, <1>3 DEF TypeOK
  <2> QED BY <1>2, <1>3, <1>4, <2>1, <2>2, <2>3 DEF ContextsMatch
<1>8. OutcomesMatch' /\ PendingHasExecutor' /\ PendingStarted' /\ OkIsTrue'
  BY <1>3 DEF OutcomesMatch, PendingHasExecutor, PendingStarted, OkIsTrue
<1>9. ASSUME NEW n \in Mutations \ forgotten PROVE OneBusy(n)' /\ OneFate(n)'
  <2>1. call[n] # "idle" => call'[n] # "idle"
    BY <1>3 DEF TypeOK
  <2>2. Shut(n) => Shut(n)'
    <3>1. CASE n # m
      <4>1. \A c \in Contexts : IdOf(c) = n => (c \in requests' => c \in requests)
        BY <1>2, <1>3, <3>1
      <4>2. call'[n] = call[n]
        BY <1>3, <3>1 DEF TypeOK
      <4> SUFFICES ASSUME Shut(n) PROVE Shut(n)'
        OBVIOUS
      <4>3. call'[n] # "idle"
        BY <4>2 DEF Shut
      <4> QED BY <4>1, <4>2, <4>3, ShutStays
    <3>2. CASE n = m
      <4> SUFFICES ASSUME Shut(m) PROVE Shut(m)'
        BY <3>2
      <4>1. call[m] = "backoff" /\ ~ Quiet(m) /\ attempt[m] # 0
        BY DEF Shut, Quiet, ChannelMatches
      <4>2. k # 1
        BY <1>4, <4>1 DEF k
      <4>3. <<m, 1>> \notin requests'
        BY <1>3, <4>2 DEF Shut, c0
      <4>4. call'[m] # "idle"
        BY <1>3 DEF TypeOK
      <4> QED BY <4>1, <4>3, <4>4 DEF Shut
    <3> QED BY <3>1, <3>2
  <2>3. KnownFailed(n)' => KnownFailed(n)
    BY <1>3 DEF KnownFailed
  <2> QED BY <2>1, <2>2, <2>3, Untouched DEF Busy
<1> QED BY <1>5, <1>6, <1>7, <1>8, <1>9

\* Send and DoRetry; a retry may also find that the call is canceled or over.
LEMMA SendAttemptStep == ASSUME IInv, NEW m \in Mutations, SendAttempt(m) PROVE IInv'
<1>0. /\ attempt[m] \in Nat /\ call \in [Mutations -> {"idle", "active", "backoff", "done"}]
  BY Shape DEF IInv, TypeOK
<1>1. CASE Send(m)
  <2>1. call[m] = "idle" /\ attempt[m] = 0
    BY <1>1 DEF Send, IInv, ChannelMatches
  <2>2. attempt[m] + 1 = 1
    BY <2>1
  <2>3. DoSend(m, attempt[m] + 1)
    BY <1>1, <2>2 DEF Send
  <2>4. attempt'[m] = attempt[m] + 1 /\ call'[m] = "active"
    BY <1>0, <2>3 DEF DoSend, IInv, TypeOK
  <2> QED BY <2>1, <2>3, <2>4, DoSendStep DEF SendAttempt
<1>2. CASE call[m] = "backoff" /\ DoSend(m, attempt[m] + 1)
  <2>1. attempt'[m] = attempt[m] + 1 /\ call'[m] = "active"
    BY <1>0, <1>2 DEF DoSend, IInv, TypeOK
  <2> QED BY <1>2, <2>1, DoSendStep DEF SendAttempt
<1>3. CASE call[m] = "backoff" /\ HandleFatalError(m, "error")
  <2>1. call' = [call EXCEPT ![m] = "done"] /\ result' = [result EXCEPT ![m] = "error"]
    BY <1>3 DEF HandleFatalError, Report
  <2>2. ChannelOK'
    BY <1>3, <2>1 DEF HandleFatalError, ChannelOK, IInv, TypeOK
  <2>3. AttemptsEnd
    BY <1>3, <2>1, <2>2 DEF HandleFatalError, AttemptsEnd, IInv, TypeOK
  <2>4. requests' = requests
    BY <1>0, <2>1 DEF SendAttempt
  <2> QED BY <2>3, <2>4, AttemptsEndStep DEF SendAttempt, keeperVars, faultVars, IInv, TypeOK
<1> QED BY <1>1, <1>2, <1>3 DEF SendAttempt, DoRetry, RetryCanceled

-----------------------------------------------------------------------------
(* The server.                                                             *)

\* A request is answered at once or has to wait; no handler is begun for it.
LEMMA TurnedAway ==
    ASSUME IInv, NEW c \in requests, NEW st \in {"waiting", "done"}, NEW value \in Values,
           value \in {"ok", "failed"} => finished[IdOf(c)] = value,
           context' = [context EXCEPT ![c] = st],
           replies' \subseteq replies \cup Sent({c}, value),
           requests' = requests \ {c},
           UNCHANGED <<channelVars, runVars, pendingVars, keptVars, outcome, detached, faultVars, historyVars>>
    PROVE  IInv'
<1> USE DEF IInv, channelVars, faultVars, historyVars, runVars, pendingVars, keptVars
<1>1. c \in Contexts /\ context[c] = "new" /\ IdOf(c) \in Mutations
  BY Shape DEF TypeOK, ContextsMatch
<1>2. /\ context'[c] = st /\ \A d \in Contexts \ {c} : context'[d] = context[d]
  BY <1>1 DEF TypeOK
<1>3. /\ \A d, v : <<d, v>> \in replies' => <<d, v>> \in replies \/ (d = c /\ v = value)
      /\ replies' \subseteq Contexts \X Values
  BY <1>1, SentShape DEF TypeOK
<1>4. TypeOK'
  BY <1>1, <1>3 DEF TypeOK
<1>5. ChannelMatches' /\ PendingStarted'
  BY DEF ChannelMatches, PendingStarted
<1>6. ContextsMatch'
  BY <1>1, <1>2 DEF ContextsMatch
<1>7. OutcomesMatch' /\ PendingHasExecutor'
  BY <1>1, <1>2 DEF OutcomesMatch, PendingHasExecutor, TypeOK
<1>8. OkIsTrue'
  BY <1>1, <1>3 DEF OkIsTrue
<1>9. ASSUME NEW m \in Mutations \ forgotten PROVE OneBusy(m)' /\ OneFate(m)'
  <2>1. Shut(m) => Shut(m)'
    <3> SUFFICES ASSUME Shut(m) PROVE Shut(m)'
      OBVIOUS
    <3>1. call'[m] # "idle"
      BY DEF Shut
    <3>2. \A d \in Contexts : IdOf(d) = m =>
               /\ d \in requests' => d \in requests
               /\ context[d] \in {"new", "done"} /\ d \notin requests => context'[d] \in {"new", "done"}
      BY <1>2
    <3> QED BY <3>1, <3>2, ShutStays
  <2>2. KnownFailed(m)' => KnownFailed(m)
    BY <1>1, <1>3 DEF KnownFailed
  <2>3. \A d \in Contexts : (Busy(d)' <=> Busy(d)) /\ (context'[d] = "executing" => context[d] = "executing")
    BY <1>1, <1>2 DEF Busy
  <2> QED BY <2>1, <2>2, <2>3, Untouched
<1> QED BY <1>4, <1>5, <1>6, <1>7, <1>8, <1>9

\* A handler is begun for a request: no other context is busy with the
\* mutation and its fate is open, unless the keeper was told to forget it.
LEMMA Begins ==
    ASSUME IInv, NEW c \in requests, ~ MustReject(c), ~ Known(IdOf(c)),
           pending' = [pending EXCEPT ![IdOf(c)] = {c}],
           promise' = [promise EXCEPT ![IdOf(c)] = "unset"],
           context' = [context EXCEPT ![c] = "executing"],
           requests' = requests \ {c},
           UNCHANGED <<channelVars, runVars, keptVars, outcome, replies, detached, faultVars, historyVars>>
    PROVE  IInv'
<1> USE DEF IInv, channelVars, faultVars, historyVars, runVars, keptVars
<1> DEFINE m == IdOf(c)
<1>1. c \in Contexts /\ context[c] = "new" /\ m \in Mutations /\ m \in Ids
  BY Shape DEF TypeOK, ContextsMatch
<1>2. /\ context'[c] = "executing" /\ \A d \in Contexts \ {c} : context'[d] = context[d]
      /\ pending'[m] = {c} /\ \A n \in Mutations \ {m} : pending'[n] = pending[n]
      /\ started = "yes" /\ pending[m] = {} /\ finished[m] = "none"
  BY <1>1, Shape DEF TypeOK, MustReject, Known
<1> HIDE DEF m
<1>3. TypeOK'
  BY <1>1 DEF TypeOK, m
<1>4. ChannelMatches' /\ PendingStarted'
  BY <1>2 DEF ChannelMatches, PendingStarted
<1>5. ContextsMatch'
  BY <1>1, <1>2 DEF ContextsMatch
<1>6. OutcomesMatch'
  BY <1>1, <1>2 DEF OutcomesMatch, TypeOK
<1>7. PendingHasExecutor'
  <2>1. ASSUME NEW n \in Ids, NEW d \in pending'[n]
        PROVE  IdOf(d) = n /\ context'[d] \in {"executing", "executed", "replied"}
    <3>1. CASE n = m
      BY <1>2, <2>1, <3>1 DEF m
    <3>2. CASE n # m
      <4>1. d \in pending[n] /\ d \in Contexts
        BY <1>2, <2>1, <3>2, Shape DEF TypeOK
      <4>2. IdOf(d) = n /\ context[d] \in {"executing", "executed", "replied"}
        BY <2>1, <4>1 DEF PendingHasExecutor
      <4> QED BY <1>1, <1>2, <4>1, <4>2
    <3> QED BY <3>1, <3>2
  <2> QED BY <2>1 DEF PendingHasExecutor
<1>8. OkIsTrue'
  BY DEF OkIsTrue
<1>9. ASSUME NEW n \in Mutations \ forgotten, n # m PROVE OneBusy(n)' /\ OneFate(n)'
  <2>1. \A d \in Contexts : IdOf(d) = n => d # c
    BY <1>9 DEF m
  <2>2. Shut(n) => Shut(n)'
    <3> SUFFICES ASSUME Shut(n) PROVE Shut(n)'
      OBVIOUS
    <3>1. call'[n] # "idle"
      BY DEF Shut
    <3> QED BY <1>2, <2>1, <3>1, ShutStays
  <2>3. KnownFailed(n)' => KnownFailed(n)
    BY DEF KnownFailed
  <2> QED BY <1>2, <1>9, <2>1, <2>2, <2>3, Untouched DEF Busy
<1>10. ASSUME m \notin forgotten PROVE OneBusy(m)' /\ OneFate(m)'
  <2>0. OneBusy(m) /\ OneFate(m)
    BY <1>1, <1>10
  <2>1. ~ Shut(m)
    <3> SUFFICES ASSUME Shut(m) PROVE FALSE
      OBVIOUS
    <3>1. c # <<m, 1>>
      BY DEF Shut
    <3>2. Number(c) # 1 /\ Number(c) \in 1 .. RetryAttempts
      BY <1>1, <3>1, Shape DEF m
    <3>3. IsRetry(c)
      BY <1>1, <3>2, Shape
    <3>4. ~ Quiet(m)
      BY <1>1 DEF Quiet, m
    <3> QED BY <1>2, <3>3, <3>4 DEF Shut, MustReject
  <2>2. \A d \in Contexts : IdOf(d) = m => ~ Busy(d)
    BY <1>2, <2>0, <2>1 DEF OneBusy
  <2>3. ~ HasFate(m)
    <3>1. \A d \in Contexts : IdOf(d) = m => outcome[d] = "none"
      BY <2>2 DEF Busy, OutcomesMatch
    <3>2. ~ FateKept(m)
      BY <1>2, <2>1, <3>1 DEF FateKept
    <3> QED BY <2>0, <3>2 DEF OneFate
  <2>4. ~ HasFate(m)'
    BY <2>3 DEF HasFate, KnownFailed
  <2>5. OneBusy(m)'
    <3>1. \A d \in Contexts : IdOf(d) = m /\ Busy(d)' => d = c
      BY <1>2, <2>2 DEF Busy
    <3> QED BY <1>2, <3>1 DEF OneBusy
  <2>6. OneFate(m)'
    BY <2>3, <2>4 DEF OneFate, HasFate
  <2> QED BY <2>5, <2>6
<1> QED BY <1>3, <1>4, <1>5, <1>6, <1>7, <1>8, <1>9, <1>10

\* TryReplyFrom
LEMMA ReceiveRequestStep == ASSUME IInv, NEW c \in Contexts, ReceiveRequest(c) PROVE IInv'
<1>1. /\ c \in requests /\ requests' = requests \ {c} /\ TryReplyFrom(c)
      /\ UNCHANGED <<channelVars, runVars, keptVars, outcome, detached, faultVars, historyVars>>
  BY DEF ReceiveRequest, TryReplyFrom
<1>2. IdOf(c) \in Ids /\ finished[IdOf(c)] \in {"none", "ok", "failed"}
  BY Shape DEF IInv, TypeOK
<1>3. ASSUME NEW value \in Values, value \in {"ok", "failed"} => finished[IdOf(c)] = value, ReplyAtOnce(c, value)
      PROVE  IInv'
  <2>1. context' = [context EXCEPT ![c] = "done"]
    BY <1>3 DEF ReplyAtOnce, Finish, IInv, TypeOK
  <2> QED BY <1>1, <1>3, <2>1, TurnedAway DEF ReplyAtOnce
<1>4. CASE ReplyAtOnce(c, "error")
  BY <1>3, <1>4 DEF Values
<1>5. CASE finished[IdOf(c)] # "none" /\ ReplyAtOnce(c, finished[IdOf(c)])
  BY <1>2, <1>3, <1>5 DEF Values
<1>6. CASE context' = [context EXCEPT ![c] = "waiting"] /\ UNCHANGED <<pendingVars, replies>>
  <2>1. "error" \in Values
    BY DEF Values
  <2> QED BY <1>1, <1>6, <2>1, TurnedAway
<1>7. CASE /\ ~ MustReject(c) /\ ~ Known(IdOf(c))
           /\ pending' = [pending EXCEPT ![IdOf(c)] = {c}]
           /\ promise' = [promise EXCEPT ![IdOf(c)] = "unset"]
           /\ context' = [context EXCEPT ![c] = "executing"]
           /\ UNCHANGED replies
  BY <1>1, <1>7, Begins
<1> QED BY <1>1, <1>4, <1>5, <1>6, <1>7 DEF TryReplyFrom

\* A handler ends: it was the only one, and decides the fate of the mutation.
LEMMA RunHandlerStep == ASSUME IInv, NEW c \in Contexts, RunHandler(c) PROVE IInv'
<1> USE DEF IInv, channelVars, faultVars, runVars, pendingVars, keptVars
<1> DEFINE m == IdOf(c)
<1>1. m \in Mutations
  BY Shape
<1>2. PICK how \in {"ok", "failed", "unavailable", "dropped"} :
          /\ Execute(c, how)
          /\ applied' = IF how = "ok" THEN [applied EXCEPT ![m] = @ + 1] ELSE applied
  BY DEF RunHandler
<1> HIDE DEF m
<1>3. /\ context[c] = "executing" /\ context' = [context EXCEPT ![c] = "executed"]
      /\ outcome' = [outcome EXCEPT ![c] = how]
      /\ UNCHANGED <<channelVars, runVars, pendingVars, keptVars, replies, detached, requests, faultVars, forgotten>>
  BY <1>2 DEF Execute, RunHandler
<1>4. /\ context'[c] = "executed" /\ outcome'[c] = how
      /\ \A d \in Contexts \ {c} : context'[d] = context[d] /\ outcome'[d] = outcome[d]
      /\ applied'[m] = (IF how = "ok" THEN applied[m] + 1 ELSE applied[m])
      /\ \A n \in Mutations \ {m} : applied'[n] = applied[n]
      /\ applied' \in [Mutations -> Nat] /\ \A n \in Mutations : applied[n] <= applied'[n]
  BY <1>1, <1>2, <1>3 DEF TypeOK
<1>5. TypeOK'
  BY <1>3, <1>4 DEF TypeOK
<1>6. ChannelMatches' /\ PendingStarted' /\ ContextsMatch'
  BY <1>3, <1>4 DEF ChannelMatches, PendingStarted, ContextsMatch
<1>7. OutcomesMatch' /\ PendingHasExecutor'
  BY <1>3, <1>4 DEF OutcomesMatch, PendingHasExecutor, TypeOK
<1>8. OkIsTrue'
  <2>1. \A n \in Mutations : applied[n] \in Nat /\ applied'[n] \in Nat
    BY <1>4 DEF TypeOK
  <2>2. outcome'[c] = "ok" => applied'[m] >= 1
    BY <1>1, <1>4, <2>1
  <2> QED BY <1>3, <1>4, <2>1, <2>2, Shape DEF OkIsTrue, m
<1>9. ASSUME NEW n \in Mutations PROVE Shut(n) => Shut(n)'
  <2> SUFFICES ASSUME Shut(n) PROVE Shut(n)'
    OBVIOUS
  <2>1. call'[n] # "idle"
    BY <1>3 DEF Shut
  <2> QED BY <1>3, <1>4, <2>1, ShutStays
<1>10. ASSUME NEW n \in Mutations \ forgotten, n # m PROVE OneBusy(n)' /\ OneFate(n)'
  <2>1. \A d \in Contexts : IdOf(d) = n => d # c
    BY <1>10 DEF m
  <2>2. KnownFailed(n)' => KnownFailed(n)
    BY <1>3, <1>4, <2>1 DEF KnownFailed
  <2> QED BY <1>3, <1>4, <1>9, <1>10, <2>1, <2>2, Untouched DEF Busy
<1>11. ASSUME m \notin forgotten PROVE OneBusy(m)' /\ OneFate(m)'
  <2>1. OneBusy(m) /\ OneFate(m) /\ IdOf(c) = m
    BY <1>1, <1>11 DEF m
  <2>2. applied[m] = 0 /\ ~ KnownFailed(m)
    BY <1>3, <2>1 DEF OneFate, HasFate
  <2>3. \A d \in Contexts : Busy(d)' <=> Busy(d)
    BY <1>3, <1>4 DEF Busy
  <2>4. OneBusy(m)'
    BY <1>1, <1>3, <1>9, <2>1, <2>3 DEF OneBusy
  <2>5. \A d \in Contexts : IdOf(d) = m => context'[d] # "executing"
    BY <1>3, <1>4, <2>1 DEF OneBusy, Busy
  <2>6. call'[m] # "idle"
    BY <1>3, <2>1, CalledOnce
  <2>7. KnownFailed(m)' => how = "failed"
    BY <1>3, <1>4, <2>2 DEF KnownFailed
  <2>8. HasFate(m)' => FateKept(m)'
    BY <1>4, <2>1, <2>2, <2>7 DEF HasFate, FateKept
  <2> QED BY <1>4, <2>2, <2>4, <2>5, <2>6, <2>7, <2>8 DEF OneFate
<1> QED BY <1>3, <1>5, <1>6, <1>7, <1>8, <1>10, <1>11

\* The response is sent.
LEMMA ReplyEpilogueStep ==
    ASSUME IInv, NEW c \in Contexts, ReplyEpilogue(c), UNCHANGED <<channelVars, requests, faultVars, historyVars>>
    PROVE  IInv'
<1> USE DEF IInv, channelVars, faultVars, historyVars, runVars, pendingVars, keptVars
<1>1. /\ context[c] = "executed" /\ context' = [context EXCEPT ![c] = "replied"]
      /\ UNCHANGED <<runVars, pendingVars, keptVars, outcome, detached>>
  BY DEF ReplyEpilogue
<1>2. /\ context'[c] = "replied" /\ \A d \in Contexts \ {c} : context'[d] = context[d]
      /\ IdOf(c) \in Mutations /\ outcome[c] # "none"
  BY <1>1, Shape DEF TypeOK, OutcomesMatch
<1>3. /\ replies' \subseteq Contexts \X Values
      /\ \A d, v : <<d, v>> \in replies' => <<d, v>> \in replies \/ (d = c /\ v = outcome[c])
  <2>1. CASE outcome[c] = "dropped"
    BY <2>1 DEF ReplyEpilogue, TypeOK
  <2>2. CASE outcome[c] # "dropped"
    <3>1. outcome[c] \in Values
      BY <1>2, <2>2 DEF TypeOK, Values
    <3>2. replies' = replies \cup Sent({c}, outcome[c])
      BY <2>2 DEF ReplyEpilogue
    <3> QED BY <3>1, <3>2, SentShape DEF TypeOK
  <2> QED BY <2>1, <2>2
<1>4. TypeOK'
  BY <1>1, <1>3 DEF TypeOK
<1>5. ChannelMatches' /\ PendingStarted' /\ ContextsMatch'
  BY <1>1, <1>2 DEF ChannelMatches, PendingStarted, ContextsMatch
<1>6. OutcomesMatch' /\ PendingHasExecutor'
  BY <1>1, <1>2 DEF OutcomesMatch, PendingHasExecutor, TypeOK
<1>7. OkIsTrue'
  BY <1>1, <1>3 DEF OkIsTrue
<1>8. ASSUME NEW m \in Mutations \ forgotten PROVE OneBusy(m)' /\ OneFate(m)'
  <2>1. Shut(m) => Shut(m)'
    <3> SUFFICES ASSUME Shut(m) PROVE Shut(m)'
      OBVIOUS
    <3>1. call'[m] # "idle"
      BY DEF Shut
    <3> QED BY <1>1, <1>2, <3>1, ShutStays
  <2>2. KnownFailed(m)' => KnownFailed(m)
    BY <1>1, <1>3 DEF KnownFailed
  <2>3. \A d \in Contexts : (Busy(d)' <=> Busy(d)) /\ (context'[d] = "executing" => context[d] = "executing")
    BY <1>1, <1>2 DEF Busy
  <2> QED BY <1>1, <2>1, <2>2, <2>3, Untouched
<1> QED BY <1>4, <1>5, <1>6, <1>7, <1>8

\* EndRequest with the keeper stopped: nothing is kept, but then the mutation
\* does not begin again either.
LEMMA EndRequestStopped ==
    ASSUME IInv, NEW c \in Contexts, context[c] = "replied", started = "no",
           context' = Finish({c}), outcome' = [outcome EXCEPT ![c] = "none"],
           UNCHANGED <<runVars, pendingVars, keptVars, replies, detached, channelVars, requests, faultVars,
                       historyVars>>
    PROVE  IInv'
<1> USE DEF IInv, channelVars, faultVars, historyVars, runVars, pendingVars, keptVars
<1> DEFINE m == IdOf(c)
<1>1. m \in Mutations
  BY Shape
<1>2. /\ context' \in [Contexts -> {"new", "executing", "executed", "replied", "waiting", "done"}]
      /\ context'[c] = "done" /\ outcome'[c] = "none"
      /\ \A d \in Contexts \ {c} : context'[d] = context[d] /\ outcome'[d] = outcome[d]
  BY DEF TypeOK, Finish
<1>3. \A n \in Mutations : pending[n] = {}
  BY DEF PendingStarted
<1> HIDE DEF m
<1>4. TypeOK'
  BY <1>2 DEF TypeOK
<1>5. ChannelMatches' /\ PendingStarted' /\ ContextsMatch'
  BY <1>2 DEF ChannelMatches, PendingStarted, ContextsMatch
<1>6. OutcomesMatch' /\ PendingHasExecutor'
  BY <1>2, <1>3, Shape DEF OutcomesMatch, PendingHasExecutor
<1>7. OkIsTrue'
  BY <1>2 DEF OkIsTrue
<1>8. ASSUME NEW n \in Mutations PROVE Shut(n) => Shut(n)'
  <2> SUFFICES ASSUME Shut(n) PROVE Shut(n)'
    OBVIOUS
  <2>1. call'[n] # "idle"
    BY DEF Shut
  <2> QED BY <1>2, <2>1, ShutStays
<1>9. ASSUME NEW n \in Mutations PROVE KnownFailed(n)' => KnownFailed(n)
  BY <1>2 DEF KnownFailed
<1>10. ASSUME NEW n \in Mutations \ forgotten, n # m PROVE OneBusy(n)' /\ OneFate(n)'
  <2>1. \A d \in Contexts : IdOf(d) = n => d # c
    BY <1>10 DEF m
  <2> QED BY <1>2, <1>8, <1>9, <1>10, <2>1, Untouched DEF Busy
<1>11. ASSUME m \notin forgotten PROVE OneBusy(m)' /\ OneFate(m)'
  <2>1. OneBusy(m) /\ OneFate(m) /\ IdOf(c) = m /\ Busy(c)
    BY <1>1, <1>11 DEF m, Busy
  <2>2. Shut(m)'
    BY <1>1, <1>3, <1>8, <2>1 DEF OneBusy
  <2>3. \A d \in Contexts : IdOf(d) = m => ~ Busy(d)'
    BY <1>2, <2>1 DEF OneBusy, Busy
  <2>4. OneBusy(m)'
    BY <2>3 DEF OneBusy
  <2>5. HasFate(m)' => HasFate(m)
    BY <1>1, <1>9 DEF HasFate
  <2> QED BY <1>1, <1>9, <2>1, <2>2, <2>3, <2>4, <2>5 DEF OneFate, FateKept, Busy
<1> QED BY <1>4, <1>5, <1>6, <1>7, <1>10, <1>11

\* EndRequest with the keeper started: the fate is kept, if there is one, and
\* those who wait are told the same.
LEMMA EndRequestStarted ==
    ASSUME IInv, NEW c \in Contexts, context[c] = "replied", started = "yes",
           pending' = TakenPending(IdOf(c), outcome[c]), promise' = [promise EXCEPT ![IdOf(c)] = "none"],
           context' = Finish({c} \cup Woken(IdOf(c), outcome[c])),
           replies' = replies \cup Sent(Woken(IdOf(c), outcome[c]), PromisedReply(outcome[c])),
           Keep(IdOf(c), outcome[c]), outcome' = [outcome EXCEPT ![c] = "none"],
           UNCHANGED <<runVars, detached, channelVars, requests, faultVars, historyVars>>
    PROVE  IInv'
<1> USE DEF IInv, channelVars, faultVars, historyVars, runVars, keptVars
<1> DEFINE m == IdOf(c)
           how == outcome[c]
           woken == Woken(m, how)
<1>1. m \in Mutations /\ m \in Ids
  BY Shape
<1>2. woken \subseteq Contexts /\ \A d \in woken : IdOf(d) = m /\ context[d] = "waiting"
  BY DEF Woken, Waiters
<1>3. how \in {"ok", "failed", "unavailable", "dropped"}
  BY DEF TypeOK, OutcomesMatch
<1>4. /\ PromisedReply(how) \in Values
      /\ how \in {"ok", "failed"} => PromisedReply(how) = how
      /\ how \notin {"ok", "failed"} => PromisedReply(how) \in {"unavailable", "error"}
  BY <1>3 DEF PromisedReply, Values
<1>5. /\ replies' \subseteq Contexts \X Values
      /\ \A d, v : <<d, v>> \in replies' => <<d, v>> \in replies \/ (d \in woken /\ v = PromisedReply(how))
  <2>1. replies' = replies \cup Sent(woken, PromisedReply(how))
    OBVIOUS
  <2> HIDE DEF woken, how
  <2> QED BY <1>2, <1>4, <2>1, SentShape DEF TypeOK
<1>6. /\ context' \in [Contexts -> {"new", "executing", "executed", "replied", "waiting", "done"}]
      /\ context'[c] = "done" /\ outcome'[c] = "none"
      /\ \A d \in Contexts \ {c} : /\ outcome'[d] = outcome[d]
                                   /\ context'[d] = (IF d \in woken THEN "done" ELSE context[d])
  BY DEF TypeOK, Finish
<1>7. /\ pending'[m] = {} /\ \A n \in Mutations \ {m} : pending'[n] = pending[n]
      /\ pending' \in [Ids -> SUBSET Contexts] /\ promise' \in [Ids -> {"none", "unset", "error"}]
  BY <1>1, Shape DEF TypeOK, TakenPending
<1>8. /\ finished' \in [Ids -> {"none", "ok", "failed"}] /\ evictionQueue' \in Seq(Ids)
      /\ \A n \in Mutations \ {m} : finished'[n] = finished[n]
      /\ finished'[m] = (IF how \in {"ok", "failed"} /\ finished[m] = "none" THEN how ELSE finished[m])
  <2>1. CASE Remember(how) /\ finished[m] = "none"
    <3>1. finished' = [finished EXCEPT ![m] = how] /\ evictionQueue' = Append(evictionQueue, m)
      BY <2>1 DEF Keep
    <3> QED BY <1>1, <2>1, <3>1, Shape DEF Remember, TypeOK
  <2>2. CASE ~ (Remember(how) /\ finished[m] = "none")
    <3>1. finished' = finished /\ evictionQueue' = evictionQueue
      BY <2>2 DEF Keep
    <3> QED BY <2>2, <3>1 DEF Remember, TypeOK
  <2> QED BY <2>1, <2>2
<1>9. m = IdOf(c) /\ outcome[c] = how
  OBVIOUS
<1> HIDE DEF m, how, woken
<1>10. TypeOK'
  BY <1>5, <1>6, <1>7, <1>8 DEF TypeOK
<1>11. ChannelMatches' /\ PendingStarted'
  BY DEF ChannelMatches, PendingStarted
<1>12. ContextsMatch'
  BY <1>2, <1>6 DEF ContextsMatch
<1>13. OutcomesMatch'
  BY <1>2, <1>6 DEF OutcomesMatch
<1>14. PendingHasExecutor'
  <2>1. ASSUME NEW n \in Ids, NEW d \in pending'[n]
        PROVE  IdOf(d) = n /\ context'[d] \in {"executing", "executed", "replied"}
    <3>1. n \in Mutations \ {m} /\ d \in pending[n] /\ d \in Contexts
      BY <1>7, <2>1, Shape DEF TypeOK
    <3>2. IdOf(d) = n /\ context[d] \in {"executing", "executed", "replied"}
      BY <2>1, <3>1 DEF PendingHasExecutor
    <3>3. d # c /\ d \notin woken
      BY <1>2, <1>9, <3>1, <3>2
    <3> QED BY <1>6, <3>1, <3>2, <3>3
  <2> QED BY <2>1 DEF PendingHasExecutor
<1>15. OkIsTrue'
  <2>1. how = "ok" => applied[m] >= 1
    BY <1>9 DEF OkIsTrue
  <2>2. \A n \in Mutations : finished'[n] = "ok" => applied[n] >= 1
    BY <1>8, <2>1 DEF OkIsTrue
  <2>3. \A d \in Contexts : <<d, "ok">> \in replies' => applied[IdOf(d)] >= 1
    BY <1>2, <1>4, <1>5, <2>1 DEF OkIsTrue
  <2> QED BY <1>6, <2>2, <2>3 DEF OkIsTrue
<1>16. ASSUME NEW n \in Mutations PROVE Shut(n) => Shut(n)'
  <2> SUFFICES ASSUME Shut(n) PROVE Shut(n)'
    OBVIOUS
  <2>1. call'[n] # "idle"
    BY DEF Shut
  <2>2. \A d \in Contexts : context[d] \in {"new", "done"} => context'[d] \in {"new", "done"}
    BY <1>6
  <2> QED BY <2>1, <2>2, ShutStays
<1>17. ASSUME NEW n \in Mutations PROVE KnownFailed(n)' => KnownFailed(n)
  <2>1. how = "failed" => KnownFailed(m)
    BY <1>9 DEF KnownFailed
  <2>2. finished'[n] = "failed" => finished[n] = "failed" \/ (n = m /\ how = "failed")
    BY <1>8
  <2>3. \A d \in Contexts :
            IdOf(d) = n /\ <<d, "failed">> \in replies' => <<d, "failed">> \in replies \/ (n = m /\ how = "failed")
    BY <1>2, <1>4, <1>5
  <2>4. \A d \in Contexts : outcome'[d] = "failed" => outcome[d] = "failed"
    BY <1>6
  <2> QED BY <2>1, <2>2, <2>3, <2>4 DEF KnownFailed
<1>18. ASSUME NEW n \in Mutations \ forgotten, n # m PROVE OneBusy(n)' /\ OneFate(n)'
  <2>1. \A d \in Contexts : IdOf(d) = n => d # c /\ d \notin woken
    BY <1>2, <1>9, <1>18
  <2>2. \A d \in Contexts : IdOf(d) = n => context'[d] = context[d] /\ outcome'[d] = outcome[d]
    BY <1>6, <2>1
  <2> QED BY <1>7, <1>8, <1>16, <1>17, <1>18, <2>2, Untouched DEF Busy
<1>19. ASSUME m \notin forgotten PROVE OneBusy(m)' /\ OneFate(m)'
  <2>1. OneBusy(m) /\ OneFate(m) /\ IdOf(c) = m /\ Busy(c)
    BY <1>1, <1>9, <1>19 DEF Busy
  <2>2. finished[m] = "none" /\ \A d \in Contexts \ {c} : IdOf(d) = m => ~ Busy(d)
    BY <2>1 DEF OneBusy
  <2>3. \A d \in Contexts : IdOf(d) = m => ~ Busy(d)'
    BY <1>2, <1>6, <2>2 DEF Busy
  <2>4. OneBusy(m)'
    BY <2>3 DEF OneBusy
  <2>5. HasFate(m)' => HasFate(m)
    BY <1>1, <1>17 DEF HasFate
  <2>6. FateKept(m) => FateKept(m)'
    <3>1. CASE how \in {"ok", "failed"}
      BY <1>8, <2>2, <3>1 DEF FateKept
    <3>2. CASE how \notin {"ok", "failed"}
      <4>1. \A d \in Contexts : IdOf(d) = m => outcome[d] \notin {"ok", "failed"}
        BY <1>9, <2>2, <3>2 DEF Busy, OutcomesMatch
      <4> QED BY <1>1, <1>16, <2>2, <4>1 DEF FateKept
    <3> QED BY <3>1, <3>2
  <2> QED BY <1>1, <1>17, <2>1, <2>3, <2>4, <2>5, <2>6 DEF OneFate, Busy
<1> QED BY <1>10, <1>11, <1>12, <1>13, <1>14, <1>15, <1>18, <1>19

\* ReplyEpilogue and EndRequest
LEMMA EndHandlerStep == ASSUME IInv, NEW c \in Contexts, EndHandler(c) PROVE IInv'
<1>1. CASE ReplyEpilogue(c)
  BY <1>1, ReplyEpilogueStep DEF EndHandler
<1>2. CASE EndRequest(c) /\ started = "yes"
  BY <1>2, EndRequestStarted DEF EndHandler, EndRequest
<1>3. CASE EndRequest(c) /\ started = "no"
  BY <1>3, EndRequestStopped DEF EndHandler, EndRequest
<1> QED BY <1>1, <1>2, <1>3 DEF EndHandler, EndRequest

\* Promises are set to an error: those who wait for them are done.
LEMMA TrySetShape ==
    ASSUME TypeOK, NEW ids, NEW value \in {"error", "unavailable"}, TrySet(ids, value)
    PROVE  /\ context' \in [Contexts -> {"new", "executing", "executed", "replied", "waiting", "done"}]
           /\ \A c \in Contexts : context'[c] = context[c] \/ (context[c] = "waiting" /\ context'[c] = "done")
           /\ replies' \subseteq Contexts \X Values
           /\ \A c, v : <<c, v>> \in replies' => <<c, v>> \in replies \/ v \in {"error", "unavailable"}
<1> DEFINE waiters == Waiters({id \in ids : promise[id] = "unset"})
<1>1. waiters \in SUBSET Contexts /\ \A c \in waiters : context[c] = "waiting"
  BY DEF Waiters
<1>2. context' = Finish(waiters) /\ replies' = replies \cup Sent(waiters, value)
  BY DEF TrySet, PromisedReply
<1> HIDE DEF waiters
<1>3. replies' \subseteq Contexts \X Values
  BY <1>1, <1>2, SentShape DEF TypeOK, Values
<1>4. \A c, v : <<c, v>> \in replies' => <<c, v>> \in replies \/ v \in {"error", "unavailable"}
  BY <1>1, <1>2, SentShape
<1>5. context' \in [Contexts -> {"new", "executing", "executed", "replied", "waiting", "done"}]
  BY <1>2 DEF TypeOK, Finish
<1>6. \A c \in Contexts : context'[c] = context[c] \/ (context[c] = "waiting" /\ context'[c] = "done")
  BY <1>1, <1>2 DEF TypeOK, Finish
<1> QED BY <1>3, <1>4, <1>5, <1>6

\* A step in which waiting contexts get an error, and responses may be taken
\* from the map of mutations that are to be forgotten.
LEMMA WaitersFail ==
    ASSUME IInv, NEW ids, NEW value \in {"error", "unavailable"}, TrySet(ids, value),
           pending' \in [Ids -> SUBSET Contexts], promise' \in [Ids -> {"none", "unset", "error"}],
           \A m \in Mutations : pending'[m] = pending[m] \/ (pending'[m] = {} /\ m \in forgotten'),
           forgotten \subseteq forgotten', forgotten' \subseteq Mutations, faults' \in 0 .. MaxFaults,
           UNCHANGED <<channelVars, runVars, keptVars, outcome, detached, requests, before, applied>>
    PROVE  IInv'
<1> USE DEF IInv, channelVars, runVars, keptVars
<1>1. /\ context' \in [Contexts -> {"new", "executing", "executed", "replied", "waiting", "done"}]
      /\ \A c \in Contexts : context'[c] = context[c] \/ (context[c] = "waiting" /\ context'[c] = "done")
      /\ replies' \subseteq Contexts \X Values
      /\ \A c, v : <<c, v>> \in replies' => <<c, v>> \in replies \/ v \in {"error", "unavailable"}
  BY TrySetShape
<1>2. TypeOK'
  BY <1>1 DEF TypeOK
<1>3. ChannelMatches' /\ PendingStarted'
  BY DEF ChannelMatches, PendingStarted
<1>4. ContextsMatch' /\ OutcomesMatch'
  BY <1>1 DEF ContextsMatch, OutcomesMatch
<1>5. PendingHasExecutor'
  BY <1>1, Shape DEF PendingHasExecutor, TypeOK
<1>6. OkIsTrue'
  BY <1>1 DEF OkIsTrue
<1>7. ASSUME NEW m \in Mutations \ forgotten' PROVE OneBusy(m)' /\ OneFate(m)'
  <2>1. Shut(m) => Shut(m)'
    <3> SUFFICES ASSUME Shut(m) PROVE Shut(m)'
      OBVIOUS
    <3>1. call'[m] # "idle"
      BY DEF Shut
    <3> QED BY <1>1, <3>1, ShutStays
  <2>2. KnownFailed(m)' => KnownFailed(m)
    <3>1. \A d \in Contexts : <<d, "failed">> \in replies' => <<d, "failed">> \in replies
      BY <1>1
    <3> QED BY <3>1 DEF KnownFailed
  <2>3. \A d \in Contexts : (Busy(d)' <=> Busy(d)) /\ (context'[d] = "executing" => context[d] = "executing")
    BY <1>1 DEF Busy
  <2> QED BY <2>1, <2>2, <2>3, Untouched
<1> QED BY <1>2, <1>3, <1>4, <1>5, <1>6, <1>7

\* A waiting context is canceled, and all others that wait with it.
LEMMA CancelContextStep == ASSUME IInv, NEW c \in Contexts, CancelContext(c) PROVE IInv'
<1>1. IdOf(c) \in Ids
  BY Shape
<1>2. promise' \in [Ids -> {"none", "unset", "error"}] /\ TrySet({IdOf(c)}, "error")
  BY <1>1 DEF CancelContext, CancelWaiter, IInv, TypeOK
<1> QED BY <1>2, WaitersFail DEF CancelContext, CancelWaiter, faultVars, historyVars, IInv, TypeOK

\* CancelPendingRequests: what was pending is forgotten.
LEMMA CancelPendingStep == ASSUME IInv, CancelPending PROVE IInv'
<1>1. PICK error \in {"error", "unavailable"} : CancelPendingRequests(error)
  BY DEF CancelPending
<1>2. /\ pending' = [id \in Ids |-> {}] /\ promise' = [id \in Ids |-> "none"] /\ TrySet(Ids, error)
      /\ UNCHANGED <<runVars, keptVars, outcome, detached>>
  BY <1>1 DEF CancelPendingRequests, TakePending
<1>3. /\ forgotten' = forgotten \cup {id \in Ids : pending[id] # {}}
      /\ UNCHANGED <<channelVars, requests, before, applied>>
  BY DEF CancelPending
<1>4. \A m \in Mutations : pending'[m] = pending[m] \/ (pending'[m] = {} /\ m \in forgotten')
  BY <1>2, <1>3, Shape
<1>5. forgotten' \subseteq Mutations /\ forgotten \subseteq forgotten'
  BY <1>3, Shape DEF IInv, TypeOK
<1>6. faults' \in 0 .. MaxFaults
  BY RetriedMutationAssumption DEF CancelPending, Fault, IInv, TypeOK
<1>7. pending' \in [Ids -> SUBSET Contexts] /\ promise' \in [Ids -> {"none", "unset", "error"}]
  BY <1>2
<1> QED BY <1>2, <1>3, <1>4, <1>5, <1>6, <1>7, WaitersFail

\* Start: what is in progress will be rejected until the warmup is over.
LEMMA StartKeeperStep == ASSUME IInv, StartKeeper PROVE IInv'
<1> USE DEF IInv, channelVars, historyVars, pendingVars, keptVars
<1>1. /\ started = "no" /\ started' = "yes" /\ warmingUp' = "yes" /\ before' = {m \in Mutations : ~ Quiet(m)}
      /\ UNCHANGED <<pendingVars, keptVars, context, outcome, replies, detached, channelVars, requests,
                     faults, historyVars>>
  BY DEF StartKeeper, Start
<1>2. TypeOK'
  BY <1>1 DEF TypeOK
<1>3. ChannelMatches' /\ ContextsMatch' /\ OutcomesMatch' /\ PendingHasExecutor' /\ PendingStarted' /\ OkIsTrue'
  BY <1>1 DEF ChannelMatches, ContextsMatch, OutcomesMatch, PendingHasExecutor, PendingStarted, OkIsTrue
<1>4. ASSUME NEW m \in Mutations \ forgotten PROVE OneBusy(m)' /\ OneFate(m)'
  <2>1. Quiet(m)' <=> Quiet(m)
    BY <1>1 DEF Quiet
  <2>2. Shut(m) => Shut(m)'
    BY <1>1, <2>1 DEF Shut
  <2>3. KnownFailed(m)' => KnownFailed(m)
    BY <1>1 DEF KnownFailed
  <2> QED BY <1>1, <2>2, <2>3, Untouched DEF Busy
<1> QED BY <1>1, <1>2, <1>3, <1>4

\* The warmup ends when nothing is left of what was in progress.
LEMMA WarmUpStep == ASSUME IInv, WarmUp PROVE IInv'
<1> USE DEF IInv, channelVars, historyVars, pendingVars, keptVars
<1>1. /\ started = "yes" /\ started' = started /\ warmingUp' = "no" /\ before' = {} /\ \A m \in before : Quiet(m)
      /\ UNCHANGED <<pendingVars, keptVars, context, outcome, replies, detached, channelVars, requests,
                     faults, historyVars>>
  BY DEF WarmUp, EndWarmup
<1>2. TypeOK'
  BY <1>1 DEF TypeOK
<1>3. ChannelMatches' /\ ContextsMatch' /\ OutcomesMatch' /\ PendingHasExecutor' /\ PendingStarted' /\ OkIsTrue'
  BY <1>1 DEF ChannelMatches, ContextsMatch, OutcomesMatch, PendingHasExecutor, PendingStarted, OkIsTrue
<1>4. ASSUME NEW m \in Mutations \ forgotten PROVE OneBusy(m)' /\ OneFate(m)'
  <2>1. Quiet(m)' <=> Quiet(m)
    BY <1>1 DEF Quiet
  <2>2. Shut(m) => Shut(m)'
    BY <1>1, <2>1 DEF Shut
  <2>3. KnownFailed(m)' => KnownFailed(m)
    BY <1>1 DEF KnownFailed
  <2> QED BY <1>1, <2>2, <2>3, Untouched DEF Busy
<1> QED BY <1>1, <1>2, <1>3, <1>4

\* A keeper that goes down forgets what it knows, but mutations that have begun
\* do not begin again.
LEMMA KeeperDown ==
    ASSUME IInv, NEW m \in Mutations \ forgotten, started' = "no", finished'[m] = "none", <<m, 1>> \notin requests',
           UNCHANGED <<call, result, applied>>,
           \A c \in Contexts : IdOf(c) = m =>
               /\ Busy(c)' => Busy(c)
               /\ context'[c] = "executing" => context[c] = "executing"
               /\ outcome'[c] = "failed" => outcome[c] = "failed"
               /\ <<c, "failed">> \in replies' => <<c, "failed">> \in replies
    PROVE  OneBusy(m)' /\ OneFate(m)'
<1>1. OneBusy(m) /\ OneFate(m)
  BY DEF IInv
<1>2. call[m] # "idle" => Shut(m)'
  BY DEF Shut
<1>3. KnownFailed(m)' => KnownFailed(m)
  BY DEF KnownFailed
<1>4. HasFate(m)' => HasFate(m)
  BY <1>3 DEF HasFate
<1>5. OneBusy(m)'
  <2>1. ASSUME NEW c \in Contexts, IdOf(c) = m, Busy(c)' PROVE Shut(m)'
    BY <1>2, <2>1, CalledOnce DEF Busy
  <2> QED BY <1>1, <2>1 DEF OneBusy
<1>6. OneFate(m)'
  BY <1>1, <1>2, <1>3, <1>4 DEF OneFate, FateKept
<1> QED BY <1>5, <1>6

\* Stop: first attempts on their way are to be forgotten.
LEMMA StopKeeperStep == ASSUME IInv, StopKeeper PROVE IInv'
<1> USE DEF IInv, channelVars
<1>1. /\ started' = "no" /\ warmingUp' = warmingUp /\ before' = {}
      /\ pending' = [id \in Ids |-> {}] /\ promise' = [id \in Ids |-> "none"]
      /\ finished' = [id \in Ids |-> "none"] /\ evictionQueue' = <<>>
      /\ UNCHANGED <<outcome, detached, channelVars, requests, applied>>
  BY DEF StopKeeper, Stop, TakePending
<1>2. /\ context' \in [Contexts -> {"new", "executing", "executed", "replied", "waiting", "done"}]
      /\ \A c \in Contexts : context'[c] = context[c] \/ (context[c] = "waiting" /\ context'[c] = "done")
      /\ replies' \subseteq Contexts \X Values
      /\ \A c, v : <<c, v>> \in replies' => <<c, v>> \in replies \/ v \in {"error", "unavailable"}
  <2>1. TrySet(Ids, "error")
    BY DEF StopKeeper, Stop
  <2> QED BY <2>1, TrySetShape
<1>3. /\ forgotten \subseteq forgotten' /\ forgotten' \subseteq Mutations
      /\ \A m \in Mutations \ forgotten' : <<m, 1>> \notin requests
  <2>1. forgotten' = forgotten \cup {IdOf(c) : c \in {d \in requests : ~ IsRetry(d)}}
    BY DEF StopKeeper
  <2>2. \A c \in requests : IdOf(c) \in Mutations
    BY Shape DEF TypeOK
  <2>3. forgotten' \subseteq Mutations /\ forgotten \subseteq forgotten'
    BY <2>1, <2>2 DEF TypeOK
  <2>4. ASSUME NEW m \in Mutations \ forgotten', <<m, 1>> \in requests PROVE FALSE
    <3>1. IdOf(<<m, 1>>) = m /\ ~ IsRetry(<<m, 1>>)
      BY DEF IdOf, IsRetry
    <3>2. IdOf(<<m, 1>>) \in {IdOf(c) : c \in {d \in requests : ~ IsRetry(d)}}
      BY <2>4, <3>1
    <3> QED BY <2>1, <2>4, <3>1, <3>2
  <2> QED BY <2>3, <2>4
<1>4. TypeOK'
  <2>1. faults' \in 0 .. MaxFaults
    BY RetriedMutationAssumption DEF StopKeeper, Fault, TypeOK
  <2> QED BY <1>1, <1>2, <1>3, <2>1 DEF TypeOK
<1>5. ChannelMatches' /\ PendingStarted' /\ PendingHasExecutor'
  BY <1>1, Shape DEF ChannelMatches, PendingStarted, PendingHasExecutor
<1>6. ContextsMatch' /\ OutcomesMatch'
  BY <1>1, <1>2 DEF ContextsMatch, OutcomesMatch
<1>7. OkIsTrue'
  BY <1>1, <1>2, Shape DEF OkIsTrue
<1>8. ASSUME NEW m \in Mutations \ forgotten' PROVE OneBusy(m)' /\ OneFate(m)'
  <2>1. m \in Mutations \ forgotten /\ <<m, 1>> \notin requests' /\ finished'[m] = "none"
    BY <1>1, <1>3, Shape
  <2>2. \A c \in Contexts : (Busy(c)' => Busy(c)) /\ (context'[c] = "executing" => context[c] = "executing")
    BY <1>2 DEF Busy
  <2>3. \A c \in Contexts : <<c, "failed">> \in replies' => <<c, "failed">> \in replies
    BY <1>2
  <2> QED BY <1>1, <2>1, <2>2, <2>3, KeeperDown
<1> QED BY <1>4, <1>5, <1>6, <1>7, <1>8

\* A crash of the server ends all that it was doing.
LEMMA CrashServerStep == ASSUME IInv, CrashServer PROVE IInv'
<1> USE DEF IInv, channelVars, historyVars
<1>1. /\ started' = "no" /\ warmingUp' = "no" /\ before' = {} /\ requests' = {} /\ replies' = {} /\ detached' = {}
      /\ pending' = [id \in Ids |-> {}] /\ promise' = [id \in Ids |-> "none"]
      /\ finished' = [id \in Ids |-> "none"] /\ evictionQueue' = <<>>
      /\ outcome' = [c \in Contexts |-> "none"]
      /\ UNCHANGED <<channelVars, historyVars>>
  BY DEF CrashServer, Crash, TakePending
<1>2. context' = [c \in Contexts |-> IF context[c] # "new" THEN "done" ELSE context[c]]
  BY DEF CrashServer, Crash, Finish
<1>3. TypeOK'
  <2>1. faults' \in 0 .. MaxFaults
    BY RetriedMutationAssumption DEF CrashServer, Fault, TypeOK
  <2> QED BY <1>1, <1>2, <2>1 DEF TypeOK
<1>4. ChannelMatches' /\ PendingStarted' /\ PendingHasExecutor'
  BY <1>1, Shape DEF ChannelMatches, PendingStarted, PendingHasExecutor
<1>5. ContextsMatch' /\ OutcomesMatch'
  BY <1>1, <1>2 DEF ContextsMatch, OutcomesMatch
<1>6. OkIsTrue'
  BY <1>1, Shape DEF OkIsTrue
<1>7. ASSUME NEW m \in Mutations \ forgotten PROVE OneBusy(m)' /\ OneFate(m)'
  <2>1. finished'[m] = "none" /\ <<m, 1>> \notin requests'
    BY <1>1, Shape
  <2>2. \A c \in Contexts : ~ Busy(c)' /\ context'[c] # "executing"
    BY <1>2 DEF Busy
  <2> QED BY <1>1, <2>1, <2>2, KeeperDown
<1> QED BY <1>1, <1>3, <1>4, <1>5, <1>6, <1>7

\* OnEvict: the keeper forgets a fate when nothing is left of the call.
LEMMA EvictStep == ASSUME IInv, Evict PROVE IInv'
<1> USE DEF IInv, channelVars, historyVars, runVars, pendingVars, faultVars
<1>0. /\ evictionQueue # <<>> /\ Head(evictionQueue) \in Mutations /\ Tail(evictionQueue) \in Seq(Ids)
  BY Shape DEF Evict, TypeOK
<1>1. PICK h \in Mutations : /\ Quiet(h) /\ finished' = [finished EXCEPT ![h] = "none"]
                             /\ evictionQueue' = Tail(evictionQueue)
                             /\ UNCHANGED <<runVars, pendingVars, context, outcome, replies, detached, channelVars,
                                            requests, faultVars, historyVars>>
  BY <1>0 DEF Evict, OnEvict
<1>2. h \in Mutations /\ h \in Ids /\ evictionQueue' \in Seq(Ids)
  BY <1>0, <1>1, Shape
<1>3. finished'[h] = "none" /\ \A m \in Mutations \ {h} : finished'[m] = finished[m]
  BY <1>1, <1>2, Shape DEF TypeOK
<1>4. TypeOK'
  BY <1>1, <1>2 DEF TypeOK
<1>5. ChannelMatches' /\ ContextsMatch' /\ OutcomesMatch' /\ PendingHasExecutor' /\ PendingStarted'
  BY <1>1 DEF ChannelMatches, ContextsMatch, OutcomesMatch, PendingHasExecutor, PendingStarted
<1>6. OkIsTrue'
  BY <1>1, <1>3 DEF OkIsTrue
<1>7. ASSUME NEW m \in Mutations PROVE (Shut(m) => Shut(m)') /\ (KnownFailed(m)' => KnownFailed(m))
  <2>1. Quiet(m)' <=> Quiet(m)
    BY <1>1 DEF Quiet
  <2>2. Shut(m) => Shut(m)'
    BY <1>1, <2>1 DEF Shut
  <2>3. finished'[m] = "failed" => finished[m] = "failed"
    BY <1>3
  <2>4. KnownFailed(m)' => KnownFailed(m)
    BY <1>1, <2>3 DEF KnownFailed
  <2> QED BY <2>2, <2>4
<1>8. ASSUME NEW m \in Mutations \ forgotten, m # h PROVE OneBusy(m)' /\ OneFate(m)'
  BY <1>1, <1>3, <1>7, <1>8, Untouched DEF Busy
<1>9. ASSUME h \notin forgotten PROVE OneBusy(h)' /\ OneFate(h)'
  <2>1. OneFate(h)
    BY <1>2, <1>9
  <2>2. \A c \in Contexts : IdOf(c) = h => ~ Busy(c)' /\ context'[c] # "executing" /\ c \notin requests
    BY <1>1 DEF Quiet, Busy
  <2>3. OneBusy(h)'
    BY <2>2 DEF OneBusy
  <2>4. HasFate(h)' => HasFate(h)
    BY <1>1, <1>2, <1>7 DEF HasFate
  <2>5. <<h, 1>> \notin requests
    BY <1>2, <2>2, Shape
  <2>6. Quiet(h)'
    BY <1>1 DEF Quiet
  <2>7. call[h] # "idle" => Shut(h)'
    BY <1>1, <2>5, <2>6 DEF Shut
  <2> QED BY <1>1, <1>2, <1>7, <2>1, <2>2, <2>3, <2>4, <2>7 DEF OneFate, FateKept
<1> QED BY <1>1, <1>4, <1>5, <1>6, <1>8, <1>9

\* The connection breaks: nothing of what is lost was needed.
LEMMA DisconnectStep == ASSUME IInv, Disconnect PROVE IInv'
<1> USE DEF IInv, channelVars, historyVars, runVars, pendingVars, keptVars
<1>1. /\ requests' = {} /\ replies' = {} /\ detached' \subseteq Contexts
      /\ UNCHANGED <<channelVars, runVars, pendingVars, keptVars, context, outcome, before, historyVars>>
  BY DEF Disconnect
<1>2. TypeOK'
  <2>1. faults' \in 0 .. MaxFaults
    BY RetriedMutationAssumption DEF Disconnect, Fault, TypeOK
  <2> QED BY <1>1, <2>1 DEF TypeOK
<1>3. ChannelMatches' /\ ContextsMatch' /\ OutcomesMatch' /\ PendingHasExecutor' /\ PendingStarted' /\ OkIsTrue'
  BY <1>1 DEF ChannelMatches, ContextsMatch, OutcomesMatch, PendingHasExecutor, PendingStarted, OkIsTrue
<1>4. ASSUME NEW m \in Mutations \ forgotten PROVE OneBusy(m)' /\ OneFate(m)'
  <2>1. Shut(m) => Shut(m)'
    <3> SUFFICES ASSUME Shut(m) PROVE Shut(m)'
      OBVIOUS
    <3>1. call'[m] # "idle"
      BY <1>1 DEF Shut
    <3> QED BY <1>1, <3>1, ShutStays
  <2>2. KnownFailed(m)' => KnownFailed(m)
    BY <1>1 DEF KnownFailed
  <2> QED BY <1>1, <2>1, <2>2, Untouched DEF Busy
<1> QED BY <1>1, <1>2, <1>3, <1>4

-----------------------------------------------------------------------------
(* The specification.                                                      *)

\* Nothing has begun in the initial state.
LEMMA InvariantInit == Init => IInv
<1> SUFFICES ASSUME Init PROVE IInv
  OBVIOUS
<1> USE DEF Init, ChannelInit, KeeperInit
<1>1. TypeOK
  BY Shape, RetriedMutationAssumption DEF TypeOK
<1>2. ChannelMatches /\ ContextsMatch
  BY Shape DEF ChannelMatches, ContextsMatch
<1>3. OutcomesMatch /\ PendingHasExecutor /\ PendingStarted /\ OkIsTrue
  BY Shape DEF OutcomesMatch, PendingHasExecutor, PendingStarted, OkIsTrue
<1>4. ASSUME NEW m \in Mutations PROVE OneBusy(m) /\ ~ HasFate(m) /\ applied[m] = 0
  BY Shape DEF OneBusy, Busy, HasFate, KnownFailed
<1>5. \A m \in Mutations : OneBusy(m) /\ OneFate(m)
  BY <1>4 DEF OneFate
<1> QED BY <1>1, <1>2, <1>3, <1>5 DEF IInv

\* Every step keeps the invariant.
LEMMA InvariantStep == IInv /\ [Next]_vars => IInv'
<1> SUFFICES ASSUME IInv, [Next]_vars PROVE IInv'
  OBVIOUS
<1>1. CASE Steps
  <2>1. CASE \E m \in Mutations : (call[m] = "backoff" /\ SendAttempt(m)) \/ FailAttempt(m) \/ HandOver(m)
    BY <2>1, SendAttemptStep, FailAttemptStep, HandOverStep
  <2>2. CASE \E r \in replies : ReceiveReply(r[1], r[2])
    <3>1. PICK r \in replies : ReceiveReply(r[1], r[2])
      BY <2>2
    <3>2. r[1] \in Contexts /\ r[2] \in Values
      BY <3>1 DEF IInv, TypeOK
    <3> QED BY <3>1, <3>2, ReceiveReplyStep
  <2>3. CASE \E c \in requests : ReceiveRequest(c)
    <3>1. PICK c \in requests : ReceiveRequest(c)
      BY <2>3
    <3>2. c \in Contexts
      BY <3>1, Shape DEF IInv, TypeOK
    <3> QED BY <3>1, <3>2, ReceiveRequestStep
  <2>4. CASE \E c \in Contexts : RunHandler(c) \/ EndHandler(c)
    BY <2>4, RunHandlerStep, EndHandlerStep
  <2> QED BY <1>1, <2>1, <2>2, <2>3, <2>4 DEF Steps
<1>2. CASE Environment
  <2>1. CASE \E m \in Mutations : SendAttempt(m) \/ Cancel(m)
    BY <2>1, SendAttemptStep, CancelStep
  <2>2. CASE \E c \in Contexts : CancelContext(c)
    BY <2>2, CancelContextStep
  <2>3. CASE StartKeeper \/ WarmUp \/ StopKeeper \/ CancelPending \/ Evict
    BY <2>3, StartKeeperStep, WarmUpStep, StopKeeperStep, CancelPendingStep, EvictStep
  <2>4. CASE CrashServer \/ Disconnect
    BY <2>4, CrashServerStep, DisconnectStep
  <2> QED BY <1>2, <2>1, <2>2, <2>3, <2>4 DEF Environment
<1>3. CASE UNCHANGED vars
  <2>1. UNCHANGED <<channelVars, runVars, pendingVars, keptVars, context, outcome, replies, detached, requests,
                    faultVars, historyVars>>
    BY <1>3 DEF vars, keeperVars
  <2> USE DEF channelVars, runVars, pendingVars, keptVars, faultVars, historyVars
  <2>2. TypeOK'
    BY <2>1 DEF IInv, TypeOK
  <2>3. /\ ChannelMatches' /\ ContextsMatch' /\ OutcomesMatch' /\ PendingHasExecutor' /\ PendingStarted'
        /\ OkIsTrue'
    BY <2>1 DEF IInv, ChannelMatches, ContextsMatch, OutcomesMatch, PendingHasExecutor, PendingStarted, OkIsTrue
  <2>4. ASSUME NEW m \in Mutations \ forgotten PROVE OneBusy(m)' /\ OneFate(m)'
    <3>1. Quiet(m)' <=> Quiet(m)
      BY <2>1 DEF Quiet
    <3>2. Shut(m) => Shut(m)'
      BY <2>1, <3>1 DEF Shut
    <3>3. KnownFailed(m)' => KnownFailed(m)
      BY <2>1 DEF KnownFailed
    <3> QED BY <2>1, <3>2, <3>3, Untouched DEF IInv, Busy
  <2> QED BY <2>1, <2>2, <2>3, <2>4 DEF IInv
<1> QED BY <1>1, <1>2, <1>3 DEF Next

\* The invariant holds in every reachable state.
THEOREM Invariance == Spec => []IInv
BY InvariantInit, InvariantStep, PTL DEF Spec

\* Retries are safe: whatever is lost, late, canceled or restarted, the handler
\* carries out a mutation at most once and is never run for it by two contexts
\* at a time, unless the keeper was told to forget it.
THEOREM MutationsAtMostOnce == Spec => []AtMostOnce
<1>1. IInv => AtMostOnce
  BY DEF IInv, AtMostOnce, OneFate, OneBusy, Busy
<1> QED BY <1>1, Invariance, PTL

\* The answer a caller gets is true of the mutation, although it may come from
\* the keeper or be the reply to an attempt that had been given up.
THEOREM AnswersTrue == Spec => []AnswersAreTrue
<1>1. IInv => AnswersAreTrue
  BY DEF IInv, AnswersAreTrue, OkIsTrue, OneFate, KnownFailed
<1> QED BY <1>1, Invariance, PTL

\* A pending response in the map has a context that will end it.
THEOREM PendingIsExecuted == Spec => []PendingHasExecutor
<1>1. IInv => PendingHasExecutor
  BY DEF IInv
<1> QED BY <1>1, Invariance, PTL
=============================================================================
