--------------------------- MODULE SerialExecutor ---------------------------
(***************************************************************************)
(* What a serialized invoker promises (yt/yt/core/actions/invoker.h and    *)
(* serialized_invoker.h), without threads: callbacks are executed one at a *)
(* time, in the order in which they were accepted, until the executor      *)
(* dies; then those that wait are dropped and no other is executed.        *)
(***************************************************************************)
EXTENDS Sequences

CONSTANT Callbacks

VARIABLES
    waiting,    \* accepted callbacks that have not begun, in order
    current,    \* the callback that is executing, as a set of at most one
    alive,      \* "yes" until the executor dies
    fate        \* fate[c]: "new", "accepted", "executed" or "dropped"

vars == <<waiting, current, alive, fate>>

Init ==
    /\ waiting = <<>>
    /\ current = {}
    /\ alive = "yes"
    /\ fate = [c \in Callbacks |-> "new"]

Accept(c) ==
    /\ alive = "yes"
    /\ fate[c] = "new"
    /\ fate' = [fate EXCEPT ![c] = "accepted"]
    /\ waiting' = Append(waiting, c)
    /\ UNCHANGED <<current, alive>>

\* A dead executor refuses callbacks.
Refuse(c) ==
    /\ alive = "no"
    /\ fate[c] = "new"
    /\ fate' = [fate EXCEPT ![c] = "dropped"]
    /\ UNCHANGED <<waiting, current, alive>>

Begin ==
    /\ current = {}
    /\ waiting # <<>>
    /\ current' = {Head(waiting)}
    /\ waiting' = Tail(waiting)
    /\ UNCHANGED <<alive, fate>>

End(c) ==
    /\ current = {c}
    /\ current' = {}
    /\ fate' = [fate EXCEPT ![c] = "executed"]
    /\ UNCHANGED <<waiting, alive>>

\* Death drops what waits, and only then: nothing is executing.
Die ==
    /\ alive = "yes"
    /\ alive' = "no"
    /\ current = {}
    /\ waiting' = <<>>
    /\ fate' = [c \in Callbacks |-> IF fate[c] = "accepted" THEN "dropped" ELSE fate[c]]
    /\ UNCHANGED current

Next ==
    \/ \E c \in Callbacks : Accept(c) \/ Refuse(c) \/ End(c)
    \/ Begin
    \/ Die

Spec == Init /\ [][Next]_vars
=============================================================================
