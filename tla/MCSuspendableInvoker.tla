------------------------ MODULE MCSuspendableInvoker ------------------------
(* Instances of SuspendableInvoker for TLC.                                *)
EXTENDS SuspendableInvoker

CONSTANTS w1, w2, a, b

MCWorkers == {w1, w2}
MCCallbacks == {a, b}
=============================================================================
