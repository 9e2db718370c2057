------------------------ MODULE MCSerializedInvoker ------------------------
(* An instance of SerializedInvoker for TLC.                               *)
EXTENDS SerializedInvoker

CONSTANTS t1, t2, t3, a, b, c, d

MCThreads == {t1, t2, t3}
MCCallbacks == {a, b, c, d}
=============================================================================
