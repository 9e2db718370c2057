--------------------- MODULE MCBoundedConcurrencyInvoker ---------------------
(* Instances of BoundedConcurrencyInvoker for TLC.                         *)
EXTENDS BoundedConcurrencyInvoker

CONSTANTS t1, t2, a, b, c, d

MCThreads == {t1, t2}
MCCallbacks == {a, b, c, d}
=============================================================================
