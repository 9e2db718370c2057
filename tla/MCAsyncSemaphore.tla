-------------------------- MODULE MCAsyncSemaphore --------------------------
(* An instance of AsyncSemaphore for TLC.                                  *)
EXTENDS AsyncSemaphore, TLC

CONSTANTS t1, t2, a, b, c, d

MCThreads == {t1, t2}

\* A small request, two that compete, and one that is larger than the total.
MCRequests == {a, b, c, d}
MCSlots == a :> 1 @@ b :> 1 @@ c :> 2 @@ d :> 3
=============================================================================
