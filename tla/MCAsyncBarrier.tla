--------------------------- MODULE MCAsyncBarrier ---------------------------
(* An instance of AsyncBarrier for TLC.                                    *)
EXTENDS AsyncBarrier

CONSTANTS t1, t2, a, b, c, f, g

MCRemovers == {t1, t2}
MCItems == {a, b, c}
MCCalls == {f, g}
=============================================================================
