----------------------- MODULE MCAsyncReaderWriterLock -----------------------
(* An instance of AsyncReaderWriterLock for TLC.                           *)
EXTENDS AsyncReaderWriterLock

CONSTANTS t1, t2, r1, r2, r3, w1, w2

MCThreads == {t1, t2}
MCReaders == {r1, r2, r3}
MCWriters == {w1, w2}
=============================================================================
