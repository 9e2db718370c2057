---------------------------- MODULE Attachments ----------------------------
(***************************************************************************)
(* What the two ends of an attachment stream share: the blocks, numbered   *)
(* by the order of the Write calls, and their sizes.  End stands for the   *)
(* null attachment that ends a stream.                                     *)
(***************************************************************************)
EXTENDS Integers, Sequences, FiniteSets, FiniteSetsExt

CONSTANTS
    N,      \* number of blocks
    Size    \* Size[b]: bytes of block b as sent

ASSUME BlocksAssumption == N \in Nat /\ Size \in [1 .. N -> Nat \ {0}]

Blocks == 1 .. N
End == N + 1

\* GetStreamingAttachmentSize: the null attachment counts as one byte.
SizeOf(x) == IF x = End THEN 1 ELSE Size[x]

\* Bytes of the first n entries of a queue, counted one by one.
Bytes(q, n) == Cardinality(UNION {{i} \X (1 .. SizeOf(q[i])) : i \in 1 .. n})
=============================================================================
