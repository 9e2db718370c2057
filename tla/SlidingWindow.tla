--------------------------- MODULE SlidingWindow ---------------------------
(***************************************************************************)
(* TSlidingWindow (yt/yt/core/misc/sliding_window-inl.h): puts packets     *)
(* that carry sequence numbers back into order.  A window is a record: the *)
(* next sequence number to release and the packets held until then.        *)
(***************************************************************************)
EXTENDS Integers, FiniteSets

EmptyWindow == [next |-> 0, held |-> {}]

Packet(s, x) == [seq |-> s, data |-> x]

\* AddPacket throws: the packet was released before, is held already, or the
\* window holds maxSize packets (whatever number the new packet has).
Rejects(w, s, maxSize) ==
    \/ s < w.next
    \/ \E p \in w.held : p.seq = s
    \/ Cardinality(w.held) >= maxSize

\* The first sequence number from w.next on that is missing from held.
Missing(w, held) ==
    CHOOSE n \in w.next .. w.next + Cardinality(held) :
        /\ \A p \in held : p.seq # n
        /\ \A m \in w.next .. n - 1 : \E p \in held : p.seq = m

\* Mutant: packets are released as they come.
ReleasedUnordered(w, s, x) == <<x>>

\* The packets that AddPacket passes to its callback, in that order.
Released(w, s, x) ==
    LET held == w.held \cup {Packet(s, x)}
    IN  [i \in 1 .. Missing(w, held) - w.next |->
            (CHOOSE p \in held : p.seq = w.next + i - 1).data]

\* The window after AddPacket.
AddPacket(w, s, x) ==
    LET held == w.held \cup {Packet(s, x)}
        next == Missing(w, held)
    IN  [next |-> next, held |-> {p \in held : p.seq >= next}]
=============================================================================
