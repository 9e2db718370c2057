---------------------------- MODULE BlockStream ----------------------------
(***************************************************************************)
(* What an attachment stream promises: blocks are received in the order in *)
(* which they were written, none left out and none twice; the end comes    *)
(* after the last block and is seen once; and Close is confirmed only when *)
(* the reader has seen the end.                                            *)
(***************************************************************************)
EXTENDS Integers, Sequences

CONSTANT N      \* number of blocks

VARIABLES
    sent,       \* blocks the stream has accepted
    received,   \* blocks the reader has taken
    end,        \* "open", "closed" by the writer, or "seen" by the reader
    confirmed   \* whether Close was confirmed, "yes" or "no"

streamVars == <<sent, received, end, confirmed>>

Init ==
    /\ sent = <<>>
    /\ received = <<>>
    /\ end = "open"
    /\ confirmed = "no"

\* Blocks are numbered in the order of the Write calls; several are accepted
\* at once when they have been waiting for an earlier one.
Send ==
    /\ end = "open"
    /\ \E n \in Len(sent) + 1 .. N : sent' = [i \in 1 .. n |-> i]
    /\ UNCHANGED <<received, end, confirmed>>

CloseStream ==
    /\ end = "open"
    /\ end' = "closed"
    /\ UNCHANGED <<sent, received, confirmed>>

Receive ==
    /\ Len(received) < Len(sent)
    /\ received' = Append(received, sent[Len(received) + 1])
    /\ UNCHANGED <<sent, end, confirmed>>

SeeEnd ==
    /\ end = "closed" /\ received = sent
    /\ end' = "seen"
    /\ UNCHANGED <<sent, received, confirmed>>

ConfirmClose ==
    /\ end = "seen" /\ confirmed = "no"
    /\ confirmed' = "yes"
    /\ UNCHANGED <<sent, received, end>>

Next == Send \/ CloseStream \/ Receive \/ SeeEnd \/ ConfirmClose

Spec == Init /\ [][Next]_streamVars
=============================================================================
