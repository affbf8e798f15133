---------------------------- MODULE PacketChannel ---------------------------
(***************************************************************************)
(* What the bytes on a connection are for: control packets reach the       *)
(* handlers of the other end whole, in the order they were sent, once, as  *)
(* they were written, and no other packet does.                            *)
(***************************************************************************)
EXTENDS Sequences, Naturals

VARIABLES
    open,           \* FALSE once the connection is broken
    sent,           \* the packets written
    handled         \* the packets handed over

vars == <<open, sent, handled>>

Init == open = TRUE /\ sent = <<>> /\ handled = <<>>

Send ==
    /\ open
    /\ Len(sent') = Len(sent) + 1
    /\ SubSeq(sent', 1, Len(sent)) = sent
    /\ UNCHANGED <<open, handled>>

Hand ==
    /\ Len(handled) < Len(sent)
    /\ handled' = Append(handled, sent[Len(handled) + 1])
    /\ UNCHANGED <<open, sent>>

Break == open /\ open' = FALSE /\ UNCHANGED <<sent, handled>>

Next == Send \/ Hand \/ Break

Spec == Init /\ [][Next]_vars
=============================================================================
