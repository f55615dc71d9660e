----------------------------- MODULE FrameFifo -----------------------------
(***************************************************************************)
(* What the connection promises to the handlers of a client, independent    *)
(* of bytes, buffers and recv: every message that was sent is handled once, *)
(* in the order of sending, one or several at a time.                       *)
(***************************************************************************)
EXTENDS Naturals, Sequences

CONSTANT Message

VARIABLES sent, handled

Init == sent = <<>> /\ handled = <<>>

Send(m) == sent' = Append(sent, m) /\ UNCHANGED handled

HandleUpTo(n) == handled' = SubSeq(sent, 1, n) /\ UNCHANGED sent

Next ==
  \/ \E m \in Message : Send(m)
  \/ \E n \in Len(handled)+1..Len(sent) : HandleUpTo(n)

Spec == Init /\ [][Next]_<<sent, handled>>
=============================================================================
