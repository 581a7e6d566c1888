----------------------------- MODULE BoundedFifo -----------------------------
(***************************************************************************)
(* What the queues of src/sem2/lab2 promise: values leave in the order in  *)
(* which they entered, none is lost or duplicated, and at most MaxCount of *)
(* them are inside.                                                        *)
(***************************************************************************)
EXTENDS Naturals, Sequences

CONSTANTS Values, MaxCount

VARIABLES
  sent,       \* every value that entered, in order
  delivered   \* every value that left, in order

Inside == Len(sent) - Len(delivered)

Init == sent = <<>> /\ delivered = <<>>

Put ==
  /\ Inside < MaxCount
  /\ \E v \in Values : sent' = Append(sent, v)
  /\ UNCHANGED delivered

Get ==
  /\ Inside > 0
  /\ delivered' = Append(delivered, sent[Len(delivered) + 1])
  /\ UNCHANGED sent

Next == Put \/ Get

Spec == Init /\ [][Next]_<<sent, delivered>>
=============================================================================
