----------------------------- MODULE SortedItems -----------------------------
(* What a sorted collection promises: an item goes before the first it     *)
(* precedes, and none is ever lost or moved.                               *)
EXTENDS Integers, Sequences

CONSTANTS TreeKey, Precedes(_, _, _)
VARIABLES items, order

S == INSTANCE SequencesExt

Before(x) == {i \in DOMAIN items : Precedes(order, x, items[i])}
Place(x)  == IF Before(x) = {} THEN Len(items) + 1 ELSE CHOOSE i \in Before(x) : \A j \in Before(x) : i <= j

Put(x) == items' = S!InsertAt(items, Place(x), x) /\ UNCHANGED order

Init == items = <<>> /\ order \in {"<", "<=", ">"}
Next == \E k \in TreeKey : Put(<<k, Len(items)>>)
Spec == Init /\ [][Next]_<<items, order>>
=============================================================================
