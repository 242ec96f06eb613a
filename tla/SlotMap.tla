------------------------------- MODULE SlotMap -------------------------------
(* A map from keys to values: what a SlotDictionary promises.              *)
EXTENDS Functions
CONSTANT NilSlot  \* answered for a key that is not there
VARIABLES held,   \* a function from the keys that are there
          answer

Get(k) ==
    /\ answer' = IF k \in DOMAIN held THEN held[k] ELSE NilSlot
    /\ UNCHANGED held
Put(k, v) ==
    /\ held' = [j \in DOMAIN held \cup {k} |-> IF j = k THEN v ELSE held[j]]
    /\ answer' = v
Drop(k) ==
    /\ held' = Restrict(held, DOMAIN held \ {k})
    /\ UNCHANGED answer
=============================================================================
