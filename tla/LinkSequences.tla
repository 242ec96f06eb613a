---------------------------- MODULE LinkSequences ----------------------------
(* Lists as sequences of links, no link in two places: a link comes in at  *)
(* an end or beside another, and goes out from anywhere.                   *)
EXTENDS Integers, Sequences
CONSTANTS Link, List
VARIABLE lists

S == INSTANCE SequencesExt

\* The lists after are those before without x, which was in one place.
Without(x, before, after) ==
    \E l \in List : \E i \in DOMAIN before[l] :
        before[l][i] = x /\ after = [before EXCEPT ![l] = S!RemoveAt(@, i)]
Absent(x, now) == \A l \in List : \A i \in DOMAIN now[l] : now[l][i] # x

Leave(x, old, new) == Without(x, old, new)
Enter(x, old, new) == Absent(x, old) /\ Without(x, new, old)

Init == lists = [l \in List |-> <<>>]
Next == \E x \in Link : Enter(x, lists, lists') \/ Leave(x, lists, lists')
Spec == Init /\ [][Next]_lists
=============================================================================
