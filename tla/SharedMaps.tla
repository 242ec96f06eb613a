------------------------------ MODULE SharedMaps ------------------------------
(* Maps whose values are in cells, which several maps may share: what      *)
(* Dictionaries promise to programs that hand associations from one to     *)
(* another.                                                                *)
EXTENDS Functions
CONSTANTS Maps, Keys, Values, Cells
VARIABLES bound,    \* of each map, the cells of its keys
          contents  \* the values of the cells that are in some map

vars == <<bound, contents>>

Without(d, k) == [bound EXCEPT ![d] = Restrict(@, DOMAIN @ \ {k})]
\* f, and g where f has no value.
Joined(f, g) == [k \in DOMAIN f \cup DOMAIN g |-> IF k \in DOMAIN f THEN f[k] ELSE g[k]]
CellsOf(b) == UNION {{b[d][k] : k \in DOMAIN b[d]} : d \in Maps}

Init == bound = [d \in Maps |-> <<>>] /\ contents = <<>>

\* The value of a key, in the cell it has, or in a new one.
Put(d, k, v) ==
    \/ /\ k \in DOMAIN bound[d]
       /\ contents' = [contents EXCEPT ![bound[d][k]] = v]
       /\ UNCHANGED bound
    \/ /\ k \notin DOMAIN bound[d]
       /\ \E c \in Cells \ DOMAIN contents :
             /\ bound' = [bound EXCEPT ![d] = Joined(@, [j \in {k} |-> c])]
             /\ contents' = Joined(contents, [a \in {c} |-> v])

\* The cells of e for the keys ks are d's too, from now on; where d has one
\* already, that takes the value and the other is not shared.
Include(d, e, ks) ==
    LET given == {k \in ks : k \in DOMAIN bound[d]}
        taker(c) == CHOOSE k \in given : bound[d][k] = c
    IN  /\ bound' = [bound EXCEPT ![d] = Joined(@, Restrict(bound[e], ks))]
        /\ contents' = [c \in DOMAIN contents |->
                IF \E k \in given : bound[d][k] = c THEN contents[bound[e][taker(c)]]
                                                    ELSE contents[c]]

Drop(d, k) ==
    /\ bound' = Without(d, k)
    /\ contents' = Restrict(contents, CellsOf(Without(d, k)))

Next ==
    \E d \in Maps :
        \/ \E k \in Keys, v \in Values : Put(d, k, v)
        \/ \E e \in Maps : \E ks \in {{k} : k \in DOMAIN bound[e]} \cup {DOMAIN bound[e]} : Include(d, e, ks)
        \/ \E k \in DOMAIN bound[d] : Drop(d, k)

Spec == Init /\ [][Next]_vars
=============================================================================
