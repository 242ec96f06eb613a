------------------------------ MODULE Selectors ------------------------------
(***************************************************************************)
(* The selectors of src/object/id/libid.c: _selector___intern_ keeps one   *)
(* selector for each name in a table in the order of strcmp, finds a name  *)
(* by halving the table, and otherwise makes room for a new selector at    *)
(* the place where the search ended.  Dispatch tells selectors apart by    *)
(* identity, so it rests on this: one name, one selector.                  *)
(*                                                                         *)
(* A name stands for its rank in the order of strcmp.                      *)
(***************************************************************************)
EXTENDS Integers, Sequences

CONSTANTS Name,      \* the names interned
          Vacant,    \* what is in an element of the table nobody wrote
          FirstRoom  \* elements in the first table (4 in the code)

ASSUME NameAssumption == Name \subseteq Nat
ASSUME FirstRoomAssumption == FirstRoom \in Nat \ {0}

VARIABLES table,    \* _selector_Table's bindings, as long as they are allocated
          used,     \* its tally
          low, high, wanted,  \* of the search under way; wanted is -1 when none is
          made,     \* how many selectors were made
          interned  \* the selectors answered

selectorVars == <<table, used, low, high, wanted, made, interned>>

\* A selector: its name, and which one it is.
Selector == [name : Name, id : Nat]
ASSUME VacantAssumption == Vacant \notin Selector

SelectorInit ==
    /\ table = [i \in 1 .. FirstRoom |-> Vacant] /\ used = 0
    /\ low = 0 /\ high = 0 /\ wanted = -1
    /\ made = 0 /\ interned = {}

Intern(n) ==
    /\ wanted = -1
    /\ wanted' = n /\ low' = 0 /\ high' = used
    /\ UNCHANGED <<table, used, made, interned>>

\* Element i of the table, as the code counts them.
At0(i) == table[i + 1]

Halve ==
    /\ wanted # -1 /\ low < high
    /\ LET mid == (low + high) \div 2
       IN  \/ At0(mid).name < wanted /\ low' = mid + 1 /\ UNCHANGED high
           \/ At0(mid).name >= wanted /\ high' = mid /\ UNCHANGED low
    /\ UNCHANGED <<table, used, wanted, made, interned>>

Searched == wanted # -1 /\ low >= high
Present == low < used /\ At0(low).name = wanted

Answered(s) == interned' = interned \cup {s} /\ wanted' = -1

Find ==
    /\ Searched /\ Present
    /\ Answered(At0(low))
    /\ UNCHANGED <<table, used, low, high, made>>

\* Mutant: the table grows one selector late.
SpaceLate == IF used > Len(table) THEN 2 * Len(table) ELSE Len(table)
Space == IF used = Len(table) THEN 2 * Len(table) ELSE Len(table)

\* What memmove and the new selector make of the table; mutant: the element
\* before the place found is moved too.
InsertedBefore(s) ==
    LET place == IF low = 0 THEN 1 ELSE low
    IN  [i \in 1 .. Space |->
           IF i < place THEN table[i]
           ELSE IF i = place THEN s
           ELSE IF i <= used + 1 THEN table[i - 1]
           ELSE Vacant]
Inserted(s) ==
    [i \in 1 .. Space |->
        IF i <= low THEN table[i]
        ELSE IF i = low + 1 THEN s
        ELSE IF i <= used + 1 THEN table[i - 1]
        ELSE Vacant]

Make ==
    /\ Searched /\ ~Present
    /\ LET s == [name |-> wanted, id |-> made]
       IN  table' = Inserted(s) /\ Answered(s)
    /\ used' = used + 1
    /\ made' = made + 1
    /\ UNCHANGED <<low, high>>

SelectorNext == (\E n \in Name : Intern(n)) \/ Halve \/ Find \/ Make

SelectorSpec == SelectorInit /\ [][SelectorNext]_selectorVars

-----------------------------------------------------------------------------
(* What the table holds are selectors; the rest nobody has written.        *)
SelectorTypeOK ==
    /\ Len(table) \in Nat \ {0} /\ used \in 0 .. Len(table)
    /\ \A i \in 1 .. used : table[i] \in Selector
    /\ wanted \in Name \cup {-1} /\ made \in Nat /\ interned \subseteq Selector

(* A search halves what can still hold the name sought: it is not before   *)
(* low, and what lies from high on is not before it.                       *)
SearchSound ==
    wanted # -1 =>
      /\ 0 <= low /\ low <= high /\ high <= used
      /\ \A i \in 1 .. low : table[i].name < wanted
      /\ \A i \in high + 1 .. used : table[i].name >= wanted

(* However the table grew and whatever was put between, a name is answered *)
(* the one selector made for it the first time.                            *)
OneSelector == \A s, t \in interned : s.name = t.name => s = t
=============================================================================
