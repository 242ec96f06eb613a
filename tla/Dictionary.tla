------------------------------ MODULE Dictionary ------------------------------
(***************************************************************************)
(* Dictionaries of src/object/st80/Dictionary.st: sets of associations,    *)
(* probed by their keys.  add: and addAll: put the association they are    *)
(* given into the array, so that two dictionaries may have it, and         *)
(* at:put: changes the association it finds.                               *)
(*                                                                         *)
(* The scans and relocations are those of HashSet, on the keys; an         *)
(* association goes where its key goes.  IdentityDictionary has the same   *)
(* code with == for =, which is the same with one object for each key.     *)
(***************************************************************************)
EXTENDS HashSet

CONSTANTS Dict, DictKey, DictValue,
          MaxAssociations  \* bound: the associations in all dictionaries

ASSUME DictionaryAssumption ==
    DictKey \subseteq Element /\ Nil \notin DictValue /\ MaxAssociations \in Nat

VARIABLES dictionaries,  \* of each, the array (as its keys, and the
                         \* association of each key) and the tally
          contents       \* the values of the associations, Nil of those in
                         \* no dictionary

dictVars == <<dictionaries, contents>>

Number == 1 .. MaxAssociations

\* Dictionary new
DictInit ==
    /\ dictionaries = [d \in Dict |-> [keys |-> Empty(2), of |-> <<>>, tally |-> 0]]
    /\ contents = [a \in Number |-> Nil]

-----------------------------------------------------------------------------
\* findElementOrNil: comes to an association with the key k.
Finds(t, k) == t.keys[ScanFor(t.keys, k)] = k

Bound(of, k, a) == [j \in DOMAIN of \cup {k} |-> IF j = k THEN a ELSE of[j]]

\* atNewIndex:put: of the association a, with fullCheck and grow.
AtNewIndex(t, k, a) ==
    LET keys  == Stored(t.keys, ScanFor(t.keys, k), k)
        grown == Grown(keys)
    IN  IF Full(keys, t.tally + 1)
        THEN [keys |-> grown.slots, of |-> Bound(t.of, k, a), tally |-> grown.tally]
        ELSE [keys |-> keys, of |-> Bound(t.of, k, a), tally |-> t.tally + 1]

\* add: of the association a, whose key is k, to the dictionary of s.
AddAssociation(s, k, a) ==
    IF Finds(s.dict, k) THEN [s EXCEPT !.contents = [@ EXCEPT ![s.dict.of[k]] = s.contents[a]]]
    ELSE [s EXCEPT !.dict = AtNewIndex(@, k, a)]

State(d) == [dict |-> dictionaries[d], contents |-> contents]

\* Afterwards; what no dictionary has any more is not told apart.
Becomes(d, s) ==
    LET used == UNION {{dictionaries'[e].of[k] : k \in DOMAIN dictionaries'[e].of} : e \in Dict}
    IN  /\ dictionaries' = [dictionaries EXCEPT ![d] = s.dict]
        /\ contents' = [a \in Number |-> IF a \in used THEN s.contents[a] ELSE Nil]

-----------------------------------------------------------------------------
\* withKey:value: makes an association that no dictionary has.
WithKeyValue(v, Then(_, _)) ==
    LET unused == {a \in Number : contents[a] = Nil}
        a == CHOOSE a \in unused : \A b \in unused : a <= b
    IN  unused # {} /\ Then(a, [contents EXCEPT ![a] = v])

\* Mutant: a new association takes the place of the one found.
AtPutAnew(d, k, v) ==
    WithKeyValue(v, LAMBDA a, c :
        Becomes(d, [dict |-> IF Finds(dictionaries[d], k)
                             THEN [dictionaries[d] EXCEPT !.of = Bound(@, k, a)]
                             ELSE AtNewIndex(dictionaries[d], k, a),
                    contents |-> c]))

\* at: k put: v, and add: of a new association
DictAtPut(d, k, v) ==
    LET t == dictionaries[d]
    IN  \/ /\ Finds(t, k)
           /\ Becomes(d, [dict |-> t, contents |-> [contents EXCEPT ![t.of[k]] = v]])
        \/ /\ ~Finds(t, k)
           /\ WithKeyValue(v, LAMBDA a, c :
                 Becomes(d, [dict |-> AtNewIndex(t, k, a), contents |-> c]))

\* d add: (e associationAt: k)
DictAdd(d, e, k) ==
    /\ Finds(dictionaries[e], k)
    /\ Becomes(d, AddAssociation(State(d), k, dictionaries[e].of[k]))

\* d addAll: e
DictAddAll(d, e) ==
    LET t == dictionaries[e]
        Added[i \in 0 .. Len(t.keys)] ==
            IF i = 0 THEN State(d)
            ELSE IF t.keys[i] = Nil THEN Added[i - 1]
            ELSE AddAssociation(Added[i - 1], t.keys[i], t.of[t.keys[i]])
    IN  d # e /\ Becomes(d, Added[Len(t.keys)])

\* removeKey:ifAbsent:
DictRemoveKey(d, k) ==
    LET t == dictionaries[d]
        i == ScanFor(t.keys, k)
    IN  /\ Finds(t, k)
        /\ Becomes(d, [State(d) EXCEPT !.dict =
                          [keys |-> FixCollisionsFrom(Stored(t.keys, i, Nil), i),
                           of |-> [j \in DOMAIN t.of \ {k} |-> t.of[j]],
                           tally |-> t.tally - 1]])

DictNext ==
    \E d \in Dict :
        \/ \E k \in DictKey, v \in DictValue : DictAtPut(d, k, v)
        \/ \E e \in Dict, k \in DictKey : DictAdd(d, e, k)
        \/ \E e \in Dict : DictAddAll(d, e)
        \/ \E k \in DictKey : DictRemoveKey(d, k)

DictSpec == DictInit /\ [][DictNext]_dictVars

-----------------------------------------------------------------------------
(* The associations of the array are those that a scan for their keys      *)
(* finds, each in one slot, and the tally is their number.                 *)
DictTypeOK ==
    \A d \in Dict :
        LET t == dictionaries[d]
        IN  /\ t.of \in [{k \in DictKey : Finds(t, k)} -> {a \in Number : contents[a] # Nil}]
            /\ DOMAIN t.of = Elements(t.keys)
            /\ t.tally = Cardinality({i \in DOMAIN t.keys : t.keys[i] # Nil})
            /\ t.tally = Cardinality(DOMAIN t.of)

(* Dictionaries are maps that share cells: no collision, relocation or     *)
(* growth loses a key, and a value changes in another dictionary through   *)
(* an association that both were given, and only then.                     *)
Shared == INSTANCE SharedMaps WITH
    bound <- [d \in Dict |-> dictionaries[d].of],
    contents <- [a \in {a \in Number : contents[a] # Nil} |-> contents[a]],
    Maps <- Dict, Keys <- DictKey, Values <- DictValue, Cells <- Number
MapsSpec == Shared!Spec
=============================================================================
