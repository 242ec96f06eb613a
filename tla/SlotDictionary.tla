---------------------------- MODULE SlotDictionary ----------------------------
(***************************************************************************)
(* SlotDictionary of src/function/objects: the keys and values of the      *)
(* slots of an object, in two arrays searched by identity, in which every  *)
(* access moves the slot found one place towards the front.  The first two *)
(* elements are compared with a key whether there are slots in them or     *)
(* not: nil is what they hold when not.                                    *)
(***************************************************************************)
EXTENDS Integers, Sequences

CONSTANTS SlotKey, SlotValue,
          NilSlot,   \* the object nil: what palloc fills an array with
          MaxSlots   \* bound: the longest arrays

ASSUME SlotAssumption == NilSlot \notin SlotKey /\ NilSlot \notin SlotValue /\ MaxSlots \in Nat

VARIABLES slots,    \* the arrays, as one sequence of keys with values
          filled,   \* the tally
          slotAnswer,  \* what the last message answered
          nilSent   \* nil was a key in a message

slotVars == <<slots, filled, slotAnswer, nilSent>>

SlotOf(k, v) == [key |-> k, value |-> v]
Unused(n)  == [i \in 1 .. n |-> SlotOf(NilSlot, NilSlot)]

\* new makes four slots, basicNew two; the default is nil.
SlotInit ==
    /\ \E n \in {2, 4} : slots = Unused(n)
    /\ filled = 0 /\ slotAnswer = NilSlot /\ nilSent = FALSE

\* Where at: and at:put: look for k: the first place, the second, and those
\* after them that are filled.
SlotPlaces == {1, 2} \cup (3 .. filled)
FoundAt(k) == {i \in SlotPlaces : slots[i].key = k /\ \A j \in 1 .. i - 1 : slots[j].key # k}

\* The slot found, now of value v, in the place before its own; mutant: the
\* value is left behind.
ForwardKey(i, v) ==
    IF i = 1 THEN [slots EXCEPT ![1].value = v]
    ELSE [slots EXCEPT ![i].key = slots[i - 1].key, ![i - 1] = SlotOf(slots[i].key, v)]
Forward(i, v) ==
    IF i = 1 THEN [slots EXCEPT ![1].value = v]
    ELSE [slots EXCEPT ![i] = slots[i - 1], ![i - 1] = SlotOf(slots[i].key, v)]

SlotAt(k) ==
    /\ \/ \E i \in FoundAt(k) : slots' = Forward(i, slots[i].value) /\ slotAnswer' = slots[i].value
       \/ FoundAt(k) = {} /\ slotAnswer' = NilSlot /\ UNCHANGED slots
    /\ nilSent' = (nilSent \/ k = NilSlot)
    /\ UNCHANGED filled

Extended == IF filled = Len(slots) THEN slots \o Unused(Len(slots)) ELSE slots

SlotAtPut(k, v) ==
    /\ \/ \E i \in FoundAt(k) : slots' = Forward(i, v) /\ UNCHANGED filled
       \/ /\ FoundAt(k) = {} /\ Len(Extended) <= MaxSlots
          /\ slots' = [Extended EXCEPT ![filled + 1] = SlotOf(k, v)]
          /\ filled' = filled + 1
    /\ slotAnswer' = v
    /\ nilSent' = (nilSent \/ k = NilSlot)

\* Mutant: the place that is left keeps its key.
ClosedKept(i) ==
    [j \in DOMAIN slots |-> IF j \in i .. filled - 1 THEN slots[j + 1] ELSE slots[j]]
Closed(i) ==
    [j \in DOMAIN slots |->
        IF j \in i .. filled - 1 THEN slots[j + 1]
        ELSE IF j = filled THEN SlotOf(NilSlot, NilSlot) ELSE slots[j]]

SlotRemove(k) ==
    /\ \/ /\ \E i \in 1 .. filled :
                /\ slots[i].key = k /\ \A j \in 1 .. i - 1 : slots[j].key # k
                /\ slots' = Closed(i)
          /\ filled' = filled - 1
       \/ (\A i \in 1 .. filled : slots[i].key # k) /\ UNCHANGED <<slots, filled>>
    /\ nilSent' = (nilSent \/ k = NilSlot)
    /\ UNCHANGED slotAnswer

SlotNext ==
    \E k \in SlotKey \cup {NilSlot} :
        SlotAt(k) \/ SlotRemove(k) \/ \E v \in SlotValue : SlotAtPut(k, v)

SlotSpec == SlotInit /\ [][SlotNext]_slotVars

-----------------------------------------------------------------------------
(* The tally never passes the arrays, and what lies past it is nil unless  *)
(* a message had nil for a key.                                            *)
SlotTypeOK ==
    /\ slots \in Seq([key : SlotKey \cup {NilSlot}, value : SlotValue \cup {NilSlot}])
    /\ filled \in 0 .. Len(slots)
    /\ ~nilSent => \A i \in filled + 1 .. Len(slots) : slots[i] = SlotOf(NilSlot, NilSlot)

Slotted == {slots[i].key : i \in 1 .. filled}
Held == [k \in Slotted |-> slots[CHOOSE i \in 1 .. filled : slots[i].key = k].value]

(* As long as nil is no key, the moving about of slots is not to be seen:  *)
(* every message answers and does what it would with a map, whatever was   *)
(* looked up, put and removed before.                                      *)
Map == INSTANCE SlotMap WITH held <- Held, answer <- slotAnswer
ActsAsMap ==
    [][~nilSent' => \A k \in SlotKey :
          /\ SlotAt(k) => Map!Get(k)
          /\ SlotRemove(k) => Map!Drop(k)
          /\ \A v \in SlotValue : SlotAtPut(k, v) => Map!Put(k, v)]_slotVars
=============================================================================
