---------------------------- MODULE LibraryProofs ----------------------------
(***************************************************************************)
(* Proofs about the streams, the two tables that are searched in order,    *)
(* the linked lists and the opened arithmetic.                             *)
(*                                                                         *)
(* That _selector___intern_ makes one selector for a name, for any names,  *)
(* any table to begin with and any order of interning.  What carries the   *)
(* proof is that the table is sorted, strictly, and that a search keeps    *)
(* the place of the name sought between low and high.                      *)
(*                                                                         *)
(* That a SlotDictionary acts as a map as long as nil is no key, for every *)
(* set of keys and values, every length of its arrays and every sequence   *)
(* of messages.                                                            *)
(*                                                                         *)
(* That a stream stays inside its array and implements a Tape, for every   *)
(* array it is made on, every rule of growth and every sequence of         *)
(* messages.                                                               *)
(*                                                                         *)
(* That linked lists are sequences, no link being in two places, and that  *)
(* do: gives the links that stay in the list, once each, for any number of *)
(* lists and links.  What carries the proof is that some sequences have    *)
(* the pointers of the lists (Reads).                                      *)
(*                                                                         *)
(* That the fast paths of arithmetic answer what the operation does, or    *)
(* leave it to the method, for ints of any width.                          *)
(***************************************************************************)
EXTENDS Streams, Selectors, SlotDictionary, LinkedList, TaggedArithmetic,
        SequenceTheorems, FunctionTheorems, FiniteSetTheorems, WellFoundedInduction, TLAPS

Sorted == \A i, j \in 1 .. used : i < j => table[i].name < table[j].name
InternedIn == interned \subseteq {table[i] : i \in 1 .. used}
Bounds == /\ low \in Nat /\ high \in Nat
          /\ DOMAIN table = 1 .. Len(table)

SInv == SelectorTypeOK /\ Bounds /\ Sorted /\ SearchSound /\ InternedIn

LEMMA SelectorInitially == SelectorInit => SInv
<1> SUFFICES ASSUME SelectorInit PROVE SInv
  OBVIOUS
<1>1. Len(table) = FirstRoom /\ DOMAIN table = 1 .. FirstRoom
  BY FirstRoomAssumption DEF SelectorInit
<1>2. used = 0 /\ low = 0 /\ high = 0 /\ wanted = -1 /\ made = 0 /\ interned = {}
  BY DEF SelectorInit
<1> QED BY <1>1, <1>2, FirstRoomAssumption
        DEF SInv, SelectorTypeOK, Bounds, Sorted, SearchSound, InternedIn

LEMMA InternStep ==
  ASSUME SInv, NEW n \in Name, Intern(n)
  PROVE  SInv'
<1>1. UNCHANGED <<table, used, made, interned>> /\ wanted' = n /\ low' = 0 /\ high' = used
  BY DEF Intern
<1>2. SelectorTypeOK' /\ Bounds'
  BY <1>1 DEF SInv, SelectorTypeOK, Bounds
<1>3. SearchSound'
  <2>1. used \in Nat
    BY DEF SInv, SelectorTypeOK
  <2> QED BY <1>1, <2>1 DEF SearchSound
<1> QED BY <1>1, <1>2, <1>3 DEF SInv, Sorted, InternedIn

LEMMA HalveStep ==
  ASSUME SInv, Halve
  PROVE  SInv'
<1>1. PICK mid \in Nat : mid = (low + high) \div 2
  BY DEF SInv, Bounds
<1>2. /\ UNCHANGED <<table, used, wanted, made, interned>>
      /\ wanted # -1 /\ low < high
      /\ \/ At0(mid).name < wanted /\ low' = mid + 1 /\ UNCHANGED high
         \/ At0(mid).name >= wanted /\ high' = mid /\ UNCHANGED low
  BY <1>1 DEF Halve
<1>3. low <= mid /\ mid < high /\ high <= used /\ used \in Nat /\ low \in Nat /\ high \in Nat
  BY <1>1, <1>2 DEF SInv, Bounds, SearchSound, SelectorTypeOK
<1>4. /\ \A i \in 1 .. used : table[i].name \in Nat
      /\ wanted \in Nat
  BY <1>2, NameAssumption DEF SInv, SelectorTypeOK, Selector
<1>5. SearchSound'
  <2>1. CASE At0(mid).name < wanted /\ low' = mid + 1 /\ UNCHANGED high
    <3>1. \A i \in 1 .. mid + 1 : table[i].name < wanted
      <4> SUFFICES ASSUME NEW i \in 1 .. mid + 1 PROVE table[i].name < wanted
        OBVIOUS
      <4>1. CASE i = mid + 1
        BY <2>1, <4>1 DEF At0
      <4>2. CASE i < mid + 1
        <5>1. i \in 1 .. used /\ mid + 1 \in 1 .. used /\ i < mid + 1
          BY <1>3, <4>2
        <5>2. table[i].name < table[mid + 1].name
          BY <5>1 DEF SInv, Sorted
        <5> QED BY <1>4, <2>1, <5>1, <5>2 DEF At0
      <4> QED BY <1>3, <4>1, <4>2
    <3> QED BY <1>2, <1>3, <2>1, <3>1 DEF SInv, SearchSound
  <2>2. CASE At0(mid).name >= wanted /\ high' = mid /\ UNCHANGED low
    <3>1. \A i \in mid + 1 .. used : table[i].name >= wanted
      <4> SUFFICES ASSUME NEW i \in mid + 1 .. used PROVE table[i].name >= wanted
        OBVIOUS
      <4>1. CASE i = mid + 1
        BY <2>2, <4>1 DEF At0
      <4>2. CASE i > mid + 1
        <5>1. i \in 1 .. used /\ mid + 1 \in 1 .. used /\ mid + 1 < i
          BY <1>3, <4>2
        <5>2. table[mid + 1].name < table[i].name
          BY <5>1 DEF SInv, Sorted
        <5> QED BY <1>4, <2>2, <5>1, <5>2 DEF At0
      <4> QED BY <1>3, <4>1, <4>2
    <3> QED BY <1>2, <1>3, <2>2, <3>1 DEF SInv, SearchSound
  <2> QED BY <1>2, <2>1, <2>2
<1>6. Bounds'
  BY <1>2, <1>3 DEF SInv, Bounds
<1> QED BY <1>2, <1>5, <1>6 DEF SInv, SelectorTypeOK, Sorted, InternedIn

LEMMA FindStep ==
  ASSUME SInv, Find
  PROVE  SInv'
<1>1. /\ UNCHANGED <<table, used, low, high, made>> /\ wanted' = -1
      /\ interned' = interned \cup {table[low + 1]} /\ low < used
  BY DEF Find, Present, Answered, At0
<1>2. low + 1 \in 1 .. used
  BY <1>1 DEF SInv, Bounds, SelectorTypeOK
<1>3. InternedIn'
  BY <1>1, <1>2 DEF SInv, InternedIn
<1>4. SelectorTypeOK'
  BY <1>1, <1>2 DEF SInv, SelectorTypeOK
<1> QED BY <1>1, <1>3, <1>4 DEF SInv, Bounds, Sorted, SearchSound

(* The new selector goes between those before it and those after.          *)
LEMMA MakeStep ==
  ASSUME SInv, Make
  PROVE  SInv'
<1>1. PICK s \in Selector :
        /\ s.name = wanted
        /\ table' = Inserted(s) /\ interned' = interned \cup {s}
        /\ used' = used + 1 /\ made' = made + 1 /\ wanted' = -1
        /\ UNCHANGED <<low, high>>
  <2>1. [name |-> wanted, id |-> made] \in Selector
    BY DEF Make, Searched, SInv, SelectorTypeOK, Selector
  <2> QED BY <2>1 DEF Make, Answered
<1>2. /\ low \in Nat /\ used \in Nat /\ low <= used /\ high \in Nat
      /\ Len(table) \in Nat \ {0} /\ used <= Len(table)
      /\ Space \in Nat \ {0} /\ used + 1 <= Space
  <2>1. low >= high /\ wanted # -1
    BY DEF Make, Searched
  <2>2. /\ low \in Nat /\ used \in Nat /\ low <= used /\ high \in Nat
        /\ Len(table) \in Nat \ {0} /\ used <= Len(table)
    BY <2>1 DEF SInv, Bounds, SelectorTypeOK, SearchSound
  <2> QED BY <2>2 DEF Space
<1>3. PICK room \in Nat \ {0} : room = Space
  BY <1>2
<1>4. table' = [i \in 1 .. room |->
                  IF i <= low THEN table[i]
                  ELSE IF i = low + 1 THEN s
                  ELSE IF i <= used + 1 THEN table[i - 1]
                  ELSE Vacant]
  BY <1>1, <1>3 DEF Inserted
<1>5. DOMAIN table' = 1 .. room /\ Len(table') = room /\ used + 1 <= room
  BY <1>2, <1>3, <1>4
<1>6. /\ \A i \in 1 .. low : table'[i] = table[i]
      /\ table'[low + 1] = s
      /\ \A i \in low + 2 .. used + 1 : table'[i] = table[i - 1]
  <2>1. \A i \in 1 .. low : i \in 1 .. room /\ i <= low
    BY <1>2, <1>5
  <2>2. low + 1 \in 1 .. room /\ ~(low + 1 <= low)
    BY <1>2, <1>5
  <2>3. \A i \in low + 2 .. used + 1 :
           i \in 1 .. room /\ ~(i <= low) /\ i # low + 1 /\ i <= used + 1
    BY <1>2, <1>5
  <2> QED BY ONLY <1>4, <2>1, <2>2, <2>3
<1>7. \A i \in 1 .. used + 1 :
        \/ i \in 1 .. low \/ i = low + 1 \/ (i \in low + 2 .. used + 1 /\ i - 1 \in low + 1 .. used)
  BY <1>2
<1>8. 1 .. low \subseteq 1 .. used /\ low + 1 .. used \subseteq 1 .. used
  BY <1>2
<1>9. SelectorTypeOK'
  <2>1. \A i \in 1 .. used + 1 : table'[i] \in Selector
    BY <1>6, <1>7, <1>8 DEF SInv, SelectorTypeOK
  <2>2. used + 1 \in 0 .. room /\ made' \in Nat /\ interned' \subseteq Selector
    BY <1>1, <1>2, <1>5 DEF SInv, SelectorTypeOK
  <2> QED BY <1>1, <1>5, <2>1, <2>2 DEF SelectorTypeOK
<1>10. /\ \A i \in 1 .. low : table[i].name < wanted
       /\ \A i \in low + 1 .. used : table[i].name > wanted
       /\ \A i \in 1 .. used : table[i].name \in Nat
       /\ wanted \in Nat
  <2>1. wanted # -1 /\ low >= high /\ ~(low < used /\ table[low + 1].name = wanted)
    BY DEF Make, Searched, Present, At0
  <2>2. \A i \in 1 .. used : table[i].name \in Nat
    BY NameAssumption DEF SInv, SelectorTypeOK, Selector
  <2>3. wanted \in Nat
    BY <2>1, NameAssumption DEF SInv, SelectorTypeOK
  <2>4. /\ \A i \in 1 .. low : table[i].name < wanted
        /\ \A i \in high + 1 .. used : table[i].name >= wanted
    BY <2>1 DEF SInv, SearchSound
  <2>5. \A i \in low + 1 .. used : table[i].name > wanted
    <3> SUFFICES ASSUME NEW i \in low + 1 .. used PROVE table[i].name > wanted
      OBVIOUS
    <3>1. low + 1 \in high + 1 .. used /\ low < used /\ low + 1 \in 1 .. used /\ i \in 1 .. used
      BY <1>2, <2>1
    <3>2. table[low + 1].name > wanted
      <4>1. table[low + 1].name >= wanted /\ table[low + 1].name # wanted
        BY <2>1, <2>4, <3>1
      <4> QED BY <2>2, <2>3, <3>1, <4>1
    <3>3. i = low + 1 \/ table[low + 1].name < table[i].name
      <4>1. i = low + 1 \/ low + 1 < i
        BY <1>2
      <4> QED BY <3>1, <4>1 DEF SInv, Sorted
    <3> QED BY <2>2, <2>3, <3>1, <3>2, <3>3
  <2> QED BY <2>2, <2>3, <2>4, <2>5
<1>11. Sorted'
  <2> SUFFICES ASSUME NEW i \in 1 .. used + 1, NEW j \in 1 .. used + 1, i < j
               PROVE  table'[i].name < table'[j].name
    BY <1>1 DEF Sorted
  <2>1. CASE i \in 1 .. low /\ j \in 1 .. low
    BY <1>6, <1>8, <2>1 DEF SInv, Sorted
  <2>2. CASE i \in 1 .. low /\ j = low + 1
    BY <1>1, <1>6, <1>10, <2>2
  <2>3. CASE i \in 1 .. low /\ j \in low + 2 .. used + 1
    <3>1. j - 1 \in 1 .. used /\ i \in 1 .. used /\ i < j - 1
      BY <1>2, <2>3
    <3>2. table[i].name < table[j - 1].name
      BY <3>1 DEF SInv, Sorted
    <3> QED BY <1>6, <2>3, <3>2
  <2>4. CASE i = low + 1 /\ j \in low + 2 .. used + 1
    <3>1. j - 1 \in low + 1 .. used /\ j - 1 \in 1 .. used
      BY <1>2, <2>4
    <3> QED BY <1>1, <1>6, <1>10, <2>4, <3>1
  <2>5. CASE i \in low + 2 .. used + 1 /\ j \in low + 2 .. used + 1
    <3>1. i - 1 \in 1 .. used /\ j - 1 \in 1 .. used /\ i - 1 < j - 1
      BY <1>2, <2>5
    <3>2. table[i - 1].name < table[j - 1].name
      BY <3>1 DEF SInv, Sorted
    <3> QED BY <1>6, <2>5, <3>2
  <2>6. \/ i \in 1 .. low /\ j \in 1 .. low
        \/ i \in 1 .. low /\ j = low + 1
        \/ i \in 1 .. low /\ j \in low + 2 .. used + 1
        \/ i = low + 1 /\ j \in low + 2 .. used + 1
        \/ i \in low + 2 .. used + 1 /\ j \in low + 2 .. used + 1
    BY <1>2
  <2> QED BY <2>1, <2>2, <2>3, <2>4, <2>5, <2>6
<1>12. InternedIn'
  <2> SUFFICES ASSUME NEW t \in interned' PROVE \E i \in 1 .. used + 1 : t = table'[i]
    BY <1>1 DEF InternedIn
  <2>1. CASE t = s
    BY <1>2, <1>6, <2>1
  <2>2. CASE t \in interned
    <3>1. PICK i \in 1 .. used : t = table[i]
      BY <2>2 DEF SInv, InternedIn
    <3>2. CASE i \in 1 .. low
      BY <1>2, <1>6, <3>1, <3>2
    <3>3. CASE i \in low + 1 .. used
      <4>1. i + 1 \in low + 2 .. used + 1 /\ i + 1 \in 1 .. used + 1 /\ (i + 1) - 1 = i
        BY <1>2, <3>3
      <4> QED BY <1>6, <3>1, <4>1
    <3> QED BY <1>2, <3>2, <3>3
  <2> QED BY <1>1, <2>1, <2>2
<1>13. Bounds' /\ SearchSound'
  BY <1>1, <1>2, <1>5 DEF Bounds, SearchSound
<1> QED BY <1>9, <1>11, <1>12, <1>13 DEF SInv

LEMMA SelectorInvariance == SelectorSpec => []SInv
<1>1. SInv /\ [SelectorNext]_selectorVars => SInv'
  <2> SUFFICES ASSUME SInv, [SelectorNext]_selectorVars PROVE SInv'
    OBVIOUS
  <2>1. CASE UNCHANGED selectorVars
    BY <2>1 DEF selectorVars, SInv, SelectorTypeOK, Bounds, Sorted, SearchSound, InternedIn
  <2>2. CASE SelectorNext
    <3>1. ASSUME NEW n \in Name, Intern(n) PROVE SInv'
      BY <3>1, InternStep
    <3>2. CASE Halve
      BY <3>2, HalveStep
    <3>3. CASE Find
      BY <3>3, FindStep
    <3>4. CASE Make
      BY <3>4, MakeStep
    <3> QED BY <2>2, <3>1, <3>2, <3>3, <3>4 DEF SelectorNext
  <2> QED BY <2>1, <2>2
<1> QED BY <1>1, SelectorInitially, PTL DEF SelectorSpec

(* The table never overflows its vector, and holds selectors only: the     *)
(* binary search of _selector___intern_ reads no element nobody wrote.     *)
THEOREM TableTyped == SelectorSpec => []SelectorTypeOK
<1>1. SInv => SelectorTypeOK
  BY DEF SInv
<1> QED BY <1>1, SelectorInvariance, PTL

(***************************************************************************)
(* A name is interned once: whatever was interned between, and however     *)
(* often the table grew, _selector___intern_ answers the same selector.    *)
(***************************************************************************)
THEOREM NamesUnique == SelectorSpec => []OneSelector
<1>1. SInv => OneSelector
  <2> SUFFICES ASSUME SInv, NEW s \in interned, NEW t \in interned, s.name = t.name
               PROVE  s = t
    BY DEF OneSelector
  <2>1. PICK i \in 1 .. used, j \in 1 .. used : s = table[i] /\ t = table[j]
    BY DEF SInv, InternedIn
  <2>2. table[i].name \in Nat /\ table[j].name \in Nat /\ i \in Int /\ j \in Int
    <3>1. table[i] \in Selector /\ table[j] \in Selector
      BY DEF SInv, SelectorTypeOK
    <3>2. table[i].name \in Nat /\ table[j].name \in Nat
      BY <3>1, NameAssumption DEF Selector
    <3>3. used \in Nat
      BY DEF SInv, SelectorTypeOK
    <3> QED BY <3>2, <3>3
  <2>3. ~(i < j) /\ ~(j < i)
    <3>1. i < j => table[i].name < table[j].name
      BY DEF SInv, Sorted
    <3>2. j < i => table[j].name < table[i].name
      BY DEF SInv, Sorted
    <3> QED BY <2>1, <2>2, <3>1, <3>2
  <2> QED BY <2>1, <2>2, <2>3
<1> QED BY <1>1, SelectorInvariance, PTL

-----------------------------------------------------------------------------

Slot == [key : SlotKey \cup {NilSlot}, value : SlotValue \cup {NilSlot}]

(* The first f slots of s have keys of their own, and the others are nil.  *)
Keyed(s, f) ==
    /\ \A i \in 1 .. f : s[i].key \in SlotKey
    /\ \A i, j \in 1 .. f : s[i].key = s[j].key => i = j
    /\ \A i \in f + 1 .. Len(s) : s[i] = SlotOf(NilSlot, NilSlot)

(* The invariant: what the code keeps whatever it is sent, and what it     *)
(* keeps as long as nil is no key.                                         *)
Arrays(s, f) == s \in Seq(Slot) /\ Len(s) >= 2 /\ f \in 0 .. Len(s)
SlotInv ==
    /\ Arrays(slots, filled) /\ nilSent \in BOOLEAN
    /\ ~nilSent => Keyed(slots, filled)

(* Held, of any slots.                                                     *)
KeysOf(s, f) == {s[i].key : i \in 1 .. f}
HeldOf(s, f) == [k \in KeysOf(s, f) |-> s[CHOOSE i \in 1 .. f : s[i].key = k].value]

LEMMA HeldNow == Held = HeldOf(slots, filled) /\ DOMAIN Held = KeysOf(slots, filled)
BY DEF Held, HeldOf, Slotted, KeysOf

(* A function that answers the value of each slot for its key is the one   *)
(* the slots stand for.                                                    *)
LEMMA HeldIs ==
  ASSUME NEW s, NEW f \in Nat, Keyed(s, f),
         NEW g, g = [k \in KeysOf(s, f) |-> g[k]],
         \A i \in 1 .. f : g[s[i].key] = s[i].value
  PROVE  HeldOf(s, f) = g
<1>1. ASSUME NEW k \in KeysOf(s, f)
      PROVE  s[CHOOSE i \in 1 .. f : s[i].key = k].value = g[k]
  <2> DEFINE i == CHOOSE i \in 1 .. f : s[i].key = k
  <2>1. \E j \in 1 .. f : s[j].key = k
    BY <1>1 DEF KeysOf
  <2>2. i \in 1 .. f /\ s[i].key = k
    BY <2>1
  <2> HIDE DEF i
  <2>3. s[i].value = g[k]
    BY <2>2
  <2> QED
    BY <2>3 DEF i
<1> QED
  BY <1>1, Zenon DEF HeldOf

LEMMA HeldHere ==
  ASSUME NEW s, NEW f \in Nat, Keyed(s, f), NEW i \in 1 .. f
  PROVE  s[i].key \in KeysOf(s, f) /\ HeldOf(s, f)[s[i].key] = s[i].value
<1> DEFINE k == s[i].key
           j == CHOOSE j \in 1 .. f : s[j].key = k
<1>1. k \in KeysOf(s, f)
  BY DEF KeysOf
<1>2. j \in 1 .. f /\ s[j].key = k
  OBVIOUS
<1>3. j = i
  BY <1>2 DEF Keyed
<1> QED
  BY <1>1, <1>3 DEF HeldOf
LEMMA Put ==
  ASSUME NEW k \in SlotKey \cup {NilSlot}, NEW v \in SlotValue \cup {NilSlot}
  PROVE  SlotOf(k, v) \in Slot /\ SlotOf(k, v).key = k /\ SlotOf(k, v).value = v
BY DEF SlotOf, Slot

-----------------------------------------------------------------------------
(* Moving a slot forward                                                   *)

Front(i) == IF i = 1 THEN 1 ELSE i - 1

LEMMA ForwardSlots ==
  ASSUME Arrays(slots, filled), NEW i \in 1 .. Len(slots), NEW v \in SlotValue \cup {NilSlot}
  PROVE  /\ Forward(i, v) \in Seq(Slot) /\ Len(Forward(i, v)) = Len(slots)
         /\ \A j \in 1 .. Len(slots) :
               Forward(i, v)[j] = IF j = Front(i) THEN SlotOf(slots[i].key, v)
                                  ELSE IF j = i THEN slots[Front(i)] ELSE slots[j]
<1> DEFINE new == SlotOf(slots[i].key, v)
           half == [slots EXCEPT ![i] = slots[Front(i)]]
           whole == [half EXCEPT ![Front(i)] = new]
<1>1. slots \in Seq(Slot) /\ Len(slots) \in Nat
  BY DEF Arrays
<1>2. Front(i) \in 1 .. Len(slots)
  BY <1>1 DEF Front
<1>3. slots[i] \in Slot /\ slots[Front(i)] \in Slot
  BY <1>1, <1>2, ElementOfSeq
<1>4. new \in Slot
  BY <1>3, Put DEF Slot
<1>5. half \in Seq(Slot) /\ Len(half) = Len(slots)
      /\ \A j \in 1 .. Len(slots) : half[j] = IF j = i THEN slots[Front(i)] ELSE slots[j]
  BY <1>1, <1>3, ExceptSeq
<1>6. whole \in Seq(Slot) /\ Len(whole) = Len(slots)
      /\ \A j \in 1 .. Len(slots) : whole[j] = IF j = Front(i) THEN new ELSE half[j]
  BY <1>2, <1>4, <1>5, ExceptSeq
<1>7. Forward(i, v) = whole
  <2>1. CASE i = 1
    <3>1. [slots[1] EXCEPT !.value = v] = new
      BY <1>3, <2>1 DEF Slot, SlotOf
    <3>2. slots \in [1 .. Len(slots) -> Slot] /\ half \in [1 .. Len(slots) -> Slot]
      BY <1>1, <1>5, LenProperties
    <3>3. Forward(i, v) = [slots EXCEPT ![1] = new]
      BY <3>1, <3>2, <2>1 DEF Forward
    <3>4. half = slots
      BY <3>2, <2>1 DEF Front
    <3> QED
      BY <3>3, <3>4, <2>1 DEF Front
  <2>2. CASE i # 1
    BY <2>2 DEF Forward, Front
  <2> QED
    BY <2>1, <2>2
<1> QED
  BY <1>5, <1>6, <1>7

LEMMA ForwardHeld ==
  ASSUME Arrays(slots, filled), Keyed(slots, filled),
         NEW i \in 1 .. filled, NEW v \in SlotValue \cup {NilSlot}
  PROVE  /\ Keyed(Forward(i, v), filled)
         /\ HeldOf(Forward(i, v), filled) =
               [k \in KeysOf(slots, filled) |->
                   IF k = slots[i].key THEN v ELSE HeldOf(slots, filled)[k]]
<1> DEFINE t == Forward(i, v)
           g == [k \in KeysOf(slots, filled) |->
                   IF k = slots[i].key THEN v ELSE HeldOf(slots, filled)[k]]
           was(j) == IF j = Front(i) THEN i ELSE IF j = i THEN Front(i) ELSE j
<1>1. Len(slots) \in Nat /\ filled \in Nat /\ filled <= Len(slots) /\ i \in 1 .. Len(slots)
  BY DEF Arrays
<1>2. Front(i) \in 1 .. filled
  BY <1>1 DEF Front
<1>3. Len(t) = Len(slots)
      /\ \A j \in 1 .. Len(slots) : t[j] = IF j = Front(i) THEN SlotOf(slots[i].key, v)
                                           ELSE IF j = i THEN slots[Front(i)] ELSE slots[j]
  BY <1>1, ForwardSlots
<1>4. \A k : SlotOf(k, v).key = k /\ SlotOf(k, v).value = v
  BY DEF SlotOf
<1>5. \A j \in 1 .. filled : was(j) \in 1 .. filled /\ was(was(j)) = j
  BY <1>2
<1>6. \A j \in 1 .. filled : t[j].key = slots[was(j)].key
  BY <1>1, <1>3, <1>4
<1> HIDE DEF t
<1>7. \A j \in 1 .. filled : was(j) # i => t[j].value = slots[was(j)].value
  BY <1>1, <1>3, <1>2
<1>8. \A j \in 1 .. filled : was(j) = i => t[j].value = v
  BY <1>1, <1>2, <1>3, <1>4
<1> HIDE DEF was
<1>9. Keyed(t, filled)
  <2>1. \A j \in 1 .. filled : t[j].key \in SlotKey
    BY <1>5, <1>6 DEF Keyed
  <2>2. \A j, m \in 1 .. filled : t[j].key = t[m].key => j = m
    <3> SUFFICES ASSUME NEW j \in 1 .. filled, NEW m \in 1 .. filled, t[j].key = t[m].key
                 PROVE  j = m
      OBVIOUS
    <3>1. was(j) = was(m)
      BY <1>5, <1>6 DEF Keyed
    <3> QED
      BY <3>1, <1>5
  <2>3. \A j \in filled + 1 .. Len(t) : t[j] = SlotOf(NilSlot, NilSlot)
    BY <1>1, <1>2, <1>3 DEF Keyed
  <2> QED
    BY <2>1, <2>2, <2>3 DEF Keyed
<1>10. KeysOf(t, filled) = KeysOf(slots, filled)
  <2>1. \A j \in 1 .. filled : t[j].key \in KeysOf(slots, filled)
    BY <1>5, <1>6 DEF KeysOf
  <2>2. \A j \in 1 .. filled : slots[j].key = t[was(j)].key
    BY <1>5, <1>6
  <2>3. \A j \in 1 .. filled : slots[j].key \in KeysOf(t, filled)
    BY <1>5, <2>2 DEF KeysOf
  <2> QED
    BY <2>1, <2>3 DEF KeysOf
<1>11. \A j \in 1 .. filled : g[t[j].key] = t[j].value
  <2> SUFFICES ASSUME NEW j \in 1 .. filled
               PROVE  g[t[j].key] = t[j].value
    OBVIOUS
  <2>1. /\ was(j) \in 1 .. filled /\ t[j].key = slots[was(j)].key
        /\ slots[was(j)].key \in KeysOf(slots, filled)
        /\ HeldOf(slots, filled)[slots[was(j)].key] = slots[was(j)].value
    BY <1>1, <1>5, <1>6, HeldHere
  <2>2. CASE was(j) = i
    BY <2>1, <2>2, <1>8
  <2>3. CASE was(j) # i
    <3>1. slots[was(j)].key # slots[i].key
      BY <2>1, <2>3 DEF Keyed
    <3> QED
      BY <3>1, <2>1, <2>3, <1>7
  <2> QED
    BY <2>2, <2>3
<1>12. g = [k \in KeysOf(t, filled) |-> g[k]]
  BY <1>10
<1> HIDE DEF g
<1>13. HeldOf(t, filled) = g
  BY <1>1, <1>9, <1>11, <1>12, HeldIs
<1> QED
  BY <1>9, <1>13 DEF t, g
-----------------------------------------------------------------------------
(* A new slot after the others                                             *)

Added(k, v) == [Extended EXCEPT ![filled + 1] = SlotOf(k, v)]

LEMMA AddedSlots ==
  ASSUME Arrays(slots, filled), NEW k \in SlotKey \cup {NilSlot}, NEW v \in SlotValue
  PROVE  /\ Arrays(Added(k, v), filled + 1)
         /\ \A j \in 1 .. filled : Added(k, v)[j] = slots[j]
         /\ Added(k, v)[filled + 1] = SlotOf(k, v)
         /\ \A j \in filled + 2 .. Len(Added(k, v)) :
               \/ Added(k, v)[j] = SlotOf(NilSlot, NilSlot)
               \/ j <= Len(slots) /\ Added(k, v)[j] = slots[j]
<1> DEFINE n == Len(slots)
<1>1. slots \in Seq(Slot) /\ n \in Nat /\ n >= 2 /\ filled \in 0 .. n
  BY DEF Arrays
<1>2. Unused(n) \in Seq(Slot) /\ Len(Unused(n)) = n
      /\ \A j \in 1 .. n : Unused(n)[j] = SlotOf(NilSlot, NilSlot)
  <2>1. SlotOf(NilSlot, NilSlot) \in Slot
    BY Put
  <2>2. Unused(n) \in [1 .. n -> Slot]
    BY <2>1 DEF Unused
  <2>3. Unused(n) \in Seq(Slot)
    BY <1>1, <2>2, IsASeq
  <2>4. DOMAIN Unused(n) = 1 .. n
    BY DEF Unused
  <2>5. Len(Unused(n)) = n
    BY <1>1, <2>3, <2>4, LenProperties
  <2> QED
    BY <2>3, <2>5 DEF Unused
<1>3. /\ Extended \in Seq(Slot) /\ Len(Extended) \in Nat
      /\ Len(Extended) >= n /\ Len(Extended) > filled
      /\ \A j \in 1 .. n : Extended[j] = slots[j]
      /\ \A j \in n + 1 .. Len(Extended) : Extended[j] = SlotOf(NilSlot, NilSlot)
  <2>1. CASE filled = n
    <3> DEFINE w == slots \o Unused(n)
    <3>1. w \in Seq(Slot) /\ Len(w) = n + n
          /\ \A j \in 1 .. n + n : w[j] = IF j <= n THEN slots[j] ELSE Unused(n)[j - n]
      BY <1>1, <1>2, ConcatProperties
    <3>2. \A j \in n + 1 .. n + n : j - n \in 1 .. n
      BY <1>1
    <3>3. Extended = w
      BY <2>1 DEF Extended
    <3> HIDE DEF w
    <3>4. \A j \in 1 .. n : w[j] = slots[j]
      BY <1>1, <3>1
    <3>5. \A j \in n + 1 .. n + n : w[j] = SlotOf(NilSlot, NilSlot)
      BY <1>1, <1>2, <3>1, <3>2
    <3>6. n + n \in Nat /\ n + n >= n /\ n + n > filled
      BY <1>1, <2>1
    <3> QED
      BY <3>1, <3>3, <3>4, <3>5, <3>6
  <2>2. CASE filled # n
    BY <1>1, <2>2 DEF Extended
  <2> QED
    BY <2>1, <2>2
<1> DEFINE w == Extended
           t == Added(k, v)
<1>4. t = [w EXCEPT ![filled + 1] = SlotOf(k, v)] /\ SlotOf(k, v) \in Slot
  BY Put DEF Added
<1>5. filled + 1 \in 1 .. Len(w)
  BY <1>1, <1>3
<1> HIDE DEF w, t
<1>6. t \in Seq(Slot) /\ Len(t) = Len(w)
      /\ \A j \in 1 .. Len(w) : t[j] = IF j = filled + 1 THEN SlotOf(k, v) ELSE w[j]
  BY <1>3, <1>4, <1>5, ExceptSeq DEF w
<1>7. Arrays(t, filled + 1)
  BY <1>1, <1>3, <1>5, <1>6 DEF Arrays, w
<1>8. \A j \in 1 .. filled : t[j] = slots[j]
  BY <1>1, <1>3, <1>6 DEF w
<1>9. t[filled + 1] = SlotOf(k, v)
  BY <1>5, <1>6
<1>10. ASSUME NEW j \in filled + 2 .. Len(t)
       PROVE  t[j] = SlotOf(NilSlot, NilSlot) \/ (j <= n /\ t[j] = slots[j])
  <2>1. j \in 1 .. Len(w) /\ j # filled + 1 /\ (j \in 1 .. n \/ j \in n + 1 .. Len(w))
    BY <1>1, <1>3, <1>6 DEF w
  <2>2. t[j] = w[j]
    BY <2>1, <1>6
  <2>3. CASE j \in 1 .. n
    BY <2>2, <2>3, <1>1, <1>3 DEF w
  <2>4. CASE j \in n + 1 .. Len(w)
    BY <2>2, <2>4, <1>3 DEF w
  <2> QED
    BY <2>1, <2>3, <2>4
<1> QED
  BY <1>7, <1>8, <1>9, <1>10 DEF t

LEMMA AddedHeld ==
  ASSUME Arrays(slots, filled), Keyed(slots, filled), NEW k \in SlotKey, NEW v \in SlotValue,
         k \notin KeysOf(slots, filled)
  PROVE  /\ Keyed(Added(k, v), filled + 1)
         /\ HeldOf(Added(k, v), filled + 1) =
               [j \in KeysOf(slots, filled) \cup {k} |->
                   IF j = k THEN v ELSE HeldOf(slots, filled)[j]]
<1> DEFINE t == Added(k, v)
           g == [j \in KeysOf(slots, filled) \cup {k} |->
                   IF j = k THEN v ELSE HeldOf(slots, filled)[j]]
<1>1. filled \in Nat /\ Len(slots) \in Nat
  BY DEF Arrays
<1>2. /\ Len(t) \in Nat
      /\ \A j \in 1 .. filled : t[j] = slots[j]
      /\ t[filled + 1].key = k /\ t[filled + 1].value = v
      /\ \A j \in filled + 2 .. Len(t) :
            t[j] = SlotOf(NilSlot, NilSlot) \/ (j <= Len(slots) /\ t[j] = slots[j])
  <2>1. SlotOf(k, v).key = k /\ SlotOf(k, v).value = v
    BY DEF SlotOf
  <2>2. Arrays(t, filled + 1)
    BY AddedSlots
  <2>3. Len(t) \in Nat
    BY <2>2 DEF Arrays
  <2> QED
    BY <2>1, <2>3, AddedSlots
<1> HIDE DEF t
<1>3. \A j \in 1 .. filled : slots[j].key # k /\ slots[j].key \in SlotKey
  BY DEF KeysOf, Keyed
<1>4. \A j \in 1 .. filled + 1 : j \in 1 .. filled \/ j = filled + 1
  BY <1>1
<1>5. Keyed(t, filled + 1)
  <2>1. \A j \in 1 .. filled + 1 : t[j].key \in SlotKey
    BY <1>2, <1>3, <1>4
  <2>2. \A i, j \in 1 .. filled + 1 : t[i].key = t[j].key => i = j
    BY <1>2, <1>3, <1>4 DEF Keyed
  <2>3. \A j \in filled + 2 .. Len(t) : t[j] = SlotOf(NilSlot, NilSlot)
    BY <1>1, <1>2 DEF Keyed
  <2> QED
    BY <1>1, <2>1, <2>2, <2>3 DEF Keyed
<1>6. KeysOf(t, filled + 1) = KeysOf(slots, filled) \cup {k}
  <2>1. \A j \in 1 .. filled + 1 : t[j].key \in KeysOf(slots, filled) \cup {k}
    BY <1>2, <1>4 DEF KeysOf
  <2>2. \A j \in 1 .. filled : slots[j].key = t[j].key /\ j \in 1 .. filled + 1
    BY <1>1, <1>2
  <2>3. k = t[filled + 1].key /\ filled + 1 \in 1 .. filled + 1
    BY <1>1, <1>2
  <2> QED
    BY <2>1, <2>2, <2>3 DEF KeysOf
<1>7. \A j \in 1 .. filled + 1 : g[t[j].key] = t[j].value
  <2> SUFFICES ASSUME NEW j \in 1 .. filled + 1
               PROVE  g[t[j].key] = t[j].value
    OBVIOUS
  <2>1. CASE j = filled + 1
    BY <1>2, <2>1
  <2>2. CASE j \in 1 .. filled
    <3>1. slots[j].key \in KeysOf(slots, filled)
          /\ HeldOf(slots, filled)[slots[j].key] = slots[j].value
      BY <1>1, <2>2, HeldHere
    <3> QED
      BY <3>1, <2>2, <1>2, <1>3
  <2> QED
    BY <1>4, <2>1, <2>2
<1>8. g = [j \in KeysOf(t, filled + 1) |-> g[j]]
  BY <1>6
<1>9. filled + 1 \in Nat
  BY <1>1
<1> HIDE DEF g
<1>10. HeldOf(t, filled + 1) = g
  BY <1>5, <1>7, <1>8, <1>9, HeldIs
<1> QED
  BY <1>5, <1>10 DEF t, g

-----------------------------------------------------------------------------
(* Closing the place of a slot                                             *)

LEMMA ClosedSlots ==
  ASSUME Arrays(slots, filled), NEW i \in 1 .. filled
  PROVE  Arrays(Closed(i), filled - 1) /\ Len(Closed(i)) = Len(slots)
<1>1. slots \in Seq(Slot) /\ Len(slots) \in Nat /\ Len(slots) >= 2 /\ filled \in 1 .. Len(slots)
  BY DEF Arrays
<1>2. slots \in [1 .. Len(slots) -> Slot] /\ DOMAIN slots = 1 .. Len(slots)
  BY <1>1, LenProperties
<1>3. SlotOf(NilSlot, NilSlot) \in Slot
  BY Put
<1>4. \A j \in i .. filled - 1 : j + 1 \in 1 .. Len(slots)
  BY <1>1
<1>5. Closed(i) \in [1 .. Len(slots) -> Slot]
  BY <1>2, <1>3, <1>4 DEF Closed
<1>6. Closed(i) \in Seq(Slot)
  BY <1>1, <1>5, IsASeq
<1>7. DOMAIN Closed(i) = 1 .. Len(slots)
  BY <1>2 DEF Closed
<1>8. Len(Closed(i)) = Len(slots)
  BY <1>1, <1>6, <1>7, LenProperties
<1> QED
  BY <1>1, <1>6, <1>8 DEF Arrays

LEMMA ClosedHeld ==
  ASSUME Arrays(slots, filled), Keyed(slots, filled), NEW i \in 1 .. filled
  PROVE  /\ Keyed(Closed(i), filled - 1)
         /\ HeldOf(Closed(i), filled - 1) =
               [k \in KeysOf(slots, filled) \ {slots[i].key} |-> HeldOf(slots, filled)[k]]
<1> DEFINE t == Closed(i)
           g == [k \in KeysOf(slots, filled) \ {slots[i].key} |-> HeldOf(slots, filled)[k]]
           was(j) == IF j < i THEN j ELSE j + 1
<1>1. filled \in Nat /\ filled >= 1 /\ Len(slots) \in Nat /\ filled <= Len(slots)
  BY DEF Arrays
<1>2. \A j \in 1 .. Len(slots) : t[j] = IF j \in i .. filled - 1 THEN slots[j + 1]
                                          ELSE IF j = filled THEN SlotOf(NilSlot, NilSlot) ELSE slots[j]
  <2>1. DOMAIN slots = 1 .. Len(slots)
    BY LenProperties DEF Arrays
  <2> QED
    BY <2>1 DEF Closed
<1>3. Len(t) = Len(slots)
  BY ClosedSlots
<1> HIDE DEF t
<1>4. \A j \in 1 .. filled - 1 : t[j] = slots[was(j)] /\ was(j) \in 1 .. filled /\ was(j) # i
  BY <1>1, <1>2
<1>5. \A j \in filled .. Len(slots) : t[j] = SlotOf(NilSlot, NilSlot)
  BY <1>1, <1>2 DEF Keyed
<1>6. \A j, m \in 1 .. filled - 1 : was(j) = was(m) => j = m
  BY <1>1
<1>7. \A m \in 1 .. filled : m # i => \E j \in 1 .. filled - 1 : was(j) = m
  <2> SUFFICES ASSUME NEW m \in 1 .. filled, m # i
               PROVE  \E j \in 1 .. filled - 1 : was(j) = m
    OBVIOUS
  <2>1. CASE m < i
    <3>1. m \in 1 .. filled - 1 /\ was(m) = m
      BY <1>1, <2>1
    <3> QED
      BY <3>1
  <2>2. CASE m > i
    <3>1. m - 1 \in 1 .. filled - 1 /\ was(m - 1) = m
      BY <1>1, <2>2
    <3> QED
      BY <3>1
  <2> QED
    BY <1>1, <2>1, <2>2
<1> HIDE DEF was
<1>8. Keyed(t, filled - 1)
  <2>1. \A j \in 1 .. filled - 1 : t[j].key \in SlotKey
    BY <1>4 DEF Keyed
  <2>2. \A j, m \in 1 .. filled - 1 : t[j].key = t[m].key => j = m
    BY <1>4, <1>6 DEF Keyed
  <2>3. \A j \in filled - 1 + 1 .. Len(t) : t[j] = SlotOf(NilSlot, NilSlot)
    BY <1>1, <1>3, <1>5
  <2> QED
    BY <2>1, <2>2, <2>3 DEF Keyed
<1>9. KeysOf(t, filled - 1) = KeysOf(slots, filled) \ {slots[i].key}
  <2>1. \A j \in 1 .. filled - 1 : t[j].key \in KeysOf(slots, filled) \ {slots[i].key}
    BY <1>4 DEF KeysOf, Keyed
  <2>2. \A m \in 1 .. filled : m # i => \E j \in 1 .. filled - 1 : t[j].key = slots[m].key
    BY <1>4, <1>7
  <2>3. \A k \in KeysOf(slots, filled) \ {slots[i].key} :
            \E m \in 1 .. filled : m # i /\ slots[m].key = k
    BY DEF KeysOf
  <2>4. \A k \in KeysOf(slots, filled) \ {slots[i].key} : k \in KeysOf(t, filled - 1)
    BY <2>2, <2>3 DEF KeysOf
  <2> QED
    BY <2>1, <2>4 DEF KeysOf
<1>10. \A j \in 1 .. filled - 1 : g[t[j].key] = t[j].value
  <2> SUFFICES ASSUME NEW j \in 1 .. filled - 1
               PROVE  g[t[j].key] = t[j].value
    OBVIOUS
  <2>1. slots[was(j)].key \in KeysOf(slots, filled)
        /\ HeldOf(slots, filled)[slots[was(j)].key] = slots[was(j)].value
    BY <1>1, <1>4, HeldHere
  <2>2. slots[was(j)].key # slots[i].key
    BY <1>4 DEF Keyed
  <2> QED
    BY <2>1, <2>2, <1>4
<1>11. g = [k \in KeysOf(t, filled - 1) |-> g[k]]
  BY <1>9
<1>12. filled - 1 \in Nat
  BY <1>1
<1> HIDE DEF g
<1>13. HeldOf(t, filled - 1) = g
  BY <1>8, <1>10, <1>11, <1>12, HeldIs
<1> QED
  BY <1>8, <1>13 DEF t, g
-----------------------------------------------------------------------------
(* The invariant                                                           *)

(* A search finds a place of the arrays; and the slot of the key, if it    *)
(* looks for one that is not nil, as the places that are not filled hold   *)
(* nil.                                                                    *)
LEMMA FoundPlace ==
  ASSUME Arrays(slots, filled), NEW k, NEW i \in FoundAt(k)
  PROVE  i \in 1 .. Len(slots) /\ slots[i].key = k
BY DEF Arrays, FoundAt, SlotPlaces

LEMMA FoundSlot ==
  ASSUME Arrays(slots, filled), Keyed(slots, filled), NEW k \in SlotKey
  PROVE  /\ \A i \in FoundAt(k) : i \in 1 .. filled /\ slots[i].key = k
         /\ FoundAt(k) = {} => k \notin KeysOf(slots, filled)
<1>1. filled \in Nat /\ Len(slots) \in Nat /\ filled <= Len(slots)
  BY DEF Arrays
<1>2. \A i \in filled + 1 .. Len(slots) : slots[i].key # k
  <2>1. SlotOf(NilSlot, NilSlot).key # k
    BY SlotAssumption DEF SlotOf
  <2> QED
    BY <2>1 DEF Keyed
<1>3. \A i \in FoundAt(k) : i \in 1 .. filled /\ slots[i].key = k
  BY <1>1, <1>2, FoundPlace
<1>4. ASSUME NEW i \in 1 .. filled, slots[i].key = k
      PROVE  i \in FoundAt(k)
  <2>1. i \in SlotPlaces
    BY <1>1 DEF SlotPlaces
  <2>2. \A j \in 1 .. i - 1 : j \in 1 .. filled /\ j # i
    BY <1>1
  <2>3. \A j \in 1 .. i - 1 : slots[j].key # k
    BY <2>2, <1>4 DEF Keyed
  <2> QED
    BY <2>1, <2>3, <1>4 DEF FoundAt
<1> QED
  BY <1>3, <1>4 DEF KeysOf

LEMMA InitKept == SlotInit => SlotInv
<1> SUFFICES ASSUME SlotInit PROVE SlotInv
  OBVIOUS
<1>1. PICK n \in {2, 4} : slots = Unused(n)
  BY DEF SlotInit
<1>2. SlotOf(NilSlot, NilSlot) \in Slot
  BY Put
<1>3. Unused(n) \in [1 .. n -> Slot] /\ n \in Nat /\ n >= 2
  BY <1>2 DEF Unused
<1>4. Unused(n) \in Seq(Slot)
  BY <1>3, IsASeq
<1>5. DOMAIN Unused(n) = 1 .. n
  BY DEF Unused
<1>6. Len(Unused(n)) = n
  BY <1>3, <1>4, <1>5, LenProperties
<1>7. filled = 0 /\ nilSent = FALSE
  BY DEF SlotInit
<1>8. Arrays(slots, filled)
  BY <1>1, <1>3, <1>4, <1>6, <1>7 DEF Arrays
<1>9. \A i \in 1 .. n : slots[i] = SlotOf(NilSlot, NilSlot)
  BY <1>1 DEF Unused
<1>10. Keyed(slots, filled)
  BY <1>1, <1>3, <1>6, <1>7, <1>9 DEF Keyed
<1> QED
  BY <1>7, <1>8, <1>10 DEF SlotInv

LEMMA ValuesHeld ==
  ASSUME Arrays(slots, filled), NEW i \in 1 .. Len(slots)
  PROVE  slots[i].value \in SlotValue \cup {NilSlot}
<1>1. slots[i] \in Slot
  BY ElementOfSeq DEF Arrays
<1> QED
  BY <1>1 DEF Slot

(* A slot moved forward, with nil for a key or not.                        *)
LEMMA ForwardKept ==
  ASSUME SlotInv, NEW k \in SlotKey \cup {NilSlot}, NEW i \in FoundAt(k),
         NEW v \in SlotValue \cup {NilSlot},
         slots' = Forward(i, v), filled' = filled, nilSent' = (nilSent \/ k = NilSlot)
  PROVE  SlotInv'
<1>1. i \in 1 .. Len(slots)
  BY FoundPlace DEF SlotInv
<1>2. Arrays(slots', filled')
  BY <1>1, ForwardSlots DEF SlotInv, Arrays
<1>3. ASSUME ~nilSent' PROVE Keyed(slots', filled')
  <2>1. k \in SlotKey /\ Keyed(slots, filled)
    BY <1>3 DEF SlotInv
  <2>2. i \in 1 .. filled
    BY <2>1, FoundSlot DEF SlotInv
  <2> QED
    BY <2>1, <2>2, ForwardHeld DEF SlotInv
<1>4. nilSent' \in BOOLEAN
  BY DEF SlotInv
<1> QED
  BY <1>2, <1>3, <1>4 DEF SlotInv

LEMMA AtKept ==
  ASSUME SlotInv, NEW k \in SlotKey \cup {NilSlot}, SlotAt(k)
  PROVE  SlotInv'
<1>1. filled' = filled /\ nilSent' = (nilSent \/ k = NilSlot)
  BY DEF SlotAt
<1>2. ASSUME NEW i \in FoundAt(k), slots' = Forward(i, slots[i].value)
      PROVE  SlotInv'
  <2>1. slots[i].value \in SlotValue \cup {NilSlot}
    BY FoundPlace, ValuesHeld DEF SlotInv
  <2> QED
    BY <1>1, <1>2, <2>1, ForwardKept
<1>3. CASE UNCHANGED slots
  BY <1>1, <1>3 DEF SlotInv
<1> QED
  BY <1>2, <1>3 DEF SlotAt

LEMMA AtPutKept ==
  ASSUME SlotInv, NEW k \in SlotKey \cup {NilSlot}, NEW v \in SlotValue, SlotAtPut(k, v)
  PROVE  SlotInv'
<1>1. nilSent' = (nilSent \/ k = NilSlot)
  BY DEF SlotAtPut
<1>2. ASSUME NEW i \in FoundAt(k), slots' = Forward(i, v), UNCHANGED filled
      PROVE  SlotInv'
  BY <1>1, <1>2, ForwardKept
<1>3. ASSUME FoundAt(k) = {}, slots' = Added(k, v), filled' = filled + 1
      PROVE  SlotInv'
  <2>1. Arrays(slots', filled')
    BY <1>3, AddedSlots DEF SlotInv
  <2>2. ASSUME ~nilSent' PROVE Keyed(slots', filled')
    <3>1. k \in SlotKey /\ Keyed(slots, filled)
      BY <1>1, <2>2 DEF SlotInv
    <3>2. k \notin KeysOf(slots, filled)
      BY <1>3, <3>1, FoundSlot DEF SlotInv
    <3> QED
      BY <1>3, <3>1, <3>2, AddedHeld DEF SlotInv
  <2>3. nilSent' \in BOOLEAN
    BY <1>1 DEF SlotInv
  <2> QED
    BY <2>1, <2>2, <2>3 DEF SlotInv
<1> QED
  BY <1>2, <1>3 DEF SlotAtPut, Added

LEMMA RemoveKept ==
  ASSUME SlotInv, NEW k \in SlotKey \cup {NilSlot}, SlotRemove(k)
  PROVE  SlotInv'
<1>1. nilSent' = (nilSent \/ k = NilSlot)
  BY DEF SlotRemove
<1>2. nilSent' \in BOOLEAN
  BY <1>1 DEF SlotInv
<1>3. ASSUME NEW i \in 1 .. filled, slots' = Closed(i), filled' = filled - 1
      PROVE  SlotInv'
  <2>1. Arrays(slots', filled')
    BY <1>3, ClosedSlots DEF SlotInv
  <2>2. ASSUME ~nilSent' PROVE Keyed(slots', filled')
    <3>1. Keyed(slots, filled)
      BY <1>1, <2>2 DEF SlotInv
    <3> QED
      BY <1>3, <3>1, ClosedHeld DEF SlotInv
  <2> QED
    BY <1>2, <2>1, <2>2 DEF SlotInv
<1>4. CASE UNCHANGED <<slots, filled>>
  BY <1>1, <1>2, <1>4 DEF SlotInv
<1> QED
  BY <1>3, <1>4 DEF SlotRemove

LEMMA NextKept == SlotInv /\ [SlotNext]_slotVars => SlotInv'
<1> SUFFICES ASSUME SlotInv, [SlotNext]_slotVars PROVE SlotInv'
  OBVIOUS
<1>1. CASE UNCHANGED slotVars
  BY <1>1 DEF slotVars, SlotInv
<1>2. ASSUME NEW k \in SlotKey \cup {NilSlot}, SlotAt(k) PROVE SlotInv'
  BY <1>2, AtKept
<1>3. ASSUME NEW k \in SlotKey \cup {NilSlot}, SlotRemove(k) PROVE SlotInv'
  BY <1>3, RemoveKept
<1>4. ASSUME NEW k \in SlotKey \cup {NilSlot}, NEW v \in SlotValue, SlotAtPut(k, v) PROVE SlotInv'
  BY <1>4, AtPutKept
<1> QED
  BY <1>1, <1>2, <1>3, <1>4 DEF SlotNext

(* SlotInv holds in every state, as every message keeps it.               *)
THEOREM SlotsInvariance == SlotSpec => []SlotInv
BY InitKept, NextKept, PTL DEF SlotSpec

(* The tally never passes the arrays, whatever a dictionary is sent, and   *)
(* what lies past it is nil unless nil was a key.                          *)
THEOREM SlotsTyped == SlotSpec => []SlotTypeOK
<1>1. SlotInv => SlotTypeOK
  BY DEF SlotInv, SlotTypeOK, Arrays, Keyed, Slot
<1> QED
  BY <1>1, SlotsInvariance, PTL

-----------------------------------------------------------------------------
(* What a caller sees                                                      *)

LEMMA AtActs ==
  ASSUME SlotInv, ~nilSent', NEW k \in SlotKey, SlotAt(k)
  PROVE  Map!Get(k)
<1>1. ~nilSent /\ filled' = filled
  BY DEF SlotAt
<1>2. Arrays(slots, filled) /\ Keyed(slots, filled) /\ filled \in Nat
  BY <1>1 DEF SlotInv, Arrays
<1>3. Held = HeldOf(slots, filled) /\ DOMAIN Held = KeysOf(slots, filled)
  BY HeldNow
<1>4. Held' = HeldOf(slots', filled')
  BY DEF Held, HeldOf, Slotted, KeysOf
<1>5. ASSUME NEW i \in FoundAt(k), slots' = Forward(i, slots[i].value), slotAnswer' = slots[i].value
      PROVE  Map!Get(k)
  <2>1. i \in 1 .. filled /\ slots[i].key = k
    BY <1>2, FoundSlot
  <2>2. k \in KeysOf(slots, filled) /\ HeldOf(slots, filled)[k] = slots[i].value
    BY <1>2, <2>1, HeldHere
  <2>3. i \in 1 .. Len(slots)
    BY <1>2, <2>1 DEF Arrays
  <2>4. HeldOf(slots', filled') =
           [j \in KeysOf(slots, filled) |->
               IF j = k THEN slots[i].value ELSE HeldOf(slots, filled)[j]]
    BY <1>1, <1>2, <1>5, <2>1, <2>3, ValuesHeld, ForwardHeld
  <2>5. HeldOf(slots, filled) = [j \in KeysOf(slots, filled) |-> HeldOf(slots, filled)[j]]
    BY DEF HeldOf
  <2>6. HeldOf(slots', filled') = HeldOf(slots, filled)
    BY <2>2, <2>4, <2>5
  <2> QED
    BY <1>3, <1>4, <1>5, <2>2, <2>6 DEF Map!Get
<1>6. CASE FoundAt(k) = {} /\ slotAnswer' = NilSlot /\ UNCHANGED slots
  <2>1. k \notin KeysOf(slots, filled)
    BY <1>2, <1>6, FoundSlot
  <2> QED
    BY <1>1, <1>3, <1>4, <1>6, <2>1 DEF Map!Get
<1> QED
  BY <1>5, <1>6 DEF SlotAt

LEMMA AtPutActs ==
  ASSUME SlotInv, ~nilSent', NEW k \in SlotKey, NEW v \in SlotValue, SlotAtPut(k, v)
  PROVE  Map!Put(k, v)
<1>1. ~nilSent /\ slotAnswer' = v
  BY DEF SlotAtPut
<1>2. Arrays(slots, filled) /\ Keyed(slots, filled)
  BY <1>1 DEF SlotInv
<1>3. Held = HeldOf(slots, filled) /\ DOMAIN Held = KeysOf(slots, filled)
  BY HeldNow
<1>4. Held' = HeldOf(slots', filled')
  BY DEF Held, HeldOf, Slotted, KeysOf
<1> DEFINE g == [j \in KeysOf(slots, filled) \cup {k} |->
                    IF j = k THEN v ELSE HeldOf(slots, filled)[j]]
<1>5. ASSUME NEW i \in FoundAt(k), slots' = Forward(i, v), UNCHANGED filled
      PROVE  HeldOf(slots', filled') = g
  <2>1. i \in 1 .. filled /\ slots[i].key = k
    BY <1>2, FoundSlot
  <2>2. KeysOf(slots, filled) \cup {k} = KeysOf(slots, filled)
    BY <2>1 DEF KeysOf
  <2> QED
    BY <1>2, <1>5, <2>1, <2>2, ForwardHeld
<1>6. ASSUME FoundAt(k) = {}, slots' = Added(k, v), filled' = filled + 1
      PROVE  HeldOf(slots', filled') = g
  <2>1. k \notin KeysOf(slots, filled)
    BY <1>2, <1>6, FoundSlot
  <2> QED
    BY <1>2, <1>6, <2>1, AddedHeld
<1>7. HeldOf(slots', filled') = g
  BY <1>5, <1>6 DEF SlotAtPut, Added
<1> QED
  BY <1>1, <1>3, <1>4, <1>7 DEF Map!Put

LEMMA RemoveActs ==
  ASSUME SlotInv, ~nilSent', NEW k \in SlotKey, SlotRemove(k)
  PROVE  Map!Drop(k)
<1>1. ~nilSent /\ slotAnswer' = slotAnswer
  BY DEF SlotRemove
<1>2. Arrays(slots, filled) /\ Keyed(slots, filled)
  BY <1>1 DEF SlotInv
<1>3. Held = HeldOf(slots, filled) /\ DOMAIN Held = KeysOf(slots, filled)
  BY HeldNow
<1>4. Held' = HeldOf(slots', filled')
  BY DEF Held, HeldOf, Slotted, KeysOf
<1> DEFINE g == [j \in KeysOf(slots, filled) \ {k} |-> HeldOf(slots, filled)[j]]
<1>5. ASSUME NEW i \in 1 .. filled, slots[i].key = k, slots' = Closed(i), filled' = filled - 1
      PROVE  HeldOf(slots', filled') = g
  BY <1>2, <1>5, ClosedHeld
<1>6. ASSUME \A i \in 1 .. filled : slots[i].key # k, UNCHANGED <<slots, filled>>
      PROVE  HeldOf(slots', filled') = g
  <2>1. KeysOf(slots, filled) \ {k} = KeysOf(slots, filled)
    BY <1>6 DEF KeysOf
  <2>2. HeldOf(slots, filled) = [j \in KeysOf(slots, filled) |-> HeldOf(slots, filled)[j]]
    BY DEF HeldOf
  <2> QED
    BY <1>6, <2>1, <2>2
<1>7. HeldOf(slots', filled') = g
  BY <1>5, <1>6 DEF SlotRemove
<1> QED
  BY <1>1, <1>3, <1>4, <1>7 DEF Map!Drop, Map!Restrict

(* As long as nil is no key, at:, at:put: and removeKey: answer and do     *)
(* what they would with a map: the slots' wandering, the growth of the     *)
(* arrays and the places left nil are never to be seen.                    *)
THEOREM Acting == SlotSpec => ActsAsMap
<1>1. SlotInv /\ [SlotNext]_slotVars =>
         [~nilSent' => \A k \in SlotKey :
             /\ SlotAt(k) => Map!Get(k)
             /\ SlotRemove(k) => Map!Drop(k)
             /\ \A v \in SlotValue : SlotAtPut(k, v) => Map!Put(k, v)]_slotVars
  BY AtActs, AtPutActs, RemoveActs
<1> QED
  BY <1>1, SlotsInvariance, PTL DEF SlotSpec, ActsAsMap
-----------------------------------------------------------------------------
(* Streams.                                                                *)

Cell == Item \cup {Blank}

LEMMA CellsListed ==
  ASSUME NEW S, NEW n \in Nat, NEW s \in [1 .. n -> S]
  PROVE  s \in Seq(S) /\ Len(s) = n
BY LenProperties, IsASeq

(* What the type invariant says of the numbers.                            *)
LEMMA StreamBounds ==
  ASSUME StreamTypeOK
  PROVE  /\ Len(collection) \in Nat /\ position \in Nat /\ readLimit \in Nat
         /\ position <= Len(collection) /\ readLimit <= Len(collection)
         /\ Limit \in Nat /\ Limit <= Len(collection)
         /\ position <= Limit /\ readLimit <= Limit
         /\ ~writes => Limit = readLimit
         /\ position < Limit <=> position < readLimit
BY DEF StreamTypeOK, Limit, Further

LEMMA Cells ==
  ASSUME StreamTypeOK
  PROVE  /\ collection \in [1 .. Len(collection) -> Cell]
         /\ \A n \in Nat : n <= Len(collection) =>
               /\ [i \in 1 .. n |-> collection[i]] \in Seq(Cell)
               /\ Len([i \in 1 .. n |-> collection[i]]) = n
<1>1. collection \in Seq(Cell)
  BY DEF StreamTypeOK, Cell
<1>2. collection \in [1 .. Len(collection) -> Cell]
  BY <1>1
<1>3. ASSUME NEW n \in Nat, n <= Len(collection)
      PROVE  [i \in 1 .. n |-> collection[i]] \in [1 .. n -> Cell]
  BY <1>2, <1>3, StreamBounds
<1>4. ASSUME NEW n \in Nat, n <= Len(collection)
      PROVE  /\ [i \in 1 .. n |-> collection[i]] \in Seq(Cell)
             /\ Len([i \in 1 .. n |-> collection[i]]) = n
  <2> DEFINE s == [i \in 1 .. n |-> collection[i]]
  <2>1. s \in [1 .. n -> Cell]
    BY <1>3, <1>4
  <2> HIDE DEF s
  <2>2. s \in Seq(Cell) /\ Len(s) = n
    BY <2>1, CellsListed
  <2> QED
    BY <2>2 DEF s
<1> QED
  BY <1>2, <1>4

LEMMA Copied ==
  ASSUME StreamTypeOK
  PROVE  /\ Copy \in Seq(Cell) /\ Len(Copy) = Limit
         /\ \A i \in 1 .. Limit : Copy[i] = collection[i]
BY Cells, StreamBounds DEF Copy

(* Growing keeps the cells there are and leaves room for one more.         *)
LEMMA Growing ==
  ASSUME StreamTypeOK
  PROVE  /\ WiderSize \in Nat /\ WiderSize > Len(collection)
         /\ Wider \in [1 .. WiderSize -> Cell]
         /\ \A i \in 1 .. Len(collection) : Wider[i] = collection[i]
<1>1. WiderSize \in Nat /\ WiderSize > Len(collection)
  BY StreamBounds, GrowthAssumption DEF WiderSize, Further, Nearer
<1>2. collection \in [1 .. Len(collection) -> Cell]
  BY Cells
<1>3. Blank \in Cell
  BY DEF Cell
<1>4. ASSUME NEW i \in 1 .. WiderSize
      PROVE  (IF i <= Len(collection) THEN collection[i] ELSE Blank) \in Cell
  BY <1>2, <1>3, <1>4, StreamBounds
<1>5. Wider \in [1 .. WiderSize -> Cell]
  BY <1>4 DEF Wider
<1>6. \A i \in 1 .. Len(collection) : Wider[i] = collection[i]
  BY <1>1, StreamBounds DEF Wider
<1> QED
  BY <1>1, <1>5, <1>6

(* nextPut: stores its argument after the place and changes nothing else.  *)
LEMMA Putting ==
  ASSUME StreamTypeOK, NEW x \in Item, StreamNextPut(x)
  PROVE  /\ collection' \in Seq(Cell)
         /\ Len(collection') \in Nat /\ Len(collection') >= Len(collection)
         /\ Len(collection') > position
         /\ collection'[position + 1] = x
         /\ \A i \in 1 .. Len(collection) : i # position + 1 => collection'[i] = collection[i]
<1> DEFINE n == IF position >= writeLimit THEN WiderSize ELSE Len(collection)
           a == IF position >= writeLimit THEN Wider ELSE collection
<1>1. collection' = [a EXCEPT ![position + 1] = x] /\ writes
  BY DEF StreamNextPut
<1>2. writeLimit = Len(collection)
  BY <1>1 DEF StreamTypeOK
<1>3. /\ n \in Nat /\ n >= Len(collection) /\ n > position
      /\ position \in Nat
  BY <1>2, Growing, StreamBounds
<1>4. a \in [1 .. n -> Cell] /\ \A i \in 1 .. Len(collection) : a[i] = collection[i]
  BY Growing, Cells
<1> HIDE DEF n, a
<1>5. x \in Cell
  BY DEF Cell
<1>6. collection' \in [1 .. n -> Cell]
  BY <1>1, <1>4, <1>5
<1>7. collection' \in Seq(Cell) /\ Len(collection') = n
  BY <1>6, <1>3, CellsListed
<1>8. position + 1 \in 1 .. n
  BY <1>3
<1>9. \A i \in 1 .. Len(collection) : i \in 1 .. n
  BY <1>3, StreamBounds
<1> QED
  BY <1>1, <1>3, <1>4, <1>7, <1>8, <1>9

-----------------------------------------------------------------------------
(* Type correctness                                                        *)

LEMMA InitTyped == StreamInit => StreamTypeOK
<1> SUFFICES ASSUME StreamInit PROVE StreamTypeOK
  OBVIOUS
<1>1. collection \in Seq(Item \cup {Blank})
  BY GivenAssumption DEF StreamInit
<1>2. Len(collection) \in Nat
  BY <1>1
<1>3. writes \in BOOLEAN /\ stopped \in BOOLEAN
  BY DEF StreamInit
<1>4. /\ position \in 0 .. Len(collection) /\ readLimit \in 0 .. Len(collection)
      /\ writes => writeLimit = Len(collection)
      /\ ~writes => position <= readLimit
  BY <1>2 DEF StreamInit
<1> QED
  BY <1>1, <1>3, <1>4 DEF StreamTypeOK

LEMMA Flags ==
  ASSUME StreamTypeOK, NEW a, Aborts \/ Answers(a)
  PROVE  writes' = writes /\ stopped' \in BOOLEAN
<1>1. CASE Aborts
  BY <1>1 DEF Aborts
<1>2. CASE Answers(a)
  BY <1>2 DEF Answers, StreamTypeOK
<1> QED
  BY <1>1, <1>2

LEMMA StayTyped ==
  ASSUME StreamTypeOK, writes' = writes, stopped' \in BOOLEAN,
         UNCHANGED <<collection, readLimit, writeLimit>>,
         \/ position' = position
         \/ position' \in Nat /\ position' <= readLimit
  PROVE  StreamTypeOK'
<1>1. /\ position' \in 0 .. Len(collection) /\ readLimit' \in 0 .. Len(collection)
      /\ ~writes => position' <= readLimit'
  BY StreamBounds DEF StreamTypeOK
<1> QED
  BY <1>1 DEF StreamTypeOK

LEMMA PutTyped ==
  ASSUME StreamTypeOK, NEW x \in Item, StreamNextPut(x)
  PROVE  StreamTypeOK'
<1>1. /\ collection' \in Seq(Item \cup {Blank}) /\ Len(collection') \in Nat
      /\ Len(collection') >= Len(collection) /\ Len(collection') > position
  BY Putting DEF Cell
<1>2. /\ writes' = writes /\ stopped' = stopped /\ writes /\ position' = position + 1
      /\ readLimit' = readLimit /\ writeLimit' = Len(collection')
  BY DEF StreamNextPut, Answers
<1> QED
  BY <1>1, <1>2, StreamBounds DEF StreamTypeOK

LEMMA MoveTyped ==
  ASSUME StreamTypeOK, NEW n \in Int, MoveTo(n)
  PROVE  StreamTypeOK'
<1>1. /\ collection' = collection /\ writeLimit' = writeLimit /\ readLimit' = Limit
      /\ writes' = writes /\ stopped' \in BOOLEAN
      /\ position' = position \/ position' \in 0 .. Limit
  BY DEF MoveTo, Answers, Aborts, StreamTypeOK
<1> QED
  BY <1>1, StreamBounds DEF StreamTypeOK

LEMMA ReadTyped ==
  ASSUME StreamTypeOK,
         StreamNext1 \/ (\E n \in Moves \cap Nat : StreamNextMany(n)) \/ StreamPeek \/ StreamAtEnd
  PROVE  StreamTypeOK'
<1>1. CASE StreamNext1
  <2>1. Len(Item1) = IF AtEndNow THEN 0 ELSE 1
    BY DEF Item1
  <2>2. Aborts \/ Answers(Item1)
    BY <1>1 DEF StreamNext1
  <2>3. UNCHANGED <<collection, readLimit, writeLimit>>
    BY <1>1 DEF StreamNext1, Rests
  <2>4. position' = position \/ (position' = position + 1 /\ position < readLimit)
    BY <1>1, <2>1, StreamBounds DEF StreamNext1, Rests, AtEndNow
  <2>5. position' = position \/ (position' \in Nat /\ position' <= readLimit)
    BY <2>4, StreamBounds
  <2> QED
    BY <2>2, <2>3, <2>5, Flags, StayTyped
<1>2. ASSUME NEW n \in Moves \cap Nat, StreamNextMany(n)
      PROVE  StreamTypeOK'
  <2>1. \E a : Aborts \/ Answers(a)
    BY <1>2 DEF StreamNextMany
  <2>2. UNCHANGED <<collection, readLimit, writeLimit>>
    BY <1>2 DEF StreamNextMany, Rests
  <2>3. \/ position' = position
        \/ position' = Nearer(position + n, readLimit)
    BY <1>2 DEF StreamNextMany, Rests
  <2>4. position' = position \/ (position' \in Nat /\ position' <= readLimit)
    BY <2>3, StreamBounds DEF Nearer
  <2> QED
    BY <2>1, <2>2, <2>4, Flags, StayTyped
<1>3. CASE StreamPeek \/ StreamAtEnd
  <2>1. \E a : Aborts \/ Answers(a)
    BY <1>3 DEF StreamPeek, StreamAtEnd
  <2>2. Rests
    BY <1>3 DEF StreamPeek, StreamAtEnd
  <2> QED
    BY <2>1, <2>2, Flags, StayTyped DEF Rests
<1> QED
  BY <1>1, <1>2, <1>3

LEMMA AskTyped ==
  ASSUME StreamTypeOK, StreamReset \/ StreamResetToStart \/ StreamSize \/ StreamContents
  PROVE  StreamTypeOK'
BY StreamBounds DEF StreamReset, StreamResetToStart, StreamSize, StreamContents, Answers, StreamTypeOK

LEMMA ReadContentsTyped ==
  ASSUME StreamTypeOK, StreamReadContents
  PROVE  StreamTypeOK'
<1>1. /\ collection' = Copy /\ writes' = FALSE /\ position' = 0 /\ readLimit' = Limit
      /\ stopped' = stopped
  BY DEF StreamReadContents
<1>2. collection' \in Seq(Item \cup {Blank}) /\ Len(collection') = Limit
  BY <1>1, Copied DEF Cell
<1>3. /\ position' \in 0 .. Len(collection') /\ readLimit' \in 0 .. Len(collection')
      /\ position' <= readLimit'
  BY <1>1, <1>2, StreamBounds
<1>4. writes' \in BOOLEAN /\ stopped' \in BOOLEAN /\ ~writes'
  BY <1>1 DEF StreamTypeOK
<1> QED
  BY <1>2, <1>3, <1>4 DEF StreamTypeOK

LEMMA NextTyped == StreamTypeOK /\ [StreamNext]_streamVars => StreamTypeOK'
<1> SUFFICES ASSUME StreamTypeOK, [StreamNext]_streamVars PROVE StreamTypeOK'
  OBVIOUS
<1>1. ASSUME NEW x \in Item, StreamNextPut(x) PROVE StreamTypeOK'
  BY <1>1, PutTyped
<1>2. ASSUME NEW x \in Item, NextPutRefused(x) PROVE StreamTypeOK'
  BY <1>2 DEF NextPutRefused, Aborts, Rests, StreamTypeOK
<1>3. ASSUME NEW n \in Moves, StreamPosition(n) \/ StreamSkip(n) PROVE StreamTypeOK'
  <2>1. n \in Int /\ position + n \in Int
    BY MovesAssumption, StreamBounds
  <2>2. MoveTo(n) \/ MoveTo(position + n)
    BY <1>3 DEF StreamPosition, StreamSkip
  <2> QED
    BY <2>1, <2>2, MoveTyped
<1>4. CASE UNCHANGED streamVars
  BY <1>4 DEF streamVars, StreamTypeOK
<1> QED
  BY <1>1, <1>2, <1>3, <1>4, ReadTyped, AskTyped, ReadContentsTyped DEF StreamNext

(* The place and both limits of a stream stay within its array.            *)
THEOREM StreamsTyped == StreamSpec => []StreamTypeOK
BY InitTyped, NextTyped, PTL DEF StreamSpec

-----------------------------------------------------------------------------
(* StreamsRefine: a lemma for each kind of message                            *)

LEMMA CopyStays ==
  ASSUME UNCHANGED collection, Limit' = Limit
  PROVE  Copy' = Copy
BY DEF Copy

LEMMA InitTape == StreamInit => T!Init
<1> SUFFICES ASSUME StreamInit PROVE T!Init
  OBVIOUS
<1>1. /\ position = 0 /\ sent = <<"on:">> /\ answered = <<>> /\ stopped = FALSE
      /\ collection \in Given /\ writes \in BOOLEAN
      /\ readLimit = IF writes THEN 0 ELSE Len(collection)
  BY DEF StreamInit
<1>2. CASE writes
  <2>1. Limit = 0
    BY <1>1, <1>2 DEF Limit, Further
  <2>2. Copy = <<>>
    BY <2>1 DEF Copy
  <2> QED
    BY <1>1, <1>2, <2>2 DEF T!Init
<1>3. CASE ~writes
  <2>1. collection \in Seq(Cell)
    BY <1>1, GivenAssumption DEF Cell
  <2>2. Limit = Len(collection)
    BY <1>1, <1>3 DEF Limit
  <2>3. Copy = collection
    BY <2>1, <2>2 DEF Copy
  <2> QED
    BY <1>1, <1>3, <2>3 DEF T!Init
<1> QED
  BY <1>2, <1>3

LEMMA PutTape ==
  ASSUME StreamTypeOK, NEW x \in Item, StreamNextPut(x)
  PROVE  T!NextPut(x)
<1> DEFINE room == IF Len(Copy) - position > 0 THEN 0 ELSE 1
<1>1. /\ position \in Nat /\ readLimit \in Nat /\ Limit \in Nat
      /\ Limit <= Len(collection) /\ position <= Limit /\ Len(collection) \in Nat
  BY StreamBounds
<1>2. writes /\ writes' /\ position' = position + 1 /\ readLimit' = readLimit
  BY DEF StreamNextPut, Answers, StreamTypeOK
<1>3. Len(Copy) = Limit /\ \A i \in 1 .. Limit : Copy[i] = collection[i]
  BY Copied
<1>4. Limit' = Limit + room
  BY <1>1, <1>2, <1>3 DEF Limit, Further
<1>5. ASSUME NEW i \in 1 .. Limit + room
      PROVE  collection'[i] = IF i = position + 1 THEN x ELSE Copy[i]
  <2>1. CASE i = position + 1
    BY <2>1, Putting
  <2>2. CASE i # position + 1
    <3>1. i \in 1 .. Limit
      BY <1>1, <1>3, <2>2
    <3>2. i \in 1 .. Len(collection)
      BY <3>1, <1>1
    <3>3. collection'[i] = collection[i]
      BY <2>2, <3>2, Putting
    <3> QED
      BY <1>3, <2>2, <3>1, <3>3
  <2> QED
    BY <2>1, <2>2
<1>6. Copy' = [i \in 1 .. Limit + room |-> IF i = position + 1 THEN x ELSE Copy[i]]
  <2>1. Copy' = [i \in 1 .. Limit + room |-> collection'[i]]
    BY <1>4 DEF Copy
  <2> HIDE DEF room
  <2> QED
    BY <2>1, <1>5
<1>7. Copy' = T!Written(x)
  BY <1>6, <1>3 DEF T!Written, T!Left
<1>8. sent' = <<"nextPut:", x>> /\ Answers(<<x>>)
  BY DEF StreamNextPut
<1> QED
  BY <1>2, <1>7, <1>8 DEF T!NextPut, T!Replies, Answers

LEMMA RefusedTape ==
  ASSUME StreamTypeOK, NEW x \in Item, NextPutRefused(x)
  PROVE  T!NextPut(x)
<1>1. ~writes /\ sent' = <<"nextPut:", x>> /\ Aborts /\ Rests
  BY DEF NextPutRefused
<1>2. Copy' = Copy
  BY <1>1 DEF Rests, Aborts, Copy, Limit
<1> QED
  BY <1>1, <1>2 DEF T!NextPut, T!Breaks, Aborts, Rests

LEMMA MoveTape ==
  ASSUME StreamTypeOK, NEW n \in Int, MoveTo(n)
  PROVE  T!MovesTo(n)
<1>1. /\ UNCHANGED <<collection, writes>> /\ readLimit' = Limit
      /\ \/ n \in 0 .. Limit /\ position' = n /\ Answers(<<>>)
         \/ n \notin 0 .. Limit /\ position' = position /\ Aborts
  BY DEF MoveTo, Answers, Aborts
<1>2. Limit' = Limit
  BY <1>1, StreamBounds DEF Limit, Further
<1>3. Copy' = Copy /\ Len(Copy) = Limit
  BY <1>1, <1>2, CopyStays, Copied
<1> QED
  BY <1>1, <1>3 DEF T!MovesTo, T!Replies, T!Breaks, Answers, Aborts

LEMMA RestTape ==
  ASSUME Rests, UNCHANGED writes
  PROVE  Copy' = Copy
BY DEF Rests, Copy, Limit

(* What is ahead of a reader, in the tape and in the array.                *)
LEMMA AheadIs ==
  ASSUME StreamTypeOK, NEW n \in Nat, position + n <= Limit
  PROVE  T!Ahead(n) = [i \in 1 .. n |-> collection[position + i]]
<1>1. ASSUME NEW i \in 1 .. n
      PROVE  Copy[position + i] = collection[position + i]
  <2>1. position + i \in 1 .. Limit
    BY StreamBounds
  <2> QED
    BY <2>1, Copied
<1> QED
  BY <1>1 DEF T!Ahead

LEMMA FirstIs ==
  ASSUME StreamTypeOK
  PROVE  Item1 = T!Ahead(IF T!Left > 0 THEN 1 ELSE 0)
<1>1. /\ AtEndNow <=> ~(T!Left > 0)
      /\ ~AtEndNow => position + 1 <= Limit
  BY StreamBounds, Copied DEF AtEndNow, T!Left
<1>2. CASE AtEndNow
  <2>1. T!Ahead(0) = <<>>
    BY DEF T!Ahead
  <2> QED
    BY <1>1, <1>2, <2>1 DEF Item1
<1>3. CASE ~AtEndNow
  <2>1. T!Ahead(1) = [i \in 1 .. 1 |-> collection[position + i]]
    BY <1>1, <1>3, AheadIs
  <2>2. T!Ahead(1) = <<collection[position + 1]>>
    BY <2>1
  <2> QED
    BY <1>1, <1>3, <2>2 DEF Item1
<1> QED
  BY <1>2, <1>3

LEMMA Next1Tape ==
  ASSUME StreamTypeOK, StreamNext1
  PROVE  T!Next1
<1>1. CASE writes
  <2>1. Copy' = Copy
    BY <1>1, RestTape DEF StreamNext1, Aborts
  <2> QED
    BY <1>1, <2>1 DEF StreamNext1, T!Next1, T!Breaks, Aborts, Rests
<1>2. CASE ~writes
  <2> DEFINE k == IF T!Left > 0 THEN 1 ELSE 0
  <2>1. /\ sent' = <<"next">> /\ Answers(Item1) /\ position' = position + Len(Item1)
        /\ UNCHANGED <<collection, readLimit>>
    BY <1>2 DEF StreamNext1
  <2>2. Copy' = Copy
    BY <1>2, <2>1 DEF Copy, Limit, Answers
  <2>3. Item1 = T!Ahead(k)
    BY FirstIs
  <2>4. Len(Item1) = k
    BY <1>2, StreamBounds, Copied DEF Item1, AtEndNow, T!Left
  <2> HIDE DEF k
  <2>5. T!Takes(k)
    BY <2>1, <2>2, <2>3, <2>4 DEF T!Takes, T!Replies, Answers
  <2> QED
    BY <1>2, <2>1, <2>5 DEF T!Next1, k
<1> QED
  BY <1>1, <1>2

LEMMA NextManyTape ==
  ASSUME StreamTypeOK, NEW n \in Nat, StreamNextMany(n)
  PROVE  T!NextMany(n)
<1>1. CASE writes /\ n > 0
  <2>1. Copy' = Copy
    BY <1>1, RestTape DEF StreamNextMany, Aborts
  <2> QED
    BY <1>1, <2>1 DEF StreamNextMany, T!NextMany, T!Breaks, Aborts, Rests
<1>2. CASE writes /\ ~(n > 0)
  <2>1. sent' = <<"next:", n>> /\ Answers(<<>>) /\ Rests
    BY <1>2 DEF StreamNextMany
  <2>2. Copy' = Copy
    BY <2>1, RestTape DEF Answers
  <2>3. (IF n < T!Left THEN n ELSE T!Left) = 0
    BY <1>2, StreamBounds, Copied DEF T!Left
  <2>4. T!Ahead(0) = <<>> /\ position' = position + 0
    BY <2>1, StreamBounds DEF T!Ahead, Rests
  <2>5. T!Takes(0)
    BY <2>1, <2>2, <2>4 DEF T!Takes, T!Replies, Answers
  <2> QED
    BY <1>2, <2>1, <2>3, <2>5 DEF T!NextMany
<1>3. CASE ~writes
  <2> DEFINE k == IF n < T!Left THEN n ELSE T!Left
  <2>1. /\ sent' = <<"next:", n>>
        /\ Answers([i \in 1 .. Nearer(position + n, readLimit) - position
                       |-> collection[position + i]])
        /\ position' = Nearer(position + n, readLimit)
        /\ UNCHANGED <<collection, readLimit>>
    BY <1>3 DEF StreamNextMany
  <2>2. Copy' = Copy
    BY <1>3, <2>1 DEF Copy, Limit, Answers
  <2>3. /\ k \in Nat /\ position + k <= Limit
        /\ Nearer(position + n, readLimit) = position + k
        /\ Nearer(position + n, readLimit) - position = k
    BY <1>3, StreamBounds, Copied DEF T!Left, Nearer
  <2>4. T!Ahead(k) = [i \in 1 .. k |-> collection[position + i]]
    BY <2>3, AheadIs
  <2> HIDE DEF k
  <2>5. Answers(T!Ahead(k)) /\ position' = position + k
    BY <2>1, <2>3, <2>4
  <2>6. T!Takes(k)
    BY <2>1, <2>2, <2>5 DEF T!Takes, T!Replies, Answers
  <2> QED
    BY <1>3, <2>1, <2>6 DEF T!NextMany, k
<1> QED
  BY <1>1, <1>2, <1>3

LEMMA LookTape ==
  ASSUME StreamTypeOK, StreamPeek \/ StreamAtEnd
  PROVE  T!Peek \/ T!AtEnd
<1>1. AtEndNow <=> ~(T!Left > 0)
  BY StreamBounds, Copied DEF AtEndNow, T!Left
<1>2. Rests /\ UNCHANGED writes
  BY DEF StreamPeek, StreamAtEnd, Aborts, Answers
<1>3. Copy' = Copy /\ position' = position
  BY <1>2, RestTape DEF Rests
<1>4. CASE StreamPeek
  BY <1>1, <1>3, <1>4, FirstIs DEF StreamPeek, T!Peek, T!Breaks, T!Replies, Aborts, Answers
<1>5. CASE StreamAtEnd
  <2>1. (IF AtEndNow THEN 1 ELSE 0) = (IF T!Left > 0 THEN 0 ELSE 1)
    BY <1>1
  <2> QED
    BY <1>3, <1>5, <2>1 DEF StreamAtEnd, T!AtEnd, T!Replies, Answers
<1> QED
  BY <1>4, <1>5

LEMMA ResetTape ==
  ASSUME StreamTypeOK
  PROVE  /\ StreamReset => T!Reset
         /\ StreamResetToStart => T!ResetToStart
<1>1. ASSUME StreamReset PROVE T!Reset
  <2>1. /\ UNCHANGED <<collection, writes>> /\ readLimit' = Limit /\ position' = 0
        /\ sent' = <<"reset">> /\ Answers(<<>>)
    BY <1>1 DEF StreamReset, Answers
  <2>2. Limit' = Limit /\ 0 \in 0 .. Limit
    BY <2>1, StreamBounds DEF Limit, Further
  <2>3. Copy' = Copy /\ Len(Copy) = Limit
    BY <2>1, <2>2, CopyStays, Copied
  <2> QED
    BY <2>1, <2>2, <2>3 DEF T!Reset, T!MovesTo, T!Replies, Answers
<1>2. ASSUME StreamResetToStart PROVE T!ResetToStart
  <2>1. Limit' = 0
    BY <1>2 DEF StreamResetToStart, Limit, Further
  <2>2. Copy' = <<>>
    BY <2>1 DEF Copy
  <2> QED
    BY <1>2, <2>2 DEF StreamResetToStart, T!ResetToStart, T!Replies, Answers
<1> QED
  BY <1>1, <1>2

LEMMA AskTape ==
  ASSUME StreamTypeOK
  PROVE  /\ StreamSize => T!Size
         /\ StreamContents => T!Contents
         /\ StreamReadContents => T!ReadContents
<1>1. Len(Copy) = Limit
  BY Copied
<1>2. ASSUME StreamSize \/ StreamContents
      PROVE  Copy' = Copy
  <2>1. UNCHANGED <<collection, position, writes>> /\ readLimit' = Limit
    BY <1>2 DEF StreamSize, StreamContents, Answers
  <2>2. Limit' = Limit
    BY <2>1, StreamBounds DEF Limit, Further
  <2> QED
    BY <2>1, <2>2, CopyStays
<1>3. ASSUME StreamSize PROVE T!Size
  BY <1>1, <1>2, <1>3 DEF StreamSize, T!Size, T!Replies, Answers
<1>4. ASSUME StreamContents PROVE T!Contents
  BY <1>2, <1>4 DEF StreamContents, T!Contents, T!Replies, Answers
<1>5. ASSUME StreamReadContents PROVE T!ReadContents
  <2>1. /\ collection' = Copy /\ Limit' = Limit
    BY <1>5 DEF StreamReadContents, Limit
  <2>2. Copy' = [i \in 1 .. Limit |-> Copy[i]]
    BY <2>1 DEF Copy
  <2>3. Copy' = Copy
    BY <2>2, StreamBounds DEF Copy
  <2> QED
    BY <1>5, <2>3 DEF StreamReadContents, T!ReadContents
<1> QED
  BY <1>3, <1>4, <1>5

LEMMA StepTape == StreamTypeOK /\ [StreamNext]_streamVars => [T!Next]_T!vars
<1> SUFFICES ASSUME StreamTypeOK, [StreamNext]_streamVars PROVE [T!Next]_T!vars
  OBVIOUS
<1>1. CASE UNCHANGED streamVars
  BY <1>1 DEF streamVars, T!vars, Copy, Limit
<1>2. CASE StreamNext
  <2>0. ~stopped
    BY <1>2 DEF StreamNext
  <2>1. ASSUME NEW x \in Item, StreamNextPut(x) \/ NextPutRefused(x) PROVE T!Next
    BY <2>0, <2>1, PutTape, RefusedTape DEF T!Next
  <2>2. ASSUME NEW n \in Moves, StreamPosition(n) \/ StreamSkip(n) PROVE T!Next
    <3>1. n \in Int /\ position + n \in Int
      BY MovesAssumption, StreamBounds
    <3>2. T!Position(n) \/ T!Skip(n)
      BY <2>2, <3>1, MoveTape DEF StreamPosition, StreamSkip, T!Position, T!Skip
    <3> QED
      BY <2>0, <3>2 DEF T!Next
  <2>3. ASSUME NEW n \in Moves \cap Nat, StreamNextMany(n) PROVE T!Next
    BY <2>0, <2>3, NextManyTape DEF T!Next
  <2>4. ASSUME StreamNext1 \/ StreamPeek \/ StreamAtEnd PROVE T!Next
    BY <2>0, <2>4, Next1Tape, LookTape DEF T!Next
  <2>5. ASSUME \/ StreamReset \/ StreamResetToStart
               \/ StreamSize \/ StreamContents \/ StreamReadContents
        PROVE  T!Next
    BY <2>0, <2>5, ResetTape, AskTape DEF T!Next
  <2> QED
    BY <1>2, <2>1, <2>2, <2>3, <2>4, <2>5 DEF StreamNext
<1> QED
  BY <1>1, <1>2

(* A stream is a tape: what was written before a move back is still there  *)
(* after it, the padding of a grown array is never read, and every message *)
(* answers what it answers of the items written, however far readLimit     *)
(* lags behind and whenever the array is replaced.                         *)
THEOREM StreamsRefine == StreamSpec => TapeSpec
<1>1. StreamTypeOK /\ [StreamNext]_streamVars => StreamTypeOK'
  BY NextTyped
<1>2. StreamSpec => T!Init /\ [][T!Next]_T!vars
  BY <1>1, InitTyped, InitTape, StepTape, PTL DEF StreamSpec
<1> QED
  BY <1>2 DEF TapeSpec, T!Spec

-----------------------------------------------------------------------------
(* Lists.                                                                  *)

LEMMA Least ==
  ASSUME NEW Marks \in SUBSET Nat, Marks # {}
  PROVE  \E m \in Marks : \A n \in Marks : m <= n
<1> DEFINE R == StrictSubsetOrdering(Nat)
           U == {0 .. n : n \in Marks}
<1>1. IsWellFoundedOn(R, FiniteSubsetsOf(Nat))
  BY FS_StrictSubsetOrderingWellFounded
<1>2. U \subseteq FiniteSubsetsOf(Nat)
  <2> SUFFICES ASSUME NEW n \in Marks PROVE 0 .. n \in FiniteSubsetsOf(Nat)
    OBVIOUS
  <2>1. IsFiniteSet(0 .. n)
    BY FS_Interval
  <2> QED BY <2>1 DEF FiniteSubsetsOf
<1>3. U # {}
  OBVIOUS
<1>4. \A s, t \in SUBSET Nat : <<s, t>> \in R <=> s \subseteq t /\ s # t
  BY DEF StrictSubsetOrdering
<1> HIDE DEF R, U
<1>5. PICK x \in U : \A y \in U : ~(<<y, x>> \in R)
  BY <1>1, <1>2, <1>3, WFMin
<1>6. PICK m \in Marks : x = 0 .. m
  BY DEF U
<1>7. \A n \in Marks : ~(n < m)
  <2> SUFFICES ASSUME NEW n \in Marks, n < m PROVE FALSE
    OBVIOUS
  <2> DEFINE A == 0 .. n
             B == 0 .. m
  <2>1. A \in U /\ B = x
    BY <1>6 DEF U
  <2>2. m \in B /\ m \notin A /\ A \subseteq B /\ A \in SUBSET Nat /\ B \in SUBSET Nat
    OBVIOUS
  <2> HIDE DEF A, B
  <2>3. <<A, B>> \in R
    BY <2>2, <1>4
  <2> QED BY <2>1, <2>3, <1>5
<1> QED BY <1>7

LinkOrNil == Link \cup {NilLink}

\* The link at a place of a sequence, NilLink at the ends.
LinkAt(q, i) == IF i \in 1 .. Len(q) THEN q[i] ELSE NilLink

Unequal(q) == \A i, j \in 1 .. Len(q) : q[i] = q[j] => i = j

\* next leads through the links of q.
Leads(q, next) == \A i \in 1 .. Len(q) : next[q[i]] = LinkAt(q, i + 1)

LEMMA Upto ==
  ASSUME NEW n \in Nat
  PROVE  Cardinality(1 .. n) = n
BY FS_Interval

LEMMA ChainIs ==
  ASSUME NEW q \in Seq(Link), NEW next, Unequal(q), Leads(q, next)
  PROVE  Chain(LinkAt(q, 1), next) = q
<1> PICK N \in Nat : N = Len(q)
  OBVIOUS
<1> DEFINE from == LinkAt(q, 1)
           Solves(f) == f = [i \in Nat |-> IF i = 0 THEN from
                                 ELSE IF f[i - 1] = NilLink THEN NilLink ELSE next[f[i - 1]]]
           g == [i \in Nat |-> LinkAt(q, i + 1)]
           Come == CHOOSE f : Solves(f)
           C == Cardinality(Link)
           J == {i \in 1 .. C : Come[i - 1] # NilLink}
<1>1. \A i \in Nat \ {0} : LinkAt(q, i + 1) = IF LinkAt(q, i) = NilLink THEN NilLink
                                              ELSE next[LinkAt(q, i)]
  BY LinkAssumption DEF LinkAt, Leads
<1>2. Solves(g)
  <2>1. \A i \in Nat : g[i] = LinkAt(q, i + 1)
    OBVIOUS
  <2> HIDE DEF g
  <2>2. \A i \in Nat \ {0} : g[i - 1] = LinkAt(q, i)
    <3> SUFFICES ASSUME NEW i \in Nat \ {0} PROVE g[i - 1] = LinkAt(q, i)
      OBVIOUS
    <3>1. i - 1 \in Nat /\ (i - 1) + 1 = i
      OBVIOUS
    <3> QED BY <2>1, <3>1
  <2>3. \A i \in Nat : g[i] = IF i = 0 THEN from
                              ELSE IF g[i - 1] = NilLink THEN NilLink ELSE next[g[i - 1]]
    <3> SUFFICES ASSUME NEW i \in Nat
                 PROVE  g[i] = IF i = 0 THEN from
                               ELSE IF g[i - 1] = NilLink THEN NilLink ELSE next[g[i - 1]]
      OBVIOUS
    <3>1. CASE i = 0
      BY <2>1, <3>1, 0 + 1 = 1
    <3>2. CASE i # 0
      BY <1>1, <2>1, <2>2, <3>2
    <3> QED BY <3>1, <3>2
  <2> USE DEF g
  <2> QED BY <2>3
<1>3. Solves(Come)
  <2> HIDE DEF Solves, g
  <2> QED BY <1>2
<1>4. \A i \in Nat : Come[i] = g[i]
  <2> DEFINE bad == {i \in Nat : Come[i] # g[i]}
  <2> SUFFICES ASSUME bad # {} PROVE FALSE
    OBVIOUS
  <2>1. PICK m \in bad : \A i \in bad : m <= i
    <3>1. bad \in SUBSET Nat
      OBVIOUS
    <3> HIDE DEF bad
    <3> QED BY <3>1, Least
  <2> HIDE DEF Come, g
  <2>2. CASE m = 0
    BY <1>2, <1>3, <2>2
  <2>3. CASE m # 0
    <3>1. m - 1 \in Nat /\ m - 1 \notin bad
      BY <2>1, <2>3
    <3>2. Come[m - 1] = g[m - 1]
      BY <3>1
    <3>3. Come[m] = IF Come[m - 1] = NilLink THEN NilLink ELSE next[Come[m - 1]]
      BY <1>3, <2>3
    <3>4. g[m] = IF g[m - 1] = NilLink THEN NilLink ELSE next[g[m - 1]]
      BY <1>2, <2>3
    <3> QED BY <3>2, <3>3, <3>4
  <2> QED BY <2>2, <2>3
<1>5. N <= C /\ C \in Nat
  <2>1. q \in Injection(1 .. N, Link)
    <3>1. q \in [1 .. N -> Link]
      OBVIOUS
    <3> QED BY <3>1 DEF Injection, IsInjective, Unequal
  <2>2. Cardinality(1 .. N) <= Cardinality(Link) /\ Cardinality(Link) \in Nat
    BY <2>1, LinkAssumption, FS_Injection, FS_CardinalityType
  <2>3. Cardinality(1 .. N) = N
    BY Upto
  <2> QED BY <2>2, <2>3
<1> HIDE DEF Come, C
<1>6. J = 1 .. N
  <2>1. \A i \in 1 .. C : Come[i - 1] # NilLink <=> i \in 1 .. N
    BY <1>4, <1>5, LinkAssumption DEF LinkAt
  <2> QED BY <2>1, <1>5
<1>7. Cardinality(J) = N
  BY <1>6, Upto
<1>8. Chain(from, next) = [i \in 1 .. Cardinality(J) |-> Come[i - 1]]
  BY DEF Chain, Come, C
<1>9. \A i \in 1 .. N : Come[i - 1] = q[i]
  BY <1>4 DEF LinkAt
<1> HIDE DEF J, from
<1>10. Chain(from, next) = [i \in 1 .. N |-> q[i]]
  BY <1>7, <1>8, <1>9
<1> QED BY <1>10 DEF from

\* The pointers are those of lists with the sequences s.
Reads(s, first, last, prev, next) ==
    /\ \A l \in List : first[l] = LinkAt(s[l], 1) /\ last[l] = LinkAt(s[l], Len(s[l]))
    /\ \A l \in List : \A i \in 1 .. Len(s[l]) :
          next[s[l][i]] = LinkAt(s[l], i + 1) /\ prev[s[l][i]] = LinkAt(s[l], i - 1)
    /\ \A l, m \in List : \A i \in 1 .. Len(s[l]), j \in 1 .. Len(s[m]) :
          s[l][i] = s[m][j] => l = m /\ i = j
    /\ \A x \in Link : (\A l \in List : \A i \in 1 .. Len(s[l]) : s[l][i] # x) =>
          prev[x] = NilLink /\ next[x] = NilLink
    /\ first \in [List -> LinkOrNil] /\ last \in [List -> LinkOrNil]
    /\ prev \in [Link -> LinkOrNil] /\ next \in [Link -> LinkOrNil]

Sequence == [List -> Seq(Link)]

LEMMA ReadsAs ==
  ASSUME NEW s \in Sequence, NEW first, NEW last, NEW prev, NEW next,
         Reads(s, first, last, prev, next), NEW l \in List
  PROVE  Chain(first[l], next) = s[l] /\ Q!Reverse(Chain(last[l], prev)) = s[l]
<1> DEFINE q == s[l]
           r == [i \in 1 .. Len(q) |-> q[Len(q) - i + 1]]
<1>1. q \in Seq(Link)
  BY DEF Sequence
<1>2. /\ first[l] = LinkAt(q, 1) /\ last[l] = LinkAt(q, Len(q)) /\ Unequal(q)
      /\ \A i \in 1 .. Len(q) : next[q[i]] = LinkAt(q, i + 1) /\ prev[q[i]] = LinkAt(q, i - 1)
  BY DEF Reads, Unequal
<1> HIDE DEF q
<1> PICK n \in Nat : n = Len(q)
  BY <1>1
<1>3. Chain(first[l], next) = q
  BY <1>1, <1>2, ChainIs DEF Leads
<1>4. r \in Seq(Link) /\ Len(r) = n /\ \A i \in 1 .. n : r[i] = q[n - i + 1]
  BY <1>1
<1> HIDE DEF r
<1>5. Unequal(r)
  <2> SUFFICES ASSUME NEW i \in 1 .. n, NEW j \in 1 .. n, r[i] = r[j] PROVE i = j
    BY <1>4 DEF Unequal
  <2>1. n - i + 1 \in 1 .. n /\ n - j + 1 \in 1 .. n
    OBVIOUS
  <2>2. q[n - i + 1] = q[n - j + 1]
    BY <1>4
  <2> DEFINE a == n - i + 1
             b == n - j + 1
  <2> HIDE DEF a, b
  <2>3. q[a] = q[b] /\ a \in 1 .. n /\ b \in 1 .. n
    BY <2>1, <2>2 DEF a, b
  <2>4. a = b
    BY <1>2, <2>3 DEF Unequal
  <2> QED BY <2>4 DEF a, b
<1>6. Leads(r, prev)
  <2> SUFFICES ASSUME NEW i \in 1 .. n PROVE prev[r[i]] = LinkAt(r, i + 1)
    BY <1>4 DEF Leads
  <2>1. n - i + 1 \in 1 .. n
    OBVIOUS
  <2>2. prev[r[i]] = LinkAt(q, n - i)
    BY <1>2, <1>4, <2>1, (n - i + 1) - 1 = n - i
  <2>3. LinkAt(r, i + 1) = LinkAt(q, n - i)
    <3>1. CASE i = n
      BY <1>4, <3>1 DEF LinkAt
    <3>2. CASE i # n
      <4>1. i + 1 \in 1 .. n /\ n - i \in 1 .. n /\ n - (i + 1) + 1 = n - i
        BY <3>2
      <4> QED BY <1>4, <4>1 DEF LinkAt
    <3> QED BY <3>1, <3>2
  <2> QED BY <2>2, <2>3
<1>7. LinkAt(r, 1) = LinkAt(q, n)
  <2>1. CASE n = 0
    BY <1>4, <2>1 DEF LinkAt
  <2>2. CASE n # 0
    <3>1. 1 \in 1 .. n /\ n \in 1 .. n /\ n - 1 + 1 = n
      BY <2>2
    <3> QED BY <1>4, <3>1 DEF LinkAt
  <2> QED BY <2>1, <2>2
<1>8. Chain(last[l], prev) = r
  BY <1>2, <1>4, <1>5, <1>6, <1>7, ChainIs
<1>9. Q!Reverse(r) = q
  <2>1. Q!Reverse(r) = [i \in 1 .. n |-> r[n - i + 1]]
    BY <1>4 DEF Q!Reverse
  <2>2. \A i \in 1 .. n : r[n - i + 1] = q[i]
    <3> SUFFICES ASSUME NEW i \in 1 .. n PROVE r[n - i + 1] = q[i]
      OBVIOUS
    <3>1. n - i + 1 \in 1 .. n /\ n - (n - i + 1) + 1 = i
      OBVIOUS
    <3> QED BY <1>4, <3>1
  <2>3. Q!Reverse(r) = [i \in 1 .. n |-> q[i]]
    BY <2>1, <2>2
  <2> QED BY <1>1, <2>3
<1> QED BY <1>3, <1>8, <1>9 DEF q

-----------------------------------------------------------------------------
\* A link coming in before place p, and the link of place p going out.
WithLink(q, p, x) == [i \in 1 .. Len(q) + 1 |-> IF i < p THEN q[i] ELSE IF i = p THEN x ELSE q[i - 1]]
WithoutLink(q, p) == [i \in 1 .. Len(q) - 1 |-> IF i < p THEN q[i] ELSE q[i + 1]]

\* Where the link of place i is afterwards.
Pushed(i, p) == IF i < p THEN i ELSE i + 1
Pulled(i, p) == IF i < p THEN i ELSE i - 1

LEMMA WithLinkAt ==
  ASSUME NEW q \in Seq(Link), NEW p \in 1 .. Len(q) + 1, NEW x \in Link
  PROVE  /\ WithLink(q, p, x) \in Seq(Link) /\ Len(WithLink(q, p, x)) = Len(q) + 1
         /\ WithLink(q, p, x)[p] = x
         /\ \A i \in 1 .. Len(q) : /\ Pushed(i, p) \in 1 .. Len(q) + 1 /\ Pushed(i, p) # p
                                   /\ WithLink(q, p, x)[Pushed(i, p)] = q[i]
         /\ \A j \in 1 .. Len(q) + 1 : j # p => /\ Pulled(j, p) \in 1 .. Len(q)
                                                /\ WithLink(q, p, x)[j] = q[Pulled(j, p)]
<1> PICK n \in Nat : n = Len(q)
  OBVIOUS
<1> DEFINE r == WithLink(q, p, x)
<1>1. \A i \in 1 .. n + 1 : (IF i < p THEN q[i] ELSE IF i = p THEN x ELSE q[i - 1]) \in Link
  OBVIOUS
<1>2. r = [i \in 1 .. n + 1 |-> IF i < p THEN q[i] ELSE IF i = p THEN x ELSE q[i - 1]]
  BY DEF WithLink
<1>3. r \in Seq(Link) /\ Len(r) = n + 1
  BY <1>1, <1>2
<1>4. \A i \in 1 .. n + 1 : r[i] = IF i < p THEN q[i] ELSE IF i = p THEN x ELSE q[i - 1]
  BY <1>2
<1> HIDE DEF r
<1>5. r[p] = x
  BY <1>4
<1>6. ASSUME NEW i \in 1 .. n
      PROVE  Pushed(i, p) \in 1 .. n + 1 /\ Pushed(i, p) # p /\ r[Pushed(i, p)] = q[i]
  <2>1. CASE i < p
    BY <1>4, <2>1 DEF Pushed
  <2>2. CASE ~(i < p)
    <3>1. i + 1 \in 1 .. n + 1 /\ ~(i + 1 < p) /\ i + 1 # p /\ (i + 1) - 1 = i
      BY <2>2
    <3> QED BY <1>4, <2>2, <3>1 DEF Pushed
  <2> QED BY <2>1, <2>2
<1>7. ASSUME NEW j \in 1 .. n + 1, j # p
      PROVE  Pulled(j, p) \in 1 .. n /\ r[j] = q[Pulled(j, p)]
  BY <1>4, <1>7 DEF Pulled
<1> QED BY <1>3, <1>5, <1>6, <1>7 DEF r

LEMMA WithLinkIs ==
  ASSUME NEW q \in Seq(Link), NEW p \in 1 .. Len(q) + 1, NEW x \in Link
  PROVE  /\ WithLink(q, p, x) \in Seq(Link) /\ Len(WithLink(q, p, x)) = Len(q) + 1
         /\ WithLink(q, p, x)[p] = x
BY WithLinkAt

LEMMA WithLinkMoves ==
  ASSUME NEW q \in Seq(Link), NEW p \in 1 .. Len(q) + 1, NEW x \in Link, NEW i \in 1 .. Len(q)
  PROVE  Pushed(i, p) \in 1 .. Len(q) + 1 /\ WithLink(q, p, x)[Pushed(i, p)] = q[i]
BY WithLinkAt

LEMMA WithLinkThere ==
  ASSUME NEW q \in Seq(Link), NEW p \in 1 .. Len(q) + 1, NEW x \in Link,
         NEW j \in 1 .. Len(q) + 1, j # p
  PROVE  Pulled(j, p) \in 1 .. Len(q) /\ WithLink(q, p, x)[j] = q[Pulled(j, p)]
BY WithLinkAt

LEMMA WithoutLinkAt ==
  ASSUME NEW q \in Seq(Link), NEW p \in 1 .. Len(q)
  PROVE  /\ WithoutLink(q, p) \in Seq(Link) /\ Len(WithoutLink(q, p)) = Len(q) - 1
         /\ \A i \in 1 .. Len(q) - 1 : /\ Pushed(i, p) \in 1 .. Len(q) /\ Pushed(i, p) # p
                                       /\ WithoutLink(q, p)[i] = q[Pushed(i, p)]
         /\ \A j \in 1 .. Len(q) : j # p => /\ Pulled(j, p) \in 1 .. Len(q) - 1
                                            /\ WithoutLink(q, p)[Pulled(j, p)] = q[j]
         /\ Q!RemoveAt(q, p) = WithoutLink(q, p)
<1> PICK n \in Nat : n = Len(q)
  OBVIOUS
<1> DEFINE r == WithoutLink(q, p)
           a == SubSeq(q, 1, p - 1)
           b == SubSeq(q, p + 1, n)
<1>1. \A i \in 1 .. n - 1 : (IF i < p THEN q[i] ELSE q[i + 1]) \in Link
  OBVIOUS
<1>2. r = [i \in 1 .. n - 1 |-> IF i < p THEN q[i] ELSE q[i + 1]]
  BY DEF WithoutLink
<1>3. r \in Seq(Link) /\ Len(r) = n - 1
  BY <1>1, <1>2
<1>4. \A i \in 1 .. n - 1 : r[i] = IF i < p THEN q[i] ELSE q[i + 1]
  BY <1>2
<1> HIDE DEF r
<1>5. ASSUME NEW i \in 1 .. n - 1
      PROVE  Pushed(i, p) \in 1 .. n /\ Pushed(i, p) # p /\ r[i] = q[Pushed(i, p)]
  BY <1>4 DEF Pushed
<1>6. ASSUME NEW j \in 1 .. n, j # p
      PROVE  Pulled(j, p) \in 1 .. n - 1 /\ r[Pulled(j, p)] = q[j]
  <2>1. CASE j < p
    BY <1>4, <2>1 DEF Pulled
  <2>2. CASE ~(j < p)
    <3>1. j - 1 \in 1 .. n - 1 /\ ~(j - 1 < p) /\ (j - 1) + 1 = j
      BY <1>6, <2>2
    <3> QED BY <1>4, <2>2, <3>1 DEF Pulled
  <2> QED BY <2>1, <2>2
<1>7. a \in Seq(Link) /\ Len(a) = p - 1 /\ \A j \in 1 .. p - 1 : a[j] = q[j]
  BY SubSeqProperties
<1>8. b \in Seq(Link) /\ Len(b) = n - p /\ \A j \in 1 .. n - p : b[j] = q[j + p]
  BY SubSeqProperties
<1> HIDE DEF a, b
<1>9. a \o b = r
  <2>1. /\ a \o b \in Seq(Link) /\ Len(a \o b) = n - 1
        /\ \A i \in 1 .. n - 1 : (a \o b)[i] = IF i <= p - 1 THEN a[i] ELSE b[i - (p - 1)]
    <3>1. /\ a \o b \in Seq(Link) /\ Len(a \o b) = Len(a) + Len(b)
          /\ \A i \in 1 .. Len(a) + Len(b) : (a \o b)[i] = IF i <= Len(a) THEN a[i] ELSE b[i - Len(a)]
      BY <1>7, <1>8, ConcatProperties
    <3>2. Len(a) + Len(b) = n - 1
      BY <1>7, <1>8
    <3> QED BY <1>7, <3>1, <3>2
  <2>2. \A i \in 1 .. n - 1 : (a \o b)[i] = r[i]
    <3> SUFFICES ASSUME NEW i \in 1 .. n - 1 PROVE (a \o b)[i] = r[i]
      OBVIOUS
    <3>1. CASE i < p
      BY <1>4, <1>7, <2>1, <3>1
    <3>2. CASE ~(i < p)
      <4>1. i - (p - 1) \in 1 .. n - p /\ (i - (p - 1)) + p = i + 1 /\ ~(i <= p - 1)
        BY <3>2
      <4> QED BY <1>4, <1>8, <2>1, <3>2, <4>1
    <3> QED BY <3>1, <3>2
  <2> HIDE DEF r
  <2> QED BY <1>3, <2>1, <2>2, SeqEqual
<1>10. Q!RemoveAt(q, p) = a \o b
  BY DEF Q!RemoveAt, a, b
<1> QED BY <1>3, <1>5, <1>6, <1>9, <1>10 DEF r

\* What coming in before place p of list l does to the pointers ...
EntersAt(s, l, p, x, first, last, prev, next, first2, last2, prev2, next2) ==
    /\ first2 = [first EXCEPT ![l] = IF p = 1 THEN x ELSE first[l]]
    /\ last2 = [last EXCEPT ![l] = IF p = Len(s[l]) + 1 THEN x ELSE last[l]]
    /\ prev2 \in [Link -> LinkOrNil] /\ next2 \in [Link -> LinkOrNil]
    /\ \A y \in Link :
          /\ next2[y] = IF y = x THEN LinkAt(s[l], p) ELSE IF y = LinkAt(s[l], p - 1) THEN x ELSE next[y]
          /\ prev2[y] = IF y = x THEN LinkAt(s[l], p - 1) ELSE IF y = LinkAt(s[l], p) THEN x ELSE prev[y]

\* ... and what going out from place p of list l does.
LeavesFrom(s, l, p, first, last, prev, next, first2, last2, prev2, next2) ==
    /\ first2 = [first EXCEPT ![l] = IF p = 1 THEN LinkAt(s[l], 2) ELSE first[l]]
    /\ last2 = [last EXCEPT ![l] = IF p = Len(s[l]) THEN LinkAt(s[l], p - 1) ELSE last[l]]
    /\ prev2 \in [Link -> LinkOrNil] /\ next2 \in [Link -> LinkOrNil]
    /\ \A y \in Link :
          /\ next2[y] = IF y = s[l][p] THEN NilLink
                        ELSE IF y = LinkAt(s[l], p - 1) THEN LinkAt(s[l], p + 1) ELSE next[y]
          /\ prev2[y] = IF y = s[l][p] THEN NilLink
                        ELSE IF y = LinkAt(s[l], p + 1) THEN LinkAt(s[l], p - 1) ELSE prev[y]

Unlisted(s, x) == \A l \in List : \A i \in 1 .. Len(s[l]) : s[l][i] # x

LEMMA Entering ==
  ASSUME NEW s \in Sequence, NEW first, NEW last, NEW prev, NEW next,
         Reads(s, first, last, prev, next),
         NEW l \in List, NEW p \in 1 .. Len(s[l]) + 1, NEW x \in Link, Unlisted(s, x),
         NEW first2, NEW last2, NEW prev2, NEW next2,
         EntersAt(s, l, p, x, first, last, prev, next, first2, last2, prev2, next2)
  PROVE  /\ [s EXCEPT ![l] = WithLink(s[l], p, x)] \in Sequence
         /\ Reads([s EXCEPT ![l] = WithLink(s[l], p, x)], first2, last2, prev2, next2)
<1> DEFINE q == s[l]
           r == WithLink(q, p, x)
           t == [s EXCEPT ![l] = r]
<1>1. q \in Seq(Link) /\ s \in [List -> Seq(Link)] /\ q = s[l] /\ p \in 1 .. Len(q) + 1
  BY DEF Sequence
<1> HIDE DEF q
<1> PICK n \in Nat : n = Len(q) /\ p \in 1 .. n + 1 /\ q = s[l]
  BY <1>1
<1>2. /\ r \in Seq(Link) /\ Len(r) = n + 1 /\ r[p] = x
      /\ \A j \in 1 .. n + 1 : j # p => Pulled(j, p) \in 1 .. n /\ r[j] = q[Pulled(j, p)]
      /\ \A i \in 1 .. n : \E j \in 1 .. n + 1 : r[j] = q[i]
  <2> HIDE DEF r
  <2>1. r = WithLink(q, p, x)
    BY DEF r
  <2>2. r \in Seq(Link) /\ Len(r) = n + 1 /\ r[p] = x
    BY <1>1, <2>1, WithLinkIs
  <2>3. \A j \in 1 .. n + 1 : j # p => Pulled(j, p) \in 1 .. n /\ r[j] = q[Pulled(j, p)]
    <3> SUFFICES ASSUME NEW j \in 1 .. n + 1, j # p
                 PROVE  Pulled(j, p) \in 1 .. n /\ r[j] = q[Pulled(j, p)]
      OBVIOUS
    <3> QED BY <1>1, <2>1, WithLinkThere
  <2>4. \A i \in 1 .. n : \E j \in 1 .. n + 1 : r[j] = q[i]
    <3> SUFFICES ASSUME NEW i \in 1 .. n PROVE \E j \in 1 .. n + 1 : r[j] = q[i]
      OBVIOUS
    <3> DEFINE j == Pushed(i, p)
    <3>1. j \in 1 .. n + 1 /\ r[j] = q[i]
      BY <1>1, <2>1, WithLinkMoves
    <3> HIDE DEF j
    <3> QED BY <3>1
  <2> QED BY <2>2, <2>3, <2>4
<1> HIDE DEF r
<1>3. t \in Sequence /\ t[l] = r /\ \A m \in List : m # l => t[m] = s[m]
  BY <1>1, <1>2 DEF Sequence
<1> HIDE DEF t
<1>4. first2 \in [List -> LinkOrNil] /\ last2 \in [List -> LinkOrNil]
  BY DEF EntersAt, Reads, LinkOrNil
<1>5. ASSUME NEW m \in List
      PROVE  first2[m] = LinkAt(t[m], 1) /\ last2[m] = LinkAt(t[m], Len(t[m]))
  <2>1. CASE m # l
    BY <1>3, <2>1 DEF EntersAt, Reads
  <2>2. CASE m = l
    <3>1. first2[l] = IF p = 1 THEN x ELSE LinkAt(q, 1)
      BY <1>1 DEF EntersAt, Reads
    <3>2. last2[l] = IF p = n + 1 THEN x ELSE LinkAt(q, n)
      BY <1>1 DEF EntersAt, Reads
    <3>3. LinkAt(r, 1) = r[1] /\ LinkAt(r, n + 1) = r[n + 1]
      BY <1>2 DEF LinkAt
    <3>4. p # 1 => r[1] = LinkAt(q, 1)
      <4> SUFFICES ASSUME p # 1 PROVE r[1] = LinkAt(q, 1)
        OBVIOUS
      <4>1. 1 \in 1 .. n /\ Pulled(1, p) = 1
        BY DEF Pulled
      <4>2. 1 \in 1 .. n + 1 /\ 1 \in 1 .. Len(q)
        BY <4>1
      <4>3. r[1] = q[1]
        BY <1>2, <4>1, <4>2
      <4> QED BY <4>2, <4>3 DEF LinkAt
    <3>5. p # n + 1 => r[n + 1] = LinkAt(q, n)
      <4> SUFFICES ASSUME p # n + 1 PROVE r[n + 1] = LinkAt(q, n)
        OBVIOUS
      <4>1. n \in 1 .. n /\ Pulled(n + 1, p) = n
        BY DEF Pulled
      <4>2. n + 1 \in 1 .. n + 1 /\ n \in 1 .. Len(q)
        BY <4>1
      <4>3. r[n + 1] = q[n]
        BY <1>2, <4>1, <4>2
      <4> QED BY <4>2, <4>3 DEF LinkAt
    <3> QED BY <1>2, <1>3, <2>2, <3>1, <3>2, <3>3, <3>4, <3>5
  <2> QED BY <2>1, <2>2
<1>6. /\ \A i \in 1 .. n : q[i] # x /\ q[i] \in Link
      /\ \A i, j \in 1 .. n : q[i] = q[j] => i = j
      /\ \A i \in 1 .. n : next[q[i]] = LinkAt(q, i + 1) /\ prev[q[i]] = LinkAt(q, i - 1)
  <2>1. \A i \in 1 .. n : q[i] # x /\ q[i] \in Link
    BY <1>1 DEF Unlisted
  <2>2. \A i, j \in 1 .. n : q[i] = q[j] => i = j
    BY <1>1 DEF Reads
  <2>3. \A i \in 1 .. n : next[q[i]] = LinkAt(q, i + 1) /\ prev[q[i]] = LinkAt(q, i - 1)
    BY <1>1 DEF Reads
  <2> QED BY <2>1, <2>2, <2>3
<1>7. \A y \in Link :
         /\ next2[y] = IF y = x THEN LinkAt(q, p) ELSE IF y = LinkAt(q, p - 1) THEN x ELSE next[y]
         /\ prev2[y] = IF y = x THEN LinkAt(q, p - 1) ELSE IF y = LinkAt(q, p) THEN x ELSE prev[y]
  BY <1>1 DEF EntersAt
<1>8. \A m \in List : \A i \in 1 .. Len(s[m]) :
         m # l => \A j \in 1 .. n : s[m][i] # q[j]
  BY <1>1 DEF Reads
<1>9. NilLink \notin Link
  BY LinkAssumption
<1>10. ASSUME NEW m \in List, m # l, NEW i \in 1 .. Len(t[m])
       PROVE  next2[t[m][i]] = LinkAt(t[m], i + 1) /\ prev2[t[m][i]] = LinkAt(t[m], i - 1)
  <2>1. t[m] = s[m] /\ t[m][i] \in Link /\ t[m][i] # x
    BY <1>1, <1>3, <1>10 DEF Unlisted
  <2>2. t[m][i] # LinkAt(q, p - 1) /\ t[m][i] # LinkAt(q, p)
    BY <1>8, <1>9, <1>10, <2>1 DEF LinkAt
  <2>3. next[s[m][i]] = LinkAt(s[m], i + 1) /\ prev[s[m][i]] = LinkAt(s[m], i - 1)
    BY <2>1 DEF Reads
  <2> QED BY <1>7, <2>1, <2>2, <2>3
<1>11. ASSUME NEW i \in 1 .. n + 1
       PROVE  next2[r[i]] = LinkAt(r, i + 1) /\ prev2[r[i]] = LinkAt(r, i - 1)
  <2>1. CASE i = p
    <3>1. LinkAt(r, p + 1) = LinkAt(q, p)
      <4>1. CASE p = n + 1
        BY <1>2, <4>1 DEF LinkAt
      <4>2. CASE p # n + 1
        <5>1. p \in 1 .. n /\ p + 1 \in 1 .. n + 1 /\ Pulled(p + 1, p) = p /\ p + 1 # p
          BY <4>2 DEF Pulled
        <5> QED BY <1>2, <5>1 DEF LinkAt
      <4> QED BY <4>1, <4>2
    <3>2. LinkAt(r, p - 1) = LinkAt(q, p - 1)
      <4>1. CASE p = 1
        BY <4>1 DEF LinkAt
      <4>2. CASE p # 1
        <5> DEFINE o == p - 1
        <5>1. o \in 1 .. n /\ o \in 1 .. n + 1 /\ Pulled(o, p) = o /\ o # p
          BY <4>2 DEF Pulled
        <5> HIDE DEF o
        <5>2. r[o] = q[o]
          BY <1>2, <5>1
        <5>3. LinkAt(r, o) = LinkAt(q, o)
          BY <1>2, <5>1, <5>2 DEF LinkAt
        <5> QED BY <5>3 DEF o
      <4> QED BY <4>1, <4>2
    <3> QED BY <1>2, <1>7, <2>1, <3>1, <3>2
  <2>2. CASE i # p
    <3> DEFINE k == Pulled(i, p)
    <3>1. k \in 1 .. n /\ r[i] = q[k] /\ (i < p => k = i) /\ (i > p => k = i - 1)
      BY <1>2, <2>2 DEF Pulled
    <3> HIDE DEF k
    <3>2. q[k] # x /\ q[k] \in Link /\ next[q[k]] = LinkAt(q, k + 1) /\ prev[q[k]] = LinkAt(q, k - 1)
      BY <1>6, <3>1
    <3>3. q[k] = LinkAt(q, p - 1) <=> i = p - 1
      <4>1. p - 1 \in 1 .. n => (q[k] = q[p - 1] <=> k = p - 1)
        BY <1>6, <3>1
      <4>2. k = p - 1 <=> i = p - 1
        BY <2>2, <3>1
      <4> QED BY <1>9, <3>1, <3>2, <4>1, <4>2 DEF LinkAt
    <3>4. q[k] = LinkAt(q, p) <=> i = p + 1
      <4>1. p \in 1 .. n => (q[k] = q[p] <=> k = p)
        BY <1>6, <3>1
      <4>2. k = p <=> i = p + 1
        BY <2>2, <3>1
      <4> QED BY <1>9, <3>1, <3>2, <4>1, <4>2 DEF LinkAt
    <3>5. i # p - 1 => LinkAt(r, i + 1) = LinkAt(q, k + 1)
      <4> SUFFICES ASSUME i # p - 1 PROVE LinkAt(r, i + 1) = LinkAt(q, k + 1)
        OBVIOUS
      <4>1. i + 1 \in 1 .. n + 1 <=> k + 1 \in 1 .. n
        BY <2>2, <3>1
      <4>2. i + 1 # p /\ Pulled(i + 1, p) = k + 1
        BY <2>2, <3>1 DEF Pulled
      <4> QED BY <1>2, <4>1, <4>2 DEF LinkAt
    <3>6. i # p + 1 => LinkAt(r, i - 1) = LinkAt(q, k - 1)
      <4> SUFFICES ASSUME i # p + 1 PROVE LinkAt(r, i - 1) = LinkAt(q, k - 1)
        OBVIOUS
      <4>1. i - 1 \in 1 .. n + 1 <=> k - 1 \in 1 .. n
        BY <2>2, <3>1
      <4>2. i - 1 # p /\ Pulled(i - 1, p) = k - 1
        BY <2>2, <3>1 DEF Pulled
      <4> DEFINE j == i - 1
      <4>3. j \in 1 .. n + 1 => r[j] = q[k - 1]
        BY <1>2, <4>2
      <4> HIDE DEF j
      <4>4. j \in 1 .. Len(r) <=> k - 1 \in 1 .. Len(q)
        BY <1>2, <4>1 DEF j
      <4>5. LinkAt(r, j) = LinkAt(q, k - 1)
        BY <1>2, <4>3, <4>4 DEF LinkAt
      <4> QED BY <4>5 DEF j
    <3>7. LinkAt(r, p) = x
      BY <1>2 DEF LinkAt
    <3> QED BY <1>7, <3>1, <3>2, <3>3, <3>4, <3>5, <3>6, <3>7
  <2> QED BY <2>1, <2>2
<1>12. ASSUME NEW m \in List, NEW o \in List, NEW i \in 1 .. Len(t[m]), NEW j \in 1 .. Len(t[o]),
              t[m][i] = t[o][j]
       PROVE  m = o /\ i = j
  <2>1. \A i1 \in 1 .. n + 1, j1 \in 1 .. n + 1 : r[i1] = r[j1] => i1 = j1
    <3> SUFFICES ASSUME NEW i1 \in 1 .. n + 1, NEW j1 \in 1 .. n + 1, r[i1] = r[j1] PROVE i1 = j1
      OBVIOUS
    <3> DEFINE k == Pulled(i1, p)
               h == Pulled(j1, p)
    <3>1. i1 # p => k \in 1 .. n /\ r[i1] = q[k]
      BY <1>2
    <3>2. j1 # p => h \in 1 .. n /\ r[j1] = q[h]
      BY <1>2
    <3>3. i1 # p /\ j1 # p /\ k = h => i1 = j1
      BY DEF Pulled
    <3> HIDE DEF k, h
    <3>4. CASE i1 # p /\ j1 # p
      <4>1. q[k] = q[h]
        BY <3>1, <3>2, <3>4
      <4>2. k = h
        BY <1>6, <3>1, <3>2, <3>4, <4>1
      <4> QED BY <3>3, <3>4, <4>2
    <3>5. r[p] = x
      BY <1>2
    <3>6. CASE i1 = p /\ j1 # p
      BY <1>6, <3>2, <3>5, <3>6
    <3>7. CASE j1 = p /\ i1 # p
      BY <1>6, <3>1, <3>5, <3>7
    <3> QED BY <3>4, <3>6, <3>7
  <2>2. \A m1 \in List : \A i1 \in 1 .. Len(s[m1]), j1 \in 1 .. n + 1 : m1 # l => s[m1][i1] # r[j1]
    <3> SUFFICES ASSUME NEW m1 \in List, NEW i1 \in 1 .. Len(s[m1]), NEW j1 \in 1 .. n + 1, m1 # l
                 PROVE  s[m1][i1] # r[j1]
      OBVIOUS
    <3> DEFINE h == Pulled(j1, p)
    <3>1. j1 # p => h \in 1 .. n /\ r[j1] = q[h]
      BY <1>2
    <3>2. s[m1][i1] # x
      BY DEF Unlisted
    <3> HIDE DEF h
    <3>3. CASE j1 = p
      BY <1>2, <3>2, <3>3
    <3>4. CASE j1 # p
      BY <1>8, <3>1, <3>4
    <3> QED BY <3>3, <3>4
  <2>3. CASE m # l /\ o # l
    <3>1. t[m] = s[m] /\ t[o] = s[o]
      BY <1>3, <2>3
    <3> QED BY <1>12, <3>1 DEF Reads
  <2>4. CASE m = l /\ o = l
    BY <1>2, <1>3, <1>12, <2>1, <2>4
  <2>5. CASE m # l /\ o = l
    <3>1. t[m] = s[m] /\ t[o] = r
      BY <1>3, <2>5
    <3> QED BY <1>2, <1>12, <2>2, <2>5, <3>1
  <2>6. CASE m = l /\ o # l
    <3>1. t[m] = r /\ t[o] = s[o]
      BY <1>3, <2>6
    <3> QED BY <1>2, <1>12, <2>2, <2>6, <3>1
  <2> QED BY <2>3, <2>4, <2>5, <2>6
<1>13. ASSUME NEW y \in Link, \A m \in List : \A i \in 1 .. Len(t[m]) : t[m][i] # y
       PROVE  prev2[y] = NilLink /\ next2[y] = NilLink
  <2>1. y # x
    BY <1>2, <1>3, <1>13
  <2>2. \A i \in 1 .. n : q[i] # y
    <3>1. \A j \in 1 .. n + 1 : r[j] # y
      BY <1>2, <1>3, <1>13
    <3> SUFFICES ASSUME NEW i \in 1 .. n PROVE q[i] # y
      OBVIOUS
    <3>2. PICK j \in 1 .. n + 1 : r[j] = q[i]
      BY <1>2
    <3> QED BY <3>1, <3>2
  <2>3. \A m \in List : \A i \in 1 .. Len(s[m]) : s[m][i] # y
    BY <1>3, <1>13, <2>2
  <2>4. prev[y] = NilLink /\ next[y] = NilLink
    BY <2>3 DEF Reads
  <2>5. y # LinkAt(q, p - 1) /\ y # LinkAt(q, p)
    BY <1>9, <2>2 DEF LinkAt
  <2> QED BY <1>7, <2>1, <2>4, <2>5
<1>14. prev2 \in [Link -> LinkOrNil] /\ next2 \in [Link -> LinkOrNil]
  BY DEF EntersAt
<1>15. \A m \in List : \A i \in 1 .. Len(t[m]) :
          next2[t[m][i]] = LinkAt(t[m], i + 1) /\ prev2[t[m][i]] = LinkAt(t[m], i - 1)
  BY <1>2, <1>3, <1>10, <1>11
<1>16. Reads(t, first2, last2, prev2, next2)
  BY <1>4, <1>5, <1>12, <1>13, <1>14, <1>15 DEF Reads
<1> QED BY <1>3, <1>16 DEF t, r, q

LEMMA Leaving ==
  ASSUME NEW s \in Sequence, NEW first, NEW last, NEW prev, NEW next,
         Reads(s, first, last, prev, next),
         NEW l \in List, NEW p \in 1 .. Len(s[l]),
         NEW first2, NEW last2, NEW prev2, NEW next2,
         LeavesFrom(s, l, p, first, last, prev, next, first2, last2, prev2, next2)
  PROVE  /\ [s EXCEPT ![l] = WithoutLink(s[l], p)] \in Sequence
         /\ Reads([s EXCEPT ![l] = WithoutLink(s[l], p)], first2, last2, prev2, next2)
<1> DEFINE q == s[l]
           r == WithoutLink(q, p)
           t == [s EXCEPT ![l] = r]
           x == q[p]
<1>1. q \in Seq(Link) /\ s \in [List -> Seq(Link)] /\ q = s[l] /\ p \in 1 .. Len(q)
  BY DEF Sequence
<1> HIDE DEF q, x
<1> PICK n \in Nat : n = Len(q) /\ p \in 1 .. n /\ q = s[l]
  BY <1>1
<1>0. p \in Nat /\ 1 <= p /\ p <= n /\ Len(s[l]) = n
  OBVIOUS
<1>2. /\ r \in Seq(Link) /\ Len(r) = n - 1
      /\ \A i \in 1 .. n - 1 : Pushed(i, p) \in 1 .. n /\ Pushed(i, p) # p /\ r[i] = q[Pushed(i, p)]
  <2> HIDE DEF r
  <2>1. r = WithoutLink(q, p)
    BY DEF r
  <2>2. r \in Seq(Link) /\ Len(r) = n - 1
    BY <1>1, <2>1, WithoutLinkAt
  <2>3. \A i \in 1 .. n - 1 : Pushed(i, p) \in 1 .. n /\ Pushed(i, p) # p /\ r[i] = q[Pushed(i, p)]
    BY <1>1, <2>1, WithoutLinkAt
  <2> QED BY <2>2, <2>3
<1>3. \A j \in 1 .. n : j # p => \E i \in 1 .. n - 1 : r[i] = q[j]
  <2> HIDE DEF r
  <2> SUFFICES ASSUME NEW j \in 1 .. n, j # p PROVE \E i \in 1 .. n - 1 : r[i] = q[j]
    OBVIOUS
  <2>1. r = WithoutLink(q, p)
    BY DEF r
  <2> DEFINE i == Pulled(j, p)
  <2>2. i \in 1 .. n - 1 /\ r[i] = q[j]
    BY <1>1, <2>1, WithoutLinkAt
  <2> HIDE DEF i
  <2> QED BY <2>2
<1> HIDE DEF r
<1>4. t \in Sequence /\ t[l] = r /\ \A m \in List : m # l => t[m] = s[m]
  BY <1>1, <1>2 DEF Sequence
<1> HIDE DEF t
<1>5. first2 \in [List -> LinkOrNil] /\ last2 \in [List -> LinkOrNil]
  <2>1. LinkAt(q, 2) \in LinkOrNil /\ LinkAt(q, p - 1) \in LinkOrNil
    BY <1>1 DEF LinkAt, LinkOrNil
  <2>2. first \in [List -> LinkOrNil] /\ last \in [List -> LinkOrNil]
    BY DEF Reads
  <2> QED BY <1>1, <2>1, <2>2 DEF LeavesFrom
<1>6. ASSUME NEW m \in List
      PROVE  first2[m] = LinkAt(t[m], 1) /\ last2[m] = LinkAt(t[m], Len(t[m]))
  <2>1. CASE m # l
    BY <1>4, <2>1 DEF LeavesFrom, Reads
  <2>2. CASE m = l
    <3>1. first2[l] = IF p = 1 THEN LinkAt(q, 2) ELSE LinkAt(q, 1)
      BY <1>1 DEF LeavesFrom, Reads
    <3>2. last2[l] = IF p = n THEN LinkAt(q, p - 1) ELSE LinkAt(q, n)
      BY <1>1 DEF LeavesFrom, Reads
    <3>3. LinkAt(r, 1) = IF p = 1 THEN LinkAt(q, 2) ELSE LinkAt(q, 1)
      <4>1. CASE n = 1
        <5>1. p = 1 /\ Len(r) = 0 /\ Len(q) = 1
          BY <1>0, <1>2, <4>1
        <5> QED BY <4>1, <5>1 DEF LinkAt
      <4>2. CASE n # 1
        <5>1. 1 \in 1 .. n - 1 /\ 1 \in 1 .. n /\ 2 \in 1 .. n
          BY <1>0, <4>2
        <5>2. Pushed(1, p) = IF p = 1 THEN 2 ELSE 1
          BY DEF Pushed
        <5> QED BY <1>2, <5>1, <5>2 DEF LinkAt
      <4> QED BY <4>1, <4>2
    <3>4. LinkAt(r, n - 1) = IF p = n THEN LinkAt(q, p - 1) ELSE LinkAt(q, n)
      <4>1. CASE n = 1
        <5>1. p = 1 /\ Len(r) = 0 /\ Len(q) = 1
          BY <1>0, <1>2, <4>1
        <5> QED BY <4>1, <5>1 DEF LinkAt
      <4>2. CASE n # 1
        <5>1. n - 1 \in 1 .. n - 1 /\ n - 1 \in 1 .. n /\ n \in 1 .. n
          BY <1>0, <4>2
        <5>2. Pushed(n - 1, p) = IF p = n THEN n - 1 ELSE n
          BY <5>1 DEF Pushed
        <5> QED BY <1>2, <5>1, <5>2 DEF LinkAt
      <4> QED BY <4>1, <4>2
    <3> QED BY <1>2, <1>4, <2>2, <3>1, <3>2, <3>3, <3>4
  <2> QED BY <2>1, <2>2
<1>7. /\ \A i \in 1 .. n : q[i] \in Link
      /\ \A i, j \in 1 .. n : q[i] = q[j] => i = j
      /\ \A i \in 1 .. n : next[q[i]] = LinkAt(q, i + 1) /\ prev[q[i]] = LinkAt(q, i - 1)
  <2>1. \A i \in 1 .. n : q[i] \in Link
    BY <1>1
  <2>2. \A i, j \in 1 .. n : q[i] = q[j] => i = j
    BY <1>1 DEF Reads
  <2>3. \A i \in 1 .. n : next[q[i]] = LinkAt(q, i + 1) /\ prev[q[i]] = LinkAt(q, i - 1)
    <3> SUFFICES ASSUME NEW i \in 1 .. n
                 PROVE  next[q[i]] = LinkAt(q, i + 1) /\ prev[q[i]] = LinkAt(q, i - 1)
      OBVIOUS
    <3>1. i \in 1 .. Len(s[l])
      BY <1>0
    <3>2. next[s[l][i]] = LinkAt(s[l], i + 1) /\ prev[s[l][i]] = LinkAt(s[l], i - 1)
      BY <3>1 DEF Reads
    <3> QED BY <1>1, <3>2
  <2> QED BY <2>1, <2>2, <2>3
<1>8. \A y \in Link :
         /\ next2[y] = IF y = x THEN NilLink ELSE IF y = LinkAt(q, p - 1) THEN LinkAt(q, p + 1) ELSE next[y]
         /\ prev2[y] = IF y = x THEN NilLink ELSE IF y = LinkAt(q, p + 1) THEN LinkAt(q, p - 1) ELSE prev[y]
  BY <1>1 DEF LeavesFrom, x
<1>9. NilLink \notin Link /\ \A i \in 1 .. n : i # p => q[i] # x
  BY <1>7, LinkAssumption DEF x
<1>10. \A m \in List : \A i \in 1 .. Len(s[m]) : m # l => \A j \in 1 .. n : s[m][i] # q[j]
  BY <1>1 DEF Reads
<1>11. ASSUME NEW m \in List, m # l, NEW i \in 1 .. Len(t[m])
       PROVE  next2[t[m][i]] = LinkAt(t[m], i + 1) /\ prev2[t[m][i]] = LinkAt(t[m], i - 1)
  <2>1. t[m] = s[m] /\ t[m][i] \in Link /\ t[m][i] # x
    BY <1>1, <1>4, <1>10, <1>11 DEF x
  <2>2. t[m][i] # LinkAt(q, p - 1) /\ t[m][i] # LinkAt(q, p + 1)
    BY <1>9, <1>10, <1>11, <2>1 DEF LinkAt
  <2>3. next[s[m][i]] = LinkAt(s[m], i + 1) /\ prev[s[m][i]] = LinkAt(s[m], i - 1)
    BY <2>1 DEF Reads
  <2> QED BY <1>8, <2>1, <2>2, <2>3
<1>12. ASSUME NEW i \in 1 .. n - 1
       PROVE  next2[r[i]] = LinkAt(r, i + 1) /\ prev2[r[i]] = LinkAt(r, i - 1)
  <2> DEFINE k == Pushed(i, p)
  <2>1. k \in 1 .. n /\ k # p /\ r[i] = q[k] /\ (i < p => k = i) /\ (i >= p => k = i + 1)
    BY <1>2 DEF Pushed
  <2> HIDE DEF k
  <2>2. q[k] # x /\ q[k] \in Link /\ next[q[k]] = LinkAt(q, k + 1) /\ prev[q[k]] = LinkAt(q, k - 1)
    BY <1>7, <1>9, <2>1
  <2>3. q[k] = LinkAt(q, p - 1) <=> i = p - 1
    <3>1. p - 1 \in 1 .. n => (q[k] = q[p - 1] <=> k = p - 1)
      BY <1>7, <2>1
    <3>2. k = p - 1 <=> i = p - 1
      BY <2>1
    <3> QED BY <1>9, <2>1, <2>2, <3>1, <3>2 DEF LinkAt
  <2>4. q[k] = LinkAt(q, p + 1) <=> i = p
    <3>1. p + 1 \in 1 .. n => (q[k] = q[p + 1] <=> k = p + 1)
      BY <1>7, <2>1
    <3>2. k = p + 1 <=> i = p
      BY <2>1
    <3> QED BY <1>9, <2>1, <2>2, <3>1, <3>2 DEF LinkAt
  <2>5. LinkAt(r, i + 1) = IF i = p - 1 THEN LinkAt(q, p + 1) ELSE LinkAt(q, k + 1)
    <3>1. CASE i = n - 1
      <4>1. i = p - 1 \/ k + 1 = n + 1
        BY <2>1, <3>1
      <4>2. i = p - 1 => p + 1 = n + 1
        BY <3>1
      <4> QED BY <1>2, <3>1, <4>1, <4>2 DEF LinkAt
    <3>2. CASE i # n - 1
      <4>1. i + 1 \in 1 .. n - 1 /\ Pushed(i + 1, p) = IF i = p - 1 THEN p + 1 ELSE k + 1
        BY <2>1, <3>2 DEF Pushed
      <4>2. LinkAt(r, i + 1) = q[Pushed(i + 1, p)] /\ Pushed(i + 1, p) \in 1 .. n
        BY <1>2, <4>1 DEF LinkAt
      <4> QED BY <4>1, <4>2 DEF LinkAt
    <3> QED BY <3>1, <3>2
  <2>6. LinkAt(r, i - 1) = IF i = p THEN LinkAt(q, p - 1) ELSE LinkAt(q, k - 1)
    <3>1. CASE i = 1
      <4>1. i = p \/ k - 1 = 0
        BY <2>1, <3>1
      <4> QED BY <1>2, <3>1, <4>1 DEF LinkAt
    <3>2. CASE i # 1
      <4>1. i - 1 \in 1 .. n - 1 /\ Pushed(i - 1, p) = IF i = p THEN p - 1 ELSE k - 1
        BY <2>1, <3>2 DEF Pushed
      <4>2. LinkAt(r, i - 1) = q[Pushed(i - 1, p)] /\ Pushed(i - 1, p) \in 1 .. n
        BY <1>2, <4>1 DEF LinkAt
      <4> QED BY <4>1, <4>2 DEF LinkAt
    <3> QED BY <3>1, <3>2
  <2> QED BY <1>8, <2>1, <2>2, <2>3, <2>4, <2>5, <2>6
<1>13. ASSUME NEW m \in List, NEW o \in List, NEW i \in 1 .. Len(t[m]), NEW j \in 1 .. Len(t[o]),
              t[m][i] = t[o][j]
       PROVE  m = o /\ i = j
  <2>1. \A i1 \in 1 .. n - 1, j1 \in 1 .. n - 1 : r[i1] = r[j1] => i1 = j1
    <3> SUFFICES ASSUME NEW i1 \in 1 .. n - 1, NEW j1 \in 1 .. n - 1, r[i1] = r[j1] PROVE i1 = j1
      OBVIOUS
    <3> DEFINE k == Pushed(i1, p)
               h == Pushed(j1, p)
    <3>1. k \in 1 .. n /\ r[i1] = q[k] /\ h \in 1 .. n /\ r[j1] = q[h]
      BY <1>2
    <3>2. k = h => i1 = j1
      BY DEF Pushed
    <3> HIDE DEF k, h
    <3>3. q[k] = q[h]
      BY <3>1
    <3> QED BY <1>7, <3>1, <3>2, <3>3
  <2>2. \A m1 \in List : \A i1 \in 1 .. Len(s[m1]), j1 \in 1 .. n - 1 : m1 # l => s[m1][i1] # r[j1]
    <3> SUFFICES ASSUME NEW m1 \in List, NEW i1 \in 1 .. Len(s[m1]), NEW j1 \in 1 .. n - 1, m1 # l
                 PROVE  s[m1][i1] # r[j1]
      OBVIOUS
    <3> DEFINE h == Pushed(j1, p)
    <3>1. h \in 1 .. n /\ r[j1] = q[h]
      BY <1>2
    <3> HIDE DEF h
    <3> QED BY <1>10, <3>1
  <2>3. CASE m # l /\ o # l
    <3>1. t[m] = s[m] /\ t[o] = s[o]
      BY <1>4, <2>3
    <3> QED BY <1>13, <3>1 DEF Reads
  <2>4. CASE m = l /\ o = l
    BY <1>2, <1>4, <1>13, <2>1, <2>4
  <2>5. CASE m # l /\ o = l
    <3>1. t[m] = s[m] /\ t[o] = r
      BY <1>4, <2>5
    <3> QED BY <1>2, <1>13, <2>2, <2>5, <3>1
  <2>6. CASE m = l /\ o # l
    <3>1. t[m] = r /\ t[o] = s[o]
      BY <1>4, <2>6
    <3> QED BY <1>2, <1>13, <2>2, <2>6, <3>1
  <2> QED BY <2>3, <2>4, <2>5, <2>6
<1>14. ASSUME NEW y \in Link, \A m \in List : \A i \in 1 .. Len(t[m]) : t[m][i] # y
       PROVE  prev2[y] = NilLink /\ next2[y] = NilLink
  <2>1. CASE y = x
    BY <1>8, <2>1
  <2>2. CASE y # x
    <3>1. \A i \in 1 .. n : q[i] # y
      <4>1. \A j \in 1 .. n - 1 : r[j] # y
        BY <1>2, <1>4, <1>14
      <4> QED BY <1>3, <2>2, <4>1 DEF x
    <3>2. \A m \in List : \A i \in 1 .. Len(s[m]) : s[m][i] # y
      BY <1>4, <1>14, <3>1
    <3>3. prev[y] = NilLink /\ next[y] = NilLink
      BY <3>2 DEF Reads
    <3>4. y # LinkAt(q, p - 1) /\ y # LinkAt(q, p + 1)
      BY <1>9, <3>1 DEF LinkAt
    <3> QED BY <1>8, <2>2, <3>3, <3>4
  <2> QED BY <2>1, <2>2
<1>15. prev2 \in [Link -> LinkOrNil] /\ next2 \in [Link -> LinkOrNil]
  BY DEF LeavesFrom
<1>16. \A m \in List : \A i \in 1 .. Len(t[m]) :
          next2[t[m][i]] = LinkAt(t[m], i + 1) /\ prev2[t[m][i]] = LinkAt(t[m], i - 1)
  BY <1>2, <1>4, <1>11, <1>12
<1>17. Reads(t, first2, last2, prev2, next2)
  BY <1>5, <1>6, <1>13, <1>14, <1>15, <1>16 DEF Reads
<1> QED BY <1>4, <1>17 DEF t, r, q

-----------------------------------------------------------------------------
(* A do:, as long as the link given is not removed: the links that stayed  *)
(* are in one list with it, and those given are the ones up to it.         *)
Touring(s, t) ==
    t.on /\ ~t.cut =>
        /\ ~t.twice
        /\ t.at = NilLink => t.stayed \subseteq t.given
        /\ t.at # NilLink => \E l \in List : \E p \in 1 .. Len(s[l]) :
              /\ s[l][p] = t.at
              /\ \A y \in t.stayed : \E i \in 1 .. Len(s[l]) : s[l][i] = y /\ (y \in t.given <=> i <= p)

LEMMA EntersTouring ==
  ASSUME NEW s \in Sequence, NEW t \in Tour, Touring(s, t),
         NEW l \in List, NEW p \in 1 .. Len(s[l]) + 1, NEW x \in Link
  PROVE  Touring([s EXCEPT ![l] = WithLink(s[l], p, x)], t)
<1> DEFINE r == WithLink(s[l], p, x)
           s2 == [s EXCEPT ![l] = r]
<1>1. s[l] \in Seq(Link)
  BY DEF Sequence
<1>2. /\ Len(r) = Len(s[l]) + 1
      /\ \A i \in 1 .. Len(s[l]) : Pushed(i, p) \in 1 .. Len(r) /\ r[Pushed(i, p)] = s[l][i]
  <2>1. Len(r) = Len(s[l]) + 1
    BY <1>1, WithLinkIs
  <2>2. \A i \in 1 .. Len(s[l]) : Pushed(i, p) \in 1 .. Len(s[l]) + 1 /\ r[Pushed(i, p)] = s[l][i]
    BY <1>1, WithLinkMoves
  <2> QED BY <2>1, <2>2
<1> HIDE DEF r
<1>3. s2[l] = r /\ \A m \in List : m # l => s2[m] = s[m]
  BY DEF Sequence
<1> HIDE DEF s2
<1> SUFFICES ASSUME t.on, ~t.cut, t.at # NilLink
             PROVE  \E m \in List : \E k \in 1 .. Len(s2[m]) :
                      /\ s2[m][k] = t.at
                      /\ \A y \in t.stayed : \E i \in 1 .. Len(s2[m]) :
                            s2[m][i] = y /\ (y \in t.given <=> i <= k)
  BY DEF Touring, s2, r
<1>4. PICK m \in List : \E k \in 1 .. Len(s[m]) :
        /\ s[m][k] = t.at
        /\ \A y \in t.stayed : \E i \in 1 .. Len(s[m]) : s[m][i] = y /\ (y \in t.given <=> i <= k)
  BY DEF Touring
<1> PICK k \in 1 .. Len(s[m]) :
        /\ s[m][k] = t.at
        /\ \A y \in t.stayed : \E i \in 1 .. Len(s[m]) : s[m][i] = y /\ (y \in t.given <=> i <= k)
  BY <1>4
<1>5. CASE m # l
  BY <1>3, <1>4, <1>5
<1>6. CASE m = l
  <2> DEFINE h == Pushed(k, p)
  <2>1. h \in 1 .. Len(r) /\ r[h] = t.at
    BY <1>2, <1>4, <1>6
  <2>2. ASSUME NEW y \in t.stayed
        PROVE  \E i \in 1 .. Len(r) : r[i] = y /\ (y \in t.given <=> i <= h)
    <3>1. PICK i \in 1 .. Len(s[l]) : s[l][i] = y /\ (y \in t.given <=> i <= k)
      BY <1>4, <1>6
    <3> DEFINE j == Pushed(i, p)
    <3>2. j \in 1 .. Len(r) /\ r[j] = y
      BY <1>2, <3>1
    <3>3. i <= k <=> j <= h
      BY <1>1, <1>6 DEF Pushed
    <3> HIDE DEF j, h
    <3> QED BY <3>1, <3>2, <3>3
  <2> HIDE DEF h
  <2>3. s2[l] = r
    BY <1>3
  <2>4. \E k1 \in 1 .. Len(s2[l]) :
          /\ s2[l][k1] = t.at
          /\ \A y \in t.stayed : \E i \in 1 .. Len(s2[l]) : s2[l][i] = y /\ (y \in t.given <=> i <= k1)
    <3> SUFFICES \E k1 \in 1 .. Len(r) :
          /\ r[k1] = t.at
          /\ \A y \in t.stayed : \E i \in 1 .. Len(r) : r[i] = y /\ (y \in t.given <=> i <= k1)
      BY <2>3
    <3> h \in 1 .. Len(r)
      BY <2>1
    <3> WITNESS h \in 1 .. Len(r)
    <3> QED BY <2>1, <2>2
  <2> QED BY <2>4
<1> QED BY <1>5, <1>6

LEMMA LeavesTouring ==
  ASSUME NEW s \in Sequence, NEW t \in Tour, Touring(s, t),
         \A m, o \in List : \A i \in 1 .. Len(s[m]), j \in 1 .. Len(s[o]) :
            s[m][i] = s[o][j] => m = o /\ i = j,
         NEW l \in List, NEW p \in 1 .. Len(s[l]), s[l][p] # t.at, NEW t2,
         t2 = [t EXCEPT !.stayed = @ \ {s[l][p]}]
  PROVE  Touring([s EXCEPT ![l] = WithoutLink(s[l], p)], t2)
<1> DEFINE r == WithoutLink(s[l], p)
           s2 == [s EXCEPT ![l] = r]
<1>1. s[l] \in Seq(Link)
  BY DEF Sequence
<1>2. \A j \in 1 .. Len(s[l]) : j # p => Pulled(j, p) \in 1 .. Len(r) /\ r[Pulled(j, p)] = s[l][j]
  <2> DEFINE q == s[l]
  <2>1. q \in Seq(Link) /\ p \in 1 .. Len(q) /\ r = WithoutLink(q, p)
    BY <1>1
  <2> HIDE DEF q, r
  <2> SUFFICES ASSUME NEW j \in 1 .. Len(q), j # p
               PROVE  Pulled(j, p) \in 1 .. Len(r) /\ r[Pulled(j, p)] = q[j]
    BY DEF q
  <2>2. Len(r) = Len(q) - 1
    BY <2>1, WithoutLinkAt
  <2>3. \A i \in 1 .. Len(q) : i # p => /\ Pulled(i, p) \in 1 .. Len(q) - 1
                                        /\ WithoutLink(q, p)[Pulled(i, p)] = q[i]
    BY <2>1, WithoutLinkAt
  <2> QED BY <2>1, <2>2, <2>3
<1> HIDE DEF r
<1>3. s2[l] = r /\ \A m \in List : m # l => s2[m] = s[m]
  BY DEF Sequence
<1> HIDE DEF s2
<1>4. /\ t2.on = t.on /\ t2.cut = t.cut /\ t2.at = t.at /\ t2.twice = t.twice /\ t2.given = t.given
      /\ t2.stayed = t.stayed \ {s[l][p]}
  BY DEF Tour
<1> SUFFICES ASSUME t.on, ~t.cut, t.at # NilLink
             PROVE  \E m \in List : \E k \in 1 .. Len(s2[m]) :
                      /\ s2[m][k] = t.at
                      /\ \A y \in t2.stayed : \E i \in 1 .. Len(s2[m]) :
                            s2[m][i] = y /\ (y \in t.given <=> i <= k)
  BY <1>4 DEF Touring, s2, r
<1>5. PICK m \in List : \E k \in 1 .. Len(s[m]) :
        /\ s[m][k] = t.at
        /\ \A y \in t.stayed : \E i \in 1 .. Len(s[m]) : s[m][i] = y /\ (y \in t.given <=> i <= k)
  BY DEF Touring
<1> PICK k \in 1 .. Len(s[m]) :
        /\ s[m][k] = t.at
        /\ \A y \in t.stayed : \E i \in 1 .. Len(s[m]) : s[m][i] = y /\ (y \in t.given <=> i <= k)
  BY <1>5
<1>6. CASE m # l
  BY <1>3, <1>4, <1>5, <1>6
<1>7. CASE m = l
  <2> DEFINE h == Pulled(k, p)
  <2>1. k # p
    BY <1>5, <1>7
  <2>2. h \in 1 .. Len(r) /\ r[h] = t.at
    BY <1>2, <1>5, <1>7, <2>1
  <2>3. ASSUME NEW y \in t2.stayed
        PROVE  \E i \in 1 .. Len(r) : r[i] = y /\ (y \in t.given <=> i <= h)
    <3>1. PICK i \in 1 .. Len(s[l]) : s[l][i] = y /\ (y \in t.given <=> i <= k)
      BY <1>4, <1>5, <1>7
    <3> DEFINE j == Pulled(i, p)
    <3>2. i # p
      BY <1>4, <3>1
    <3>3. j \in 1 .. Len(r) /\ r[j] = y
      BY <1>2, <3>1, <3>2
    <3>4. i <= k <=> j <= h
      BY <1>1, <1>7, <2>1, <3>2 DEF Pulled
    <3> HIDE DEF j, h
    <3> QED BY <3>1, <3>3, <3>4
  <2> HIDE DEF h
  <2> QED BY <1>3, <2>2, <2>3
<1> QED BY <1>6, <1>7

LInv == /\ tour \in Tour
        /\ \E s \in Sequence : Reads(s, firstLink, lastLink, prevLink, nextLink) /\ Touring(s, tour)

\* A step from lists with the sequences s.
Follows(s) ==
    \E t \in Sequence :
        /\ Reads(t, firstLink', lastLink', prevLink', nextLink')
        /\ Touring(t, tour') /\ tour' \in Tour
        /\ t = s \/ \E x \in Link : Sequenced!Enter(x, s, t) \/ Sequenced!Leave(x, s, t)

LEMMA EnterFollows ==
  ASSUME NEW s \in Sequence, Reads(s, firstLink, lastLink, prevLink, nextLink),
         Touring(s, tour), tour \in Tour,
         NEW l \in List, NEW p \in 1 .. Len(s[l]) + 1, NEW x \in Link, Unlisted(s, x),
         EntersAt(s, l, p, x, firstLink, lastLink, prevLink, nextLink,
                  firstLink', lastLink', prevLink', nextLink'),
         tour' = tour
  PROVE  Follows(s)
<1> DEFINE r == WithLink(s[l], p, x)
           t == [s EXCEPT ![l] = r]
<1>1. t \in Sequence /\ Reads(t, firstLink', lastLink', prevLink', nextLink')
  BY Entering
<1>2. Touring(t, tour')
  BY EntersTouring
<1>3. s[l] \in Seq(Link) /\ s \in [List -> Seq(Link)]
  BY DEF Sequence
<1>4. r \in Seq(Link) /\ Len(r) = Len(s[l]) + 1 /\ r[p] = x
  BY <1>3, WithLinkAt
<1>5. Q!RemoveAt(r, p) = s[l]
  <2>1. \A i \in 1 .. Len(s[l]) : r[Pushed(i, p)] = s[l][i] /\ Pushed(i, p) \in 1 .. Len(s[l]) + 1
    BY <1>3, WithLinkAt
  <2> PICK n \in Nat : n = Len(s[l])
    BY <1>3
  <2> HIDE DEF r
  <2>2. p \in 1 .. Len(r)
    BY <1>4
  <2>6. Q!RemoveAt(r, p) = WithoutLink(r, p)
    BY <1>4, <2>2, WithoutLinkAt
  <2>7. WithoutLink(r, p) \in Seq(Link) /\ Len(WithoutLink(r, p)) = Len(r) - 1
    BY <1>4, <2>2, WithoutLinkAt
  <2>8. \A i \in 1 .. Len(r) - 1 : WithoutLink(r, p)[i] = r[Pushed(i, p)]
    BY <1>4, <2>2, WithoutLinkAt
  <2>3. /\ Q!RemoveAt(r, p) \in Seq(Link) /\ Len(Q!RemoveAt(r, p)) = Len(r) - 1
        /\ \A i \in 1 .. Len(r) - 1 : Q!RemoveAt(r, p)[i] = r[Pushed(i, p)]
    BY <2>6, <2>7, <2>8
  <2>4. \A i \in 1 .. Len(s[l]) : Q!RemoveAt(r, p)[i] = s[l][i]
    BY <1>4, <2>1, <2>3
  <2>5. Len(Q!RemoveAt(r, p)) = Len(s[l])
    BY <1>4, <2>3
  <2> QED BY <1>3, <2>3, <2>4, <2>5, SeqEqual
<1> HIDE DEF r
<1>6. t[l] = r /\ p \in DOMAIN r
  BY <1>3, <1>4
<1>7. s = [t EXCEPT ![l] = Q!RemoveAt(t[l], p)]
  <2>1. [t EXCEPT ![l] = Q!RemoveAt(t[l], p)] = [t EXCEPT ![l] = s[l]]
    BY <1>5, <1>6
  <2>2. [t EXCEPT ![l] = s[l]] = s
    BY <1>3
  <2> QED BY <2>1, <2>2
<1> HIDE DEF t
<1>8. Sequenced!Without(x, t, s)
  BY <1>4, <1>6, <1>7 DEF Sequenced!Without, Sequenced!S!RemoveAt, Q!RemoveAt
<1>9. Sequenced!Absent(x, s)
  BY <1>3 DEF Sequenced!Absent, Unlisted
<1> QED BY <1>1, <1>2, <1>8, <1>9 DEF Follows, Sequenced!Enter

LEMMA LeaveFollows ==
  ASSUME NEW s \in Sequence, Reads(s, firstLink, lastLink, prevLink, nextLink),
         Touring(s, tour), tour \in Tour,
         NEW l \in List, NEW p \in 1 .. Len(s[l]),
         LeavesFrom(s, l, p, firstLink, lastLink, prevLink, nextLink,
                    firstLink', lastLink', prevLink', nextLink'),
         Leaves(s[l][p])
  PROVE  Follows(s)
<1> DEFINE r == WithoutLink(s[l], p)
           t == [s EXCEPT ![l] = r]
           x == s[l][p]
<1>1. t \in Sequence /\ Reads(t, firstLink', lastLink', prevLink', nextLink')
  BY Leaving
<1>2. s[l] \in Seq(Link) /\ s \in [List -> Seq(Link)] /\ x \in Link
  BY DEF Sequence
<1>3. Q!RemoveAt(s[l], p) = r
  BY <1>2, WithoutLinkAt
<1>4. /\ tour.on \in BOOLEAN /\ tour.at \in Link \cup {NilLink} /\ tour.stayed \in SUBSET Link
      /\ tour.given \in SUBSET Link /\ tour.twice \in BOOLEAN /\ tour.cut \in BOOLEAN
  BY DEF Tour
<1>5. tour' \in Tour /\ Touring(t, tour')
  <2>1. CASE ~tour.on \/ tour.cut
    <3>1. tour' = tour
      BY <2>1 DEF Leaves
    <3> HIDE DEF t
    <3> QED BY <2>1, <3>1 DEF Touring
  <2>2. CASE tour.on /\ ~tour.cut /\ x = tour.at
    <3>1. tour' = [NoTour EXCEPT !.on = TRUE, !.at = x, !.cut = TRUE]
      BY <2>2 DEF Leaves
    <3>2. tour' = [on |-> TRUE, at |-> x, stayed |-> {}, given |-> {}, twice |-> FALSE, cut |-> TRUE]
      BY <3>1 DEF NoTour
    <3> HIDE DEF t, x
    <3> QED BY <1>2, <3>2 DEF Touring, Tour
  <2>3. CASE tour.on /\ ~tour.cut /\ x # tour.at
    <3>1. tour' = [tour EXCEPT !.stayed = @ \ {s[l][p]}]
      BY <2>3 DEF Leaves
    <3>2. tour' \in Tour
      BY <3>1 DEF Tour
    <3>3. \A m, o \in List : \A i \in 1 .. Len(s[m]), j \in 1 .. Len(s[o]) :
             s[m][i] = s[o][j] => m = o /\ i = j
      BY DEF Reads
    <3>4. Touring(t, tour')
      BY <2>3, <3>1, <3>3, LeavesTouring
    <3> QED BY <3>2, <3>4
  <2> QED BY <1>4, <2>1, <2>2, <2>3
<1>6. Sequenced!Without(x, s, t)
  <2>1. p \in DOMAIN s[l] /\ s[l][p] = x /\ t = [s EXCEPT ![l] = Q!RemoveAt(s[l], p)]
    BY <1>2, <1>3
  <2> HIDE DEF t, r
  <2> QED BY <2>1 DEF Sequenced!Without, Sequenced!S!RemoveAt, Q!RemoveAt
<1> HIDE DEF t, x
<1> QED BY <1>1, <1>2, <1>5, <1>6 DEF Follows, Sequenced!Leave

\* Without a change of the lists.
LEMMA RestFollows ==
  ASSUME NEW s \in Sequence, Reads(s, firstLink, lastLink, prevLink, nextLink),
         UNCHANGED <<firstLink, lastLink, prevLink, nextLink>>,
         Touring(s, tour'), tour' \in Tour
  PROVE  Follows(s)
BY DEF Follows

\* What an action knows of the lists.
LEMMA Reading ==
  ASSUME NEW s \in Sequence, Reads(s, firstLink, lastLink, prevLink, nextLink)
  PROVE  /\ \A l \in List : Links(l) = s[l] /\ Q!Reverse(Backwards(l)) = s[l]
         /\ \A l \in List : Listed(l) = {s[l][i] : i \in 1 .. Len(s[l])}
         /\ \A x \in Link : x \in Loose <=> Unlisted(s, x)
<1>1. \A l \in List : Links(l) = s[l] /\ Q!Reverse(Backwards(l)) = s[l]
  BY ReadsAs DEF Links, Backwards
<1>2. \A l \in List : Listed(l) = {s[l][i] : i \in 1 .. Len(s[l])}
  BY <1>1 DEF Listed, Members, Sequence
<1>3. \A x \in Link : x \in Loose <=> Unlisted(s, x)
  BY <1>2 DEF Loose, Unlisted
<1> QED BY <1>1, <1>2, <1>3

LEMMA Ends ==
  ASSUME NEW s \in Sequence, Reads(s, firstLink, lastLink, prevLink, nextLink), NEW l \in List
  PROVE  /\ s[l] \in Seq(Link) /\ Len(s[l]) \in Nat
         /\ firstLink[l] = LinkAt(s[l], 1) /\ lastLink[l] = LinkAt(s[l], Len(s[l]))
         /\ firstLink[l] = NilLink <=> Len(s[l]) = 0
         /\ lastLink[l] = NilLink <=> Len(s[l]) = 0
         /\ \A i \in 1 .. Len(s[l]) : s[l][i] \in Link /\ s[l][i] # NilLink
         /\ firstLink \in [List -> LinkOrNil] /\ lastLink \in [List -> LinkOrNil]
         /\ prevLink \in [Link -> LinkOrNil] /\ nextLink \in [Link -> LinkOrNil]
<1>1. s[l] \in Seq(Link) /\ Len(s[l]) \in Nat
  BY DEF Sequence
<1>2. firstLink[l] = LinkAt(s[l], 1) /\ lastLink[l] = LinkAt(s[l], Len(s[l]))
  BY DEF Reads
<1>3. \A i \in 1 .. Len(s[l]) : s[l][i] \in Link /\ s[l][i] # NilLink
  BY <1>1, LinkAssumption
<1>4. /\ firstLink \in [List -> LinkOrNil] /\ lastLink \in [List -> LinkOrNil]
      /\ prevLink \in [Link -> LinkOrNil] /\ nextLink \in [Link -> LinkOrNil]
  BY DEF Reads
<1>5. LinkAt(s[l], 1) = NilLink <=> Len(s[l]) = 0
  BY <1>1, <1>3 DEF LinkAt
<1>6. LinkAt(s[l], Len(s[l])) = NilLink <=> Len(s[l]) = 0
  BY <1>1, <1>3 DEF LinkAt
<1> QED BY <1>1, <1>2, <1>3, <1>4, <1>5, <1>6

\* A link that points somewhere is in a list, and in the middle if it
\* points both ways.
LEMMA Somewhere ==
  ASSUME NEW s \in Sequence, Reads(s, firstLink, lastLink, prevLink, nextLink),
         NEW y \in Link, prevLink[y] # NilLink \/ nextLink[y] # NilLink
  PROVE  \E l \in List : \E p \in 1 .. Len(s[l]) :
            /\ s[l][p] = y
            /\ prevLink[y] = LinkAt(s[l], p - 1) /\ nextLink[y] = LinkAt(s[l], p + 1)
            /\ prevLink[y] # NilLink => p # 1
            /\ nextLink[y] # NilLink => p # Len(s[l])
<1>1. PICK l \in List : \E p \in 1 .. Len(s[l]) : s[l][p] = y
  BY DEF Reads
<1>2. PICK p \in 1 .. Len(s[l]) : s[l][p] = y
  BY <1>1
<1>3. prevLink[y] = LinkAt(s[l], p - 1) /\ nextLink[y] = LinkAt(s[l], p + 1)
  BY <1>2 DEF Reads
<1>4. Len(s[l]) \in Nat
  BY DEF Sequence
<1>5. prevLink[y] # NilLink => p # 1
  BY <1>3 DEF LinkAt
<1>6. nextLink[y] # NilLink => p # Len(s[l])
  BY <1>3, <1>4 DEF LinkAt
<1> QED BY <1>2, <1>3, <1>5, <1>6

LEMMA AddFirstFollows ==
  ASSUME NEW s \in Sequence, Reads(s, firstLink, lastLink, prevLink, nextLink),
         Touring(s, tour), tour \in Tour, NEW l \in List, NEW x \in Link, Unlisted(s, x),
         AddFirst(l, x)
  PROVE  Follows(s)
<1> DEFINE q == s[l]
           n == Len(q)
<1>1. /\ q \in Seq(Link) /\ n \in Nat /\ firstLink[l] = LinkAt(q, 1) /\ lastLink[l] = LinkAt(q, n)
      /\ firstLink[l] = NilLink <=> n = 0
      /\ \A i \in 1 .. n : q[i] \in Link /\ q[i] # NilLink
      /\ firstLink \in [List -> LinkOrNil] /\ lastLink \in [List -> LinkOrNil]
      /\ prevLink \in [Link -> LinkOrNil] /\ nextLink \in [Link -> LinkOrNil]
  BY Ends
<1>2. firstLink' = [firstLink EXCEPT ![l] = x] /\ tour' = tour
  BY DEF AddFirst, Stays
<1>3. \A i \in 1 .. n : q[i] # x
  BY DEF Unlisted
<1>4. x # NilLink /\ LinkAt(q, 0) = NilLink
  BY LinkAssumption DEF LinkAt
<1>5. 1 \in 1 .. n + 1
  BY <1>1
<1>6. EntersAt(s, l, 1, x, firstLink, lastLink, prevLink, nextLink,
               firstLink', lastLink', prevLink', nextLink')
  <2> HIDE DEF q, n
  <2>1. CASE firstLink[l] = NilLink
    <3>1. /\ lastLink' = [lastLink EXCEPT ![l] = x]
          /\ nextLink' = [nextLink EXCEPT ![x] = NilLink]
          /\ prevLink' = [prevLink EXCEPT ![x] = NilLink]
      BY <2>1 DEF AddFirst
    <3>2. n = 0 /\ LinkAt(q, 1) = NilLink
      BY <1>1, <2>1
    <3>3. \A y \in Link :
            /\ nextLink'[y] = IF y = x THEN LinkAt(q, 1) ELSE IF y = LinkAt(q, 0) THEN x ELSE nextLink[y]
            /\ prevLink'[y] = IF y = x THEN LinkAt(q, 0) ELSE IF y = LinkAt(q, 1) THEN x ELSE prevLink[y]
      BY <1>1, <1>4, <3>1, <3>2, LinkAssumption
    <3>4. nextLink' \in [Link -> LinkOrNil] /\ prevLink' \in [Link -> LinkOrNil]
      BY <1>1, <3>1 DEF LinkOrNil
    <3> QED BY <1>2, <3>1, <3>2, <3>3, <3>4, 1 - 1 = 0, 0 + 1 = 1 DEF EntersAt, q, n
  <2>2. CASE firstLink[l] # NilLink
    <3>1. /\ prevLink' = [prevLink EXCEPT ![x] = NilLink, ![firstLink[l]] = x]
          /\ nextLink' = [nextLink EXCEPT ![x] = firstLink[l]] /\ lastLink' = lastLink
      BY <2>2 DEF AddFirst
    <3>2. n # 0 /\ firstLink[l] = LinkAt(q, 1) /\ firstLink[l] \in Link /\ firstLink[l] # x
      BY <1>1, <1>3, <2>2 DEF LinkAt
    <3>3. \A y \in Link :
            /\ nextLink'[y] = IF y = x THEN LinkAt(q, 1) ELSE IF y = LinkAt(q, 0) THEN x ELSE nextLink[y]
            /\ prevLink'[y] = IF y = x THEN LinkAt(q, 0) ELSE IF y = LinkAt(q, 1) THEN x ELSE prevLink[y]
      BY <1>1, <1>4, <3>1, <3>2, LinkAssumption
    <3>4. nextLink' \in [Link -> LinkOrNil] /\ prevLink' \in [Link -> LinkOrNil]
      BY <1>1, <3>1, <3>2 DEF LinkOrNil
    <3>5. lastLink' = [lastLink EXCEPT ![l] = lastLink[l]] /\ 1 # n + 1
      BY <1>1, <3>1, <3>2
    <3> QED BY <1>2, <3>3, <3>4, <3>5, 1 - 1 = 0 DEF EntersAt, q, n
  <2> QED BY <2>1, <2>2
<1> QED BY <1>2, <1>5, <1>6, EnterFollows

LEMMA AddLastFollows ==
  ASSUME NEW s \in Sequence, Reads(s, firstLink, lastLink, prevLink, nextLink),
         Touring(s, tour), tour \in Tour, NEW l \in List, NEW x \in Link, Unlisted(s, x),
         AddLast(l, x)
  PROVE  Follows(s)
<1> DEFINE q == s[l]
           n == Len(q)
<1>1. /\ q \in Seq(Link) /\ n \in Nat /\ firstLink[l] = LinkAt(q, 1) /\ lastLink[l] = LinkAt(q, n)
      /\ lastLink[l] = NilLink <=> n = 0
      /\ \A i \in 1 .. n : q[i] \in Link /\ q[i] # NilLink
      /\ firstLink \in [List -> LinkOrNil] /\ lastLink \in [List -> LinkOrNil]
      /\ prevLink \in [Link -> LinkOrNil] /\ nextLink \in [Link -> LinkOrNil]
  BY Ends
<1>2. lastLink' = [lastLink EXCEPT ![l] = x] /\ tour' = tour
  BY DEF AddLast, Stays
<1>3. \A i \in 1 .. n : q[i] # x
  BY DEF Unlisted
<1>4. x # NilLink /\ LinkAt(q, n + 1) = NilLink /\ (n + 1) - 1 = n
  BY <1>1, LinkAssumption DEF LinkAt
<1>5. n + 1 \in 1 .. n + 1
  BY <1>1
<1>6. EntersAt(s, l, n + 1, x, firstLink, lastLink, prevLink, nextLink,
               firstLink', lastLink', prevLink', nextLink')
  <2> HIDE DEF q, n
  <2>1. CASE lastLink[l] = NilLink
    <3>1. /\ firstLink' = [firstLink EXCEPT ![l] = x]
          /\ nextLink' = [nextLink EXCEPT ![x] = NilLink]
          /\ prevLink' = [prevLink EXCEPT ![x] = NilLink]
      BY <2>1 DEF AddLast
    <3>2. n = 0 /\ LinkAt(q, n) = NilLink /\ n + 1 = 1
      BY <1>1, <2>1
    <3>3. \A y \in Link :
            /\ nextLink'[y] = IF y = x THEN LinkAt(q, n + 1) ELSE IF y = LinkAt(q, n) THEN x ELSE nextLink[y]
            /\ prevLink'[y] = IF y = x THEN LinkAt(q, n) ELSE IF y = LinkAt(q, n + 1) THEN x ELSE prevLink[y]
      BY <1>1, <1>4, <3>1, <3>2, LinkAssumption
    <3>4. nextLink' \in [Link -> LinkOrNil] /\ prevLink' \in [Link -> LinkOrNil]
      BY <1>1, <3>1 DEF LinkOrNil
    <3> QED BY <1>2, <1>4, <3>1, <3>2, <3>3, <3>4 DEF EntersAt, q, n
  <2>2. CASE lastLink[l] # NilLink
    <3>1. /\ nextLink' = [nextLink EXCEPT ![x] = NilLink, ![lastLink[l]] = x]
          /\ prevLink' = [prevLink EXCEPT ![x] = lastLink[l]] /\ firstLink' = firstLink
      BY <2>2 DEF AddLast
    <3>2. n # 0 /\ lastLink[l] = LinkAt(q, n) /\ lastLink[l] \in Link /\ lastLink[l] # x
      BY <1>1, <1>3, <2>2 DEF LinkAt
    <3>3. \A y \in Link :
            /\ nextLink'[y] = IF y = x THEN LinkAt(q, n + 1) ELSE IF y = LinkAt(q, n) THEN x ELSE nextLink[y]
            /\ prevLink'[y] = IF y = x THEN LinkAt(q, n) ELSE IF y = LinkAt(q, n + 1) THEN x ELSE prevLink[y]
      BY <1>1, <1>4, <3>1, <3>2, LinkAssumption
    <3>4. nextLink' \in [Link -> LinkOrNil] /\ prevLink' \in [Link -> LinkOrNil]
      BY <1>1, <3>1, <3>2 DEF LinkOrNil
    <3>5. firstLink' = [firstLink EXCEPT ![l] = firstLink[l]] /\ n + 1 # 1
      BY <1>1, <3>1, <3>2
    <3> QED BY <1>2, <1>4, <3>3, <3>4, <3>5 DEF EntersAt, q, n
  <2> QED BY <2>1, <2>2
<1> QED BY <1>2, <1>5, <1>6, EnterFollows

LEMMA QuitsFollows ==
  ASSUME NEW s \in Sequence, Reads(s, firstLink, lastLink, prevLink, nextLink),
         Touring(s, tour), tour \in Tour, Quits
  PROVE  Follows(s)
<1>1. tour' = tour /\ UNCHANGED <<firstLink, lastLink, prevLink, nextLink>>
  BY DEF Quits
<1> QED BY <1>1, RestFollows

\* In the middle of a list: the pointers of x and of the links beside it.
LEMMA BetweenFollows ==
  ASSUME NEW s \in Sequence, Reads(s, firstLink, lastLink, prevLink, nextLink),
         Touring(s, tour), tour \in Tour, NEW x \in Link, Unlisted(s, x),
         NEW m \in List, NEW p \in 2 .. Len(s[m]), NEW a, NEW b, a = s[m][p - 1], b = s[m][p],
         nextLink' = [nextLink EXCEPT ![x] = b, ![a] = x],
         prevLink' = [prevLink EXCEPT ![x] = a, ![b] = x],
         UNCHANGED <<firstLink, lastLink, tour>>
  PROVE  Follows(s)
<1> DEFINE q == s[m]
           n == Len(q)
<1>1. /\ q \in Seq(Link) /\ n \in Nat
      /\ \A i \in 1 .. n : q[i] \in Link /\ q[i] # NilLink
      /\ firstLink \in [List -> LinkOrNil] /\ lastLink \in [List -> LinkOrNil]
      /\ prevLink \in [Link -> LinkOrNil] /\ nextLink \in [Link -> LinkOrNil]
  BY Ends
<1>2. \A i \in 1 .. n : q[i] # x
  BY DEF Unlisted
<1>3. p \in 1 .. n + 1 /\ p # 1 /\ p # n + 1 /\ p - 1 \in 1 .. n /\ p \in 1 .. n
  BY <1>1
<1> HIDE DEF q, n
<1>4. a = LinkAt(q, p - 1) /\ b = LinkAt(q, p) /\ a \in Link /\ b \in Link /\ a # x /\ b # x
  BY <1>1, <1>2, <1>3 DEF LinkAt, q, n
<1>5. \A y \in Link :
        /\ nextLink'[y] = IF y = x THEN b ELSE IF y = a THEN x ELSE nextLink[y]
        /\ prevLink'[y] = IF y = x THEN a ELSE IF y = b THEN x ELSE prevLink[y]
  BY <1>1, <1>4
<1>6. nextLink' \in [Link -> LinkOrNil] /\ prevLink' \in [Link -> LinkOrNil]
  BY <1>1, <1>4 DEF LinkOrNil
<1>7. firstLink' = [firstLink EXCEPT ![m] = firstLink[m]] /\ lastLink' = [lastLink EXCEPT ![m] = lastLink[m]]
  BY <1>1
<1>8. EntersAt(s, m, p, x, firstLink, lastLink, prevLink, nextLink,
               firstLink', lastLink', prevLink', nextLink')
  BY <1>3, <1>4, <1>5, <1>6, <1>7 DEF EntersAt, q, n
<1> QED BY <1>3, <1>8, EnterFollows DEF q, n

LEMMA AddBeforeFollows ==
  ASSUME NEW s \in Sequence, Reads(s, firstLink, lastLink, prevLink, nextLink),
         Touring(s, tour), tour \in Tour, NEW l \in List, NEW x \in Link, Unlisted(s, x),
         NEW y \in Link \ {x}, AddBefore(l, x, y)
  PROVE  Follows(s)
<1>1. CASE /\ y = firstLink[l]
           /\ nextLink' = [nextLink EXCEPT ![x] = y]
           /\ prevLink' = [prevLink EXCEPT ![x] = NilLink, ![y] = x]
           /\ firstLink' = [firstLink EXCEPT ![l] = x]
           /\ UNCHANGED lastLink /\ Stays
  <2> DEFINE q == s[l]
             n == Len(q)
  <2>1. /\ q \in Seq(Link) /\ n \in Nat /\ firstLink[l] = LinkAt(q, 1)
        /\ firstLink[l] = NilLink <=> n = 0
        /\ firstLink \in [List -> LinkOrNil] /\ lastLink \in [List -> LinkOrNil]
        /\ prevLink \in [Link -> LinkOrNil] /\ nextLink \in [Link -> LinkOrNil]
    BY Ends
  <2>2. x # NilLink /\ y # NilLink /\ LinkAt(q, 0) = NilLink
    BY LinkAssumption DEF LinkAt
  <2>3. n # 0 /\ 1 \in 1 .. n + 1 /\ 1 # n + 1
    BY <1>1, <2>1, <2>2
  <2> HIDE DEF q, n
  <2>4. \A z \in Link :
          /\ nextLink'[z] = IF z = x THEN LinkAt(q, 1) ELSE IF z = LinkAt(q, 0) THEN x ELSE nextLink[z]
          /\ prevLink'[z] = IF z = x THEN LinkAt(q, 0) ELSE IF z = LinkAt(q, 1) THEN x ELSE prevLink[z]
    BY <1>1, <2>1, <2>2, LinkAssumption
  <2>5. nextLink' \in [Link -> LinkOrNil] /\ prevLink' \in [Link -> LinkOrNil]
    BY <1>1, <2>1 DEF LinkOrNil
  <2>6. lastLink' = [lastLink EXCEPT ![l] = lastLink[l]] /\ tour' = tour
    BY <1>1, <2>1 DEF Stays
  <2>7. EntersAt(s, l, 1, x, firstLink, lastLink, prevLink, nextLink,
                 firstLink', lastLink', prevLink', nextLink')
    BY <1>1, <2>3, <2>4, <2>5, <2>6, 1 - 1 = 0 DEF EntersAt, q, n
  <2> QED BY <2>3, <2>6, <2>7, EnterFollows DEF q, n
<1>2. CASE /\ y # firstLink[l] /\ firstLink[l] # NilLink /\ prevLink[y] # NilLink
           /\ nextLink' = [nextLink EXCEPT ![x] = y, ![prevLink[y]] = x]
           /\ prevLink' = [prevLink EXCEPT ![x] = prevLink[y], ![y] = x]
           /\ UNCHANGED <<firstLink, lastLink>> /\ Stays
  <2>1. PICK m \in List : \E p \in 1 .. Len(s[m]) :
          s[m][p] = y /\ prevLink[y] = LinkAt(s[m], p - 1) /\ p # 1
    BY <1>2, Somewhere
  <2>2. PICK p \in 1 .. Len(s[m]) : s[m][p] = y /\ prevLink[y] = LinkAt(s[m], p - 1) /\ p # 1
    BY <2>1
  <2>3. Len(s[m]) \in Nat
    BY DEF Sequence
  <2>4. p \in 2 .. Len(s[m]) /\ prevLink[y] = s[m][p - 1]
    BY <2>2, <2>3 DEF LinkAt
  <2>5. UNCHANGED <<firstLink, lastLink, tour>>
    BY <1>2 DEF Stays
  <2> QED BY <1>2, <2>2, <2>4, <2>5, BetweenFollows
<1>3. CASE Quits
  BY <1>3, QuitsFollows
<1> QED BY <1>1, <1>2, <1>3 DEF AddBefore

LEMMA AddAfterFollows ==
  ASSUME NEW s \in Sequence, Reads(s, firstLink, lastLink, prevLink, nextLink),
         Touring(s, tour), tour \in Tour, NEW l \in List, NEW x \in Link, Unlisted(s, x),
         NEW y \in Link \ {x}, AddAfter(l, x, y)
  PROVE  Follows(s)
<1>1. CASE /\ y = lastLink[l]
           /\ prevLink' = [prevLink EXCEPT ![x] = y]
           /\ nextLink' = [nextLink EXCEPT ![x] = NilLink, ![y] = x]
           /\ lastLink' = [lastLink EXCEPT ![l] = x]
           /\ UNCHANGED firstLink /\ Stays
  <2> DEFINE q == s[l]
             n == Len(q)
  <2>1. /\ q \in Seq(Link) /\ n \in Nat /\ lastLink[l] = LinkAt(q, n)
        /\ lastLink[l] = NilLink <=> n = 0
        /\ firstLink \in [List -> LinkOrNil] /\ lastLink \in [List -> LinkOrNil]
        /\ prevLink \in [Link -> LinkOrNil] /\ nextLink \in [Link -> LinkOrNil]
    BY Ends
  <2>2. x # NilLink /\ y # NilLink /\ LinkAt(q, n + 1) = NilLink
    BY <2>1, LinkAssumption DEF LinkAt
  <2>3. n # 0 /\ n + 1 \in 1 .. n + 1 /\ n + 1 # 1 /\ (n + 1) - 1 = n
    BY <1>1, <2>1, <2>2
  <2> HIDE DEF q, n
  <2>4. \A z \in Link :
          /\ nextLink'[z] = IF z = x THEN LinkAt(q, n + 1) ELSE IF z = LinkAt(q, n) THEN x ELSE nextLink[z]
          /\ prevLink'[z] = IF z = x THEN LinkAt(q, n) ELSE IF z = LinkAt(q, n + 1) THEN x ELSE prevLink[z]
    BY <1>1, <2>1, <2>2, LinkAssumption
  <2>5. nextLink' \in [Link -> LinkOrNil] /\ prevLink' \in [Link -> LinkOrNil]
    BY <1>1, <2>1 DEF LinkOrNil
  <2>6. firstLink' = [firstLink EXCEPT ![l] = firstLink[l]] /\ tour' = tour
    BY <1>1, <2>1 DEF Stays
  <2>7. EntersAt(s, l, n + 1, x, firstLink, lastLink, prevLink, nextLink,
                 firstLink', lastLink', prevLink', nextLink')
    BY <1>1, <2>3, <2>4, <2>5, <2>6 DEF EntersAt, q, n
  <2> QED BY <2>3, <2>6, <2>7, EnterFollows DEF q, n
<1>2. CASE /\ y # lastLink[l] /\ lastLink[l] # NilLink /\ nextLink[y] # NilLink
           /\ nextLink' = [nextLink EXCEPT ![x] = nextLink[y], ![y] = x]
           /\ prevLink' = [prevLink EXCEPT ![x] = y, ![nextLink[y]] = x]
           /\ UNCHANGED <<firstLink, lastLink>> /\ Stays
  <2>1. PICK m \in List : \E p \in 1 .. Len(s[m]) :
          s[m][p] = y /\ nextLink[y] = LinkAt(s[m], p + 1) /\ p # Len(s[m])
    BY <1>2, Somewhere
  <2>2. PICK p \in 1 .. Len(s[m]) : s[m][p] = y /\ nextLink[y] = LinkAt(s[m], p + 1) /\ p # Len(s[m])
    BY <2>1
  <2>3. Len(s[m]) \in Nat
    BY DEF Sequence
  <2> DEFINE k == p + 1
  <2>4. k \in 2 .. Len(s[m]) /\ nextLink[y] = s[m][k] /\ k - 1 = p
    BY <2>2, <2>3 DEF LinkAt
  <2>5. UNCHANGED <<firstLink, lastLink, tour>>
    BY <1>2 DEF Stays
  <2>6. y = s[m][k - 1]
    BY <2>2, <2>4
  <2> HIDE DEF k
  <2> QED BY <1>2, <2>4, <2>5, <2>6, BetweenFollows
<1>3. CASE Quits
  BY <1>3, QuitsFollows
<1> QED BY <1>1, <1>2, <1>3 DEF AddAfter

LEMMA RemoveFirstFollows ==
  ASSUME NEW s \in Sequence, Reads(s, firstLink, lastLink, prevLink, nextLink),
         Touring(s, tour), tour \in Tour, NEW l \in List, NEW x \in Link, x = firstLink[l],
         RemoveFirst(l, x)
  PROVE  Follows(s)
<1> DEFINE q == s[l]
<1> PICK n \in Nat : n = Len(q)
  BY Ends
<1>1. /\ q \in Seq(Link) /\ n \in Nat /\ firstLink[l] = LinkAt(q, 1)
      /\ firstLink[l] = NilLink <=> n = 0
      /\ \A i \in 1 .. n : q[i] \in Link /\ q[i] # NilLink
      /\ firstLink \in [List -> LinkOrNil] /\ lastLink \in [List -> LinkOrNil]
      /\ prevLink \in [Link -> LinkOrNil] /\ nextLink \in [Link -> LinkOrNil]
  BY Ends
<1>0. q = s[l]
  OBVIOUS
<1> HIDE DEF q
<1>2. n # 0 /\ n >= 1 /\ 1 \in 1 .. n
  BY <1>1, LinkAssumption
<1>3. q[1] = x /\ LinkAt(q, 0) = NilLink
  <2>1. 1 \in 1 .. Len(q) /\ 0 \notin 1 .. Len(q)
    BY <1>2
  <2>2. LinkAt(q, 1) = q[1] /\ LinkAt(q, 0) = NilLink
    BY <2>1 DEF LinkAt
  <2> QED BY <1>1, <2>2
<1>4. nextLink[x] = LinkAt(q, 2)
  <2>1. nextLink[q[1]] = LinkAt(q, 1 + 1)
    BY <1>0, <1>2 DEF Reads
  <2> QED BY <1>3, <2>1, 1 + 1 = 2
<1>5. nextLink[x] # NilLink => n # 1 /\ nextLink[x] \in Link /\ nextLink[x] # x
  <2> SUFFICES ASSUME nextLink[x] # NilLink PROVE n # 1 /\ nextLink[x] \in Link /\ nextLink[x] # x
    OBVIOUS
  <2>1. 2 \in 1 .. n /\ nextLink[x] = q[2]
    BY <1>1, <1>4 DEF LinkAt
  <2>2. q[2] # q[1]
    BY <1>0, <1>2, <2>1 DEF Reads
  <2> QED BY <1>1, <1>3, <2>1, <2>2
<1>6. nextLink[x] = NilLink => n = 1
  <2> SUFFICES ASSUME nextLink[x] = NilLink, n # 1 PROVE FALSE
    OBVIOUS
  <2>1. 2 \in 1 .. n
    BY <1>1, <1>2
  <2> QED BY <1>1, <1>4, <2>1 DEF LinkAt
<1>7. /\ firstLink' = [firstLink EXCEPT ![l] = LinkAt(q, 2)] /\ Leaves(x)
      /\ nextLink' = [nextLink EXCEPT ![x] = NilLink]
  BY <1>4 DEF RemoveFirst
<1>8. LeavesFrom(s, l, 1, firstLink, lastLink, prevLink, nextLink,
                 firstLink', lastLink', prevLink', nextLink')
  <2>1. \A y \in Link :
          nextLink'[y] = IF y = x THEN NilLink ELSE IF y = LinkAt(q, 0) THEN LinkAt(q, 2) ELSE nextLink[y]
    BY <1>1, <1>3, <1>7, LinkAssumption
  <2>2. nextLink' \in [Link -> LinkOrNil]
    BY <1>1, <1>7 DEF LinkOrNil
  <2>3. /\ lastLink' = [lastLink EXCEPT ![l] = IF n = 1 THEN LinkAt(q, 0) ELSE lastLink[l]]
        /\ prevLink' \in [Link -> LinkOrNil]
        /\ \A y \in Link :
             prevLink'[y] = IF y = x THEN NilLink ELSE IF y = LinkAt(q, 2) THEN LinkAt(q, 0) ELSE prevLink[y]
    <3>1. CASE nextLink[x] # NilLink
      <4>1. prevLink' = [prevLink EXCEPT ![nextLink[x]] = NilLink, ![x] = NilLink] /\ lastLink' = lastLink
        BY <3>1 DEF RemoveFirst
      <4>2. lastLink' = [lastLink EXCEPT ![l] = lastLink[l]] /\ n # 1
        BY <1>1, <1>5, <3>1, <4>1
      <4>3. prevLink' \in [Link -> LinkOrNil]
        BY <1>1, <4>1 DEF LinkOrNil
      <4>4. \A y \in Link :
              prevLink'[y] = IF y = x THEN NilLink ELSE IF y = LinkAt(q, 2) THEN LinkAt(q, 0) ELSE prevLink[y]
        BY <1>1, <1>3, <1>4, <4>1
      <4> QED BY <4>2, <4>3, <4>4
    <3>2. CASE nextLink[x] = NilLink
      <4>1. prevLink' = [prevLink EXCEPT ![x] = NilLink] /\ lastLink' = [lastLink EXCEPT ![l] = NilLink]
        BY <3>2 DEF RemoveFirst
      <4>2. prevLink' \in [Link -> LinkOrNil]
        BY <1>1, <4>1 DEF LinkOrNil
      <4>3. \A y \in Link :
              prevLink'[y] = IF y = x THEN NilLink ELSE IF y = LinkAt(q, 2) THEN LinkAt(q, 0) ELSE prevLink[y]
        BY <1>1, <1>4, <3>2, <4>1, LinkAssumption
      <4> QED BY <1>3, <1>6, <3>2, <4>1, <4>2, <4>3
    <3> QED BY <3>1, <3>2
  <2> QED BY <1>3, <1>7, <2>1, <2>2, <2>3, 1 - 1 = 0, 1 + 1 = 2 DEF LeavesFrom, q
<1> QED BY <1>2, <1>3, <1>7, <1>8, LeaveFollows DEF q

LEMMA RemoveLastFollows ==
  ASSUME NEW s \in Sequence, Reads(s, firstLink, lastLink, prevLink, nextLink),
         Touring(s, tour), tour \in Tour, NEW l \in List, NEW x \in Link, x = lastLink[l],
         RemoveLast(l, x)
  PROVE  Follows(s)
<1> DEFINE q == s[l]
<1> PICK n \in Nat : n = Len(q)
  BY Ends
<1>1. /\ q \in Seq(Link) /\ n \in Nat /\ lastLink[l] = LinkAt(q, n)
      /\ lastLink[l] = NilLink <=> n = 0
      /\ \A i \in 1 .. n : q[i] \in Link /\ q[i] # NilLink
      /\ firstLink \in [List -> LinkOrNil] /\ lastLink \in [List -> LinkOrNil]
      /\ prevLink \in [Link -> LinkOrNil] /\ nextLink \in [Link -> LinkOrNil]
      /\ firstLink[l] = LinkAt(q, 1)
  BY Ends
<1>0. q = s[l]
  OBVIOUS
<1> HIDE DEF q
<1>2. n # 0 /\ n >= 1 /\ n \in 1 .. n
  BY <1>1, LinkAssumption
<1>3. q[n] = x /\ LinkAt(q, n + 1) = NilLink
  <2>1. n \in 1 .. Len(q) /\ n + 1 \notin 1 .. Len(q)
    BY <1>2
  <2>2. LinkAt(q, n) = q[n] /\ LinkAt(q, n + 1) = NilLink
    BY <2>1 DEF LinkAt
  <2> QED BY <1>1, <2>2
<1>4. prevLink[x] = LinkAt(q, n - 1)
  <2>1. prevLink[q[n]] = LinkAt(q, n - 1)
    BY <1>0, <1>2 DEF Reads
  <2> QED BY <1>3, <2>1
<1>5. prevLink[x] # NilLink => n # 1 /\ prevLink[x] \in Link /\ prevLink[x] # x
  <2> SUFFICES ASSUME prevLink[x] # NilLink PROVE n # 1 /\ prevLink[x] \in Link /\ prevLink[x] # x
    OBVIOUS
  <2>1. n - 1 \in 1 .. n /\ prevLink[x] = q[n - 1]
    BY <1>1, <1>4 DEF LinkAt
  <2>2. q[n - 1] # q[n]
    <3>1. \A i, j \in 1 .. n : q[i] = q[j] => i = j
      BY <1>0 DEF Reads
    <3> QED BY <1>2, <2>1, <3>1, n - 1 # n
  <2> QED BY <1>1, <1>3, <2>1, <2>2
<1>6. prevLink[x] = NilLink => n = 1
  <2> SUFFICES ASSUME prevLink[x] = NilLink, n # 1 PROVE FALSE
    OBVIOUS
  <2>1. n - 1 \in 1 .. n
    BY <1>1, <1>2
  <2> QED BY <1>1, <1>4, <2>1 DEF LinkAt
<1>7. /\ lastLink' = [lastLink EXCEPT ![l] = LinkAt(q, n - 1)] /\ Leaves(x)
      /\ prevLink' = [prevLink EXCEPT ![x] = NilLink]
  BY <1>4 DEF RemoveLast
<1>8. LeavesFrom(s, l, n, firstLink, lastLink, prevLink, nextLink,
                 firstLink', lastLink', prevLink', nextLink')
  <2>1. \A y \in Link :
          prevLink'[y] = IF y = x THEN NilLink ELSE IF y = LinkAt(q, n + 1) THEN LinkAt(q, n - 1) ELSE prevLink[y]
    BY <1>1, <1>3, <1>7, LinkAssumption
  <2>2. prevLink' \in [Link -> LinkOrNil]
    BY <1>1, <1>7 DEF LinkOrNil
  <2>3. /\ firstLink' = [firstLink EXCEPT ![l] = IF n = 1 THEN LinkAt(q, 2) ELSE firstLink[l]]
        /\ nextLink' \in [Link -> LinkOrNil]
        /\ \A y \in Link :
             nextLink'[y] = IF y = x THEN NilLink ELSE IF y = LinkAt(q, n - 1) THEN LinkAt(q, n + 1) ELSE nextLink[y]
    <3>1. CASE prevLink[x] # NilLink
      <4>1. nextLink' = [nextLink EXCEPT ![prevLink[x]] = NilLink, ![x] = NilLink] /\ firstLink' = firstLink
        BY <3>1 DEF RemoveLast
      <4>2. firstLink' = [firstLink EXCEPT ![l] = firstLink[l]] /\ n # 1
        BY <1>1, <1>5, <3>1, <4>1
      <4>3. nextLink' \in [Link -> LinkOrNil]
        BY <1>1, <4>1 DEF LinkOrNil
      <4>4. \A y \in Link :
              nextLink'[y] = IF y = x THEN NilLink ELSE IF y = LinkAt(q, n - 1) THEN LinkAt(q, n + 1) ELSE nextLink[y]
        BY <1>1, <1>3, <1>4, <4>1
      <4> QED BY <4>2, <4>3, <4>4
    <3>2. CASE prevLink[x] = NilLink
      <4>1. nextLink' = [nextLink EXCEPT ![x] = NilLink] /\ firstLink' = [firstLink EXCEPT ![l] = NilLink]
        BY <3>2 DEF RemoveLast
      <4>2. nextLink' \in [Link -> LinkOrNil]
        BY <1>1, <4>1 DEF LinkOrNil
      <4>3. \A y \in Link :
              nextLink'[y] = IF y = x THEN NilLink ELSE IF y = LinkAt(q, n - 1) THEN LinkAt(q, n + 1) ELSE nextLink[y]
        BY <1>1, <1>4, <3>2, <4>1, LinkAssumption
      <4>4. LinkAt(q, 2) = NilLink
        BY <1>3, <1>6, <3>2, 1 + 1 = 2
      <4> QED BY <1>6, <3>2, <4>1, <4>2, <4>3, <4>4
    <3> QED BY <3>1, <3>2
  <2>4. n = 1 => LinkAt(q, 2) = LinkAt(q, n + 1)
    BY 1 + 1 = 2
  <2> QED BY <1>3, <1>7, <2>1, <2>2, <2>3 DEF LeavesFrom, q
<1> QED BY <1>2, <1>3, <1>7, <1>8, LeaveFollows DEF q

LEMMA UnlinkFollows ==
  ASSUME NEW s \in Sequence, Reads(s, firstLink, lastLink, prevLink, nextLink),
         Touring(s, tour), tour \in Tour, NEW x \in Link, Unlink(x)
  PROVE  Follows(s)
<1>1. CASE Quits
  BY <1>1, QuitsFollows
<1>2. CASE /\ prevLink[x] # NilLink /\ nextLink[x] # NilLink
           /\ nextLink' = [nextLink EXCEPT ![prevLink[x]] = nextLink[x], ![x] = NilLink]
           /\ prevLink' = [prevLink EXCEPT ![nextLink[x]] = prevLink[x], ![x] = NilLink]
           /\ UNCHANGED <<firstLink, lastLink>>
           /\ Leaves(x)
  <2>1. PICK m \in List : \E p \in 1 .. Len(s[m]) :
            /\ s[m][p] = x
            /\ prevLink[x] = LinkAt(s[m], p - 1) /\ nextLink[x] = LinkAt(s[m], p + 1)
            /\ p # 1 /\ p # Len(s[m])
    BY <1>2, Somewhere
  <2>2. PICK p \in 1 .. Len(s[m]) :
            /\ s[m][p] = x
            /\ prevLink[x] = LinkAt(s[m], p - 1) /\ nextLink[x] = LinkAt(s[m], p + 1)
            /\ p # 1 /\ p # Len(s[m])
    BY <2>1
  <2> DEFINE a == prevLink[x]
             b == nextLink[x]
  <2>3. /\ firstLink \in [List -> LinkOrNil] /\ lastLink \in [List -> LinkOrNil]
        /\ prevLink \in [Link -> LinkOrNil] /\ nextLink \in [Link -> LinkOrNil]
    BY DEF Reads
  <2>4. a \in Link /\ b \in Link
    BY <1>2, <2>3 DEF LinkOrNil
  <2> HIDE DEF a, b
  <2>5. \A y \in Link :
          /\ nextLink'[y] = IF y = x THEN NilLink ELSE IF y = a THEN b ELSE nextLink[y]
          /\ prevLink'[y] = IF y = x THEN NilLink ELSE IF y = b THEN a ELSE prevLink[y]
    BY <1>2, <2>3, <2>4 DEF a, b
  <2>6. nextLink' \in [Link -> LinkOrNil] /\ prevLink' \in [Link -> LinkOrNil]
    BY <1>2, <2>3 DEF LinkOrNil
  <2>7. firstLink' = [firstLink EXCEPT ![m] = firstLink[m]] /\ lastLink' = [lastLink EXCEPT ![m] = lastLink[m]]
    BY <1>2, <2>3
  <2>8. a = LinkAt(s[m], p - 1) /\ b = LinkAt(s[m], p + 1)
    BY <2>2 DEF a, b
  <2>9. LeavesFrom(s, m, p, firstLink, lastLink, prevLink, nextLink,
                   firstLink', lastLink', prevLink', nextLink')
    BY <2>2, <2>5, <2>6, <2>7, <2>8 DEF LeavesFrom
  <2> QED BY <1>2, <2>2, <2>9, LeaveFollows
<1> QED BY <1>1, <1>2 DEF Unlink

LEMMA ToursFollow ==
  ASSUME NEW s \in Sequence, Reads(s, firstLink, lastLink, prevLink, nextLink),
         Touring(s, tour), tour \in Tour,
         (\E l \in List : DoLinks(l)) \/ DoNextLink \/ DoLinksEnd
  PROVE  Follows(s)
<1>1. UNCHANGED <<firstLink, lastLink, prevLink, nextLink>>
  BY DEF DoLinks, DoNextLink, DoLinksEnd
<1>2. /\ tour.on \in BOOLEAN /\ tour.at \in Link \cup {NilLink} /\ tour.stayed \in SUBSET Link
      /\ tour.given \in SUBSET Link /\ tour.twice \in BOOLEAN /\ tour.cut \in BOOLEAN
  BY DEF Tour
<1>3. Touring(s, tour') /\ tour' \in Tour
  <2>1. CASE \E l \in List : DoLinks(l)
    <3>0. PICK l \in List : DoLinks(l)
      BY <2>1
    <3>1. firstLink[l] # NilLink
      BY <3>0 DEF DoLinks
    <3>2. /\ Len(s[l]) \in Nat /\ firstLink[l] = LinkAt(s[l], 1) /\ Len(s[l]) # 0
          /\ \A i \in 1 .. Len(s[l]) : s[l][i] \in Link
      BY <3>1, Ends
    <3> DEFINE x == firstLink[l]
               S == Listed(l)
    <3>3. 1 \in 1 .. Len(s[l]) /\ s[l][1] = x /\ x \in Link
      BY <3>2 DEF LinkAt
    <3>4. S = {s[l][i] : i \in 1 .. Len(s[l])}
      BY Reading
    <3>5. tour' = [on |-> TRUE, at |-> x, stayed |-> S, given |-> {x}, twice |-> FALSE, cut |-> FALSE]
      BY <3>0 DEF DoLinks
    <3> HIDE DEF x, S
    <3>6. tour' \in Tour
      BY <3>2, <3>3, <3>4, <3>5 DEF Tour
    <3>7. \A y \in S : \E i \in 1 .. Len(s[l]) : s[l][i] = y /\ (y \in {x} <=> i <= 1)
      <4> SUFFICES ASSUME NEW y \in S
                   PROVE  \E i \in 1 .. Len(s[l]) : s[l][i] = y /\ (y \in {x} <=> i <= 1)
        OBVIOUS
      <4>1. PICK i \in 1 .. Len(s[l]) : s[l][i] = y
        BY <3>4
      <4>2. s[l][i] = s[l][1] => i = 1
        BY <3>3 DEF Reads
      <4> QED BY <3>2, <3>3, <4>1, <4>2
    <3>8. x # NilLink
      BY <3>3, LinkAssumption
    <3>9. Touring(s, tour')
      <4>1. \E m \in List : \E p \in 1 .. Len(s[m]) :
              /\ s[m][p] = x
              /\ \A y \in S : \E i \in 1 .. Len(s[m]) : s[m][i] = y /\ (y \in {x} <=> i <= p)
        BY <3>3, <3>7
      <4> QED BY <3>5, <3>8, <4>1 DEF Touring
    <3> QED BY <3>6, <3>9
  <2>2. CASE DoNextLink
    <3> DEFINE x == nextLink[tour.at]
    <3>1. tour.on /\ tour.at \in Link
      BY <1>2, <2>2 DEF DoNextLink
    <3>2. x \in Link \cup {NilLink}
      BY <3>1 DEF Reads, LinkOrNil
    <3>3. tour' = IF x = NilLink \/ tour.cut THEN [tour EXCEPT !.at = x]
                  ELSE [tour EXCEPT !.at = x, !.given = @ \cup {x},
                                    !.twice = @ \/ x \in tour.stayed \cap tour.given]
      BY <2>2 DEF DoNextLink
    <3>4. CASE tour.cut
      <4>1. tour' = [tour EXCEPT !.at = x]
        BY <3>3, <3>4
      <4> HIDE DEF x
      <4>2. tour' \in Tour /\ tour'.cut
        BY <3>2, <3>4, <4>1 DEF Tour
      <4> QED BY <4>2 DEF Touring
    <3>5. CASE ~tour.cut
      <4>1. ~tour.twice /\ tour.at # NilLink
        BY <3>1, <3>5, LinkAssumption DEF Touring
      <4>2. PICK l0 \in List : \E p \in 1 .. Len(s[l0]) :
              /\ s[l0][p] = tour.at
              /\ \A y \in tour.stayed : \E i \in 1 .. Len(s[l0]) : s[l0][i] = y /\ (y \in tour.given <=> i <= p)
        BY <3>1, <3>5, <4>1 DEF Touring
      <4>3. PICK p \in 1 .. Len(s[l0]) :
              /\ s[l0][p] = tour.at
              /\ \A y \in tour.stayed : \E i \in 1 .. Len(s[l0]) : s[l0][i] = y /\ (y \in tour.given <=> i <= p)
        BY <4>2
      <4>4. x = LinkAt(s[l0], p + 1)
        BY <4>3 DEF Reads
      <4> DEFINE q == s[l0]
      <4> PICK n \in Nat : n = Len(q)
        BY DEF Sequence
      <4>5. \A i, j \in 1 .. n : q[i] = q[j] => i = j
        BY DEF Reads
      <4>6. p \in 1 .. n /\ p \in Nat /\ \A y \in tour.stayed : \E i \in 1 .. n : q[i] = y /\ (y \in tour.given <=> i <= p)
        BY <4>3
      <4> HIDE DEF q, x
      <4>7. CASE x = NilLink
        <5>1. p = n
          <6>1. \A i \in 1 .. n : q[i] # NilLink
            BY Ends, LinkAssumption DEF q
          <6> QED BY <4>4, <4>6, <4>7, <6>1 DEF LinkAt, q
        <5>2. tour.stayed \subseteq tour.given
          BY <4>6, <5>1
        <5>3. tour' = [tour EXCEPT !.at = NilLink]
          BY <3>3, <4>7 DEF x
        <5>4. tour' \in Tour /\ ~tour'.twice /\ tour'.at = NilLink /\ tour'.stayed \subseteq tour'.given
          BY <4>1, <5>2, <5>3 DEF Tour
        <5> QED BY <5>4 DEF Touring
      <4>8. CASE x # NilLink
        <5> DEFINE k == p + 1
        <5>1. k \in 1 .. n /\ q[k] = x /\ x \in Link
          BY <3>2, <4>4, <4>6, <4>8 DEF LinkAt, q
        <5> HIDE DEF k
        <5>2. x \notin tour.stayed \cap tour.given
          <6> SUFFICES ASSUME x \in tour.stayed, x \in tour.given PROVE FALSE
            OBVIOUS
          <6>1. PICK i \in 1 .. n : q[i] = x /\ i <= p
            BY <4>6
          <6>2. i = k
            BY <4>5, <5>1, <6>1
          <6> QED BY <4>6, <6>1, <6>2 DEF k
        <5>3. tour' = [tour EXCEPT !.at = x, !.given = @ \cup {x},
                                   !.twice = @ \/ x \in tour.stayed \cap tour.given]
          BY <3>3, <3>5, <4>8 DEF x
        <5>4. /\ tour'.on = tour.on /\ tour'.at = x /\ tour'.stayed = tour.stayed
              /\ tour'.given = tour.given \cup {x} /\ ~tour'.twice /\ tour'.cut = tour.cut
          BY <4>1, <5>2, <5>3 DEF Tour
        <5>5. tour' \in Tour
          BY <1>2, <5>1, <5>3 DEF Tour
        <5>6. \A y \in tour.stayed : \E i \in 1 .. n : q[i] = y /\ (y \in tour.given \cup {x} <=> i <= k)
          <6> SUFFICES ASSUME NEW y \in tour.stayed
                       PROVE  \E i \in 1 .. n : q[i] = y /\ (y \in tour.given \cup {x} <=> i <= k)
            OBVIOUS
          <6>1. PICK i \in 1 .. n : q[i] = y /\ (y \in tour.given <=> i <= p)
            BY <4>6
          <6>2. y = x <=> i = k
            BY <4>5, <5>1, <6>1
          <6>3. i <= k <=> i <= p \/ i = k
            BY <4>6 DEF k
          <6> QED BY <6>1, <6>2, <6>3
        <5>7. \E m \in List : \E h \in 1 .. Len(s[m]) :
                /\ s[m][h] = x
                /\ \A y \in tour.stayed : \E i \in 1 .. Len(s[m]) :
                      s[m][i] = y /\ (y \in tour.given \cup {x} <=> i <= h)
          BY <5>1, <5>6 DEF q
        <5> QED BY <4>8, <5>4, <5>5, <5>7 DEF Touring
      <4> QED BY <4>7, <4>8
    <3> QED BY <3>4, <3>5
  <2>3. CASE DoLinksEnd
    <3>1. tour' = [on |-> FALSE, at |-> NilLink, stayed |-> {}, given |-> {}, twice |-> FALSE, cut |-> FALSE]
      BY <2>3 DEF DoLinksEnd, NoTour
    <3> QED BY <3>1 DEF Tour, Touring
  <2> QED BY <2>1, <2>2, <2>3
<1> QED BY <1>1, <1>3, RestFollows

LEMMA LinkInitially ==
  ASSUME LinkInit
  PROVE  LInv /\ Sequenced!Init
<1> DEFINE s == [l \in List |-> <<>>]
<1>1. s \in Sequence /\ \A l \in List : s[l] = <<>> /\ Len(s[l]) = 0
  BY DEF Sequence
<1> HIDE DEF s
<1>2. \A l \in List : \A i : LinkAt(s[l], i) = NilLink
  BY <1>1 DEF LinkAt
<1>3. Reads(s, firstLink, lastLink, prevLink, nextLink)
  <2>1. /\ firstLink = [l \in List |-> NilLink] /\ lastLink = [l \in List |-> NilLink]
        /\ prevLink = [x \in Link |-> NilLink] /\ nextLink = [x \in Link |-> NilLink]
    BY DEF LinkInit
  <2>2. \A l \in List : firstLink[l] = LinkAt(s[l], 1) /\ lastLink[l] = LinkAt(s[l], Len(s[l]))
    BY <1>2, <2>1
  <2>3. \A l \in List : \A i : i \notin 1 .. Len(s[l])
    BY <1>1
  <2>4. /\ firstLink \in [List -> LinkOrNil] /\ lastLink \in [List -> LinkOrNil]
        /\ prevLink \in [Link -> LinkOrNil] /\ nextLink \in [Link -> LinkOrNil]
        /\ \A x \in Link : prevLink[x] = NilLink /\ nextLink[x] = NilLink
    BY <2>1 DEF LinkOrNil
  <2> QED BY <2>2, <2>3, <2>4 DEF Reads
<1>4. tour = [on |-> FALSE, at |-> NilLink, stayed |-> {}, given |-> {}, twice |-> FALSE, cut |-> FALSE]
  BY DEF LinkInit, NoTour
<1>5. Touring(s, tour) /\ tour \in Tour
  BY <1>4 DEF Touring, Tour
<1>6. \A l \in List : Links(l) = <<>>
  BY <1>1, <1>3, Reading
<1> QED BY <1>1, <1>3, <1>5, <1>6 DEF LInv, Sequenced!Init

LEMMA LinkStep ==
  ASSUME NEW s \in Sequence, Reads(s, firstLink, lastLink, prevLink, nextLink),
         Touring(s, tour), tour \in Tour, [LinkNext]_linkVars
  PROVE  Follows(s)
<1>1. CASE UNCHANGED linkVars
  BY <1>1, RestFollows DEF linkVars
<1>2. ASSUME NEW x \in Loose, NEW l \in List, AddFirst(l, x) \/ AddLast(l, x)
      PROVE  Follows(s)
  <2>1. x \in Link /\ Unlisted(s, x)
    BY Reading DEF Loose
  <2> QED BY <1>2, <2>1, AddFirstFollows, AddLastFollows
<1>3. ASSUME NEW x \in Loose, NEW l \in List, NEW y \in Link \ {x}, AddBefore(l, x, y) \/ AddAfter(l, x, y)
      PROVE  Follows(s)
  <2>1. x \in Link /\ Unlisted(s, x)
    BY Reading DEF Loose
  <2> QED BY <1>3, <2>1, AddBeforeFollows, AddAfterFollows
<1>4. ASSUME NEW x \in Link, NEW l \in List, RemoveLink(l, x)
      PROVE  Follows(s)
  BY <1>4, RemoveFirstFollows, RemoveLastFollows, UnlinkFollows DEF RemoveLink
<1>5. ASSUME NEW l \in List, RemoveEnd(l)
      PROVE  Follows(s)
  <2>1. CASE firstLink[l] = NilLink /\ Quits
    BY <2>1, QuitsFollows
  <2>2. CASE firstLink[l] # NilLink /\ RemoveFirst(l, firstLink[l])
    <3>1. firstLink[l] \in Link
      BY <2>2 DEF Reads, LinkOrNil
    <3> QED BY <2>2, <3>1, RemoveFirstFollows
  <2>3. CASE lastLink[l] # NilLink /\ RemoveLast(l, lastLink[l])
    <3>1. lastLink[l] \in Link
      BY <2>3 DEF Reads, LinkOrNil
    <3> QED BY <2>3, <3>1, RemoveLastFollows
  <2> QED BY <1>5, <2>1, <2>2, <2>3 DEF RemoveEnd
<1>6. ASSUME NEW l \in List, DoLinks(l)
      PROVE  Follows(s)
  BY <1>6, ToursFollow
<1>7. CASE DoNextLink \/ DoLinksEnd
  BY <1>7, ToursFollow
<1> QED BY <1>1, <1>2, <1>3, <1>4, <1>5, <1>6, <1>7 DEF LinkNext

\* The invariant of the lists holds in every reachable state.
THEOREM ListsInvariance == LinkSpec => []LInv
<1>1. LinkInit => LInv
  BY LinkInitially
<1>2. LInv /\ [LinkNext]_linkVars => LInv'
  <2> SUFFICES ASSUME LInv, [LinkNext]_linkVars PROVE LInv'
    OBVIOUS
  <2>1. PICK s \in Sequence : Reads(s, firstLink, lastLink, prevLink, nextLink) /\ Touring(s, tour)
    BY DEF LInv
  <2>2. Follows(s)
    BY <2>1, LinkStep DEF LInv
  <2> QED BY <2>2 DEF LInv, Follows
<1> QED BY <1>1, <1>2, PTL DEF LinkSpec

(* Whichever list is sent a message, every list reads the same from both   *)
(* ends, no link is in two lists, and a link in none points nowhere: the   *)
(* missing tests of remove:, add:before: and add:after: do no harm as long *)
(* as links to add are in no list.                                         *)
THEOREM ListsTyped == LinkSpec => []LinkTypeOK
<1>1. LInv => LinkTypeOK
  <2> SUFFICES ASSUME LInv PROVE LinkTypeOK
    OBVIOUS
  <2>1. PICK s \in Sequence : Reads(s, firstLink, lastLink, prevLink, nextLink)
    BY DEF LInv
  <2>2. \A l \in List : Links(l) = Q!Reverse(Backwards(l))
    BY <2>1, Reading
  <2>3. \A l, m \in List : l = m \/ Listed(l) \cap Listed(m) = {}
    <3>1. \A l \in List : Listed(l) = {s[l][i] : i \in 1 .. Len(s[l])}
      BY <2>1, Reading
    <3>2. \A l, m \in List : \A i \in 1 .. Len(s[l]), j \in 1 .. Len(s[m]) :
             s[l][i] = s[m][j] => l = m /\ i = j
      BY <2>1 DEF Reads
    <3> QED BY <3>1, <3>2
  <2>4. \A x \in Loose : prevLink[x] = NilLink /\ nextLink[x] = NilLink
    <3> SUFFICES ASSUME NEW x \in Loose PROVE prevLink[x] = NilLink /\ nextLink[x] = NilLink
      OBVIOUS
    <3>1. x \in Link /\ Unlisted(s, x)
      BY <2>1, Reading DEF Loose
    <3> QED BY <2>1, <3>1 DEF Reads, Unlisted
  <2> QED BY <2>2, <2>3, <2>4 DEF LinkTypeOK, LInv
<1> QED BY <1>1, ListsInvariance, PTL

(* A do: gives its block each link once that stays in the list all the     *)
(* time, whatever the block adds and removes, in any list, up to the       *)
(* moment it removes the link it was given.                                *)
THEOREM ToursGiveStayers == LinkSpec => []StayersGiven
<1>1. LInv => StayersGiven
  BY DEF LInv, Touring, StayersGiven
<1> QED BY <1>1, ListsInvariance, PTL

(* A LinkedList is, to its users, a sequence of links: each message takes  *)
(* one link into one place of one list or out of the place where it is.    *)
THEOREM ListsAreSequences == LinkSpec => SequencesSpec
<1>1. LinkInit => Sequenced!Init
  BY LinkInitially
<1>2. LInv /\ [LinkNext]_linkVars => [Sequenced!Next]_([l \in List |-> Links(l)])
  <2> SUFFICES ASSUME LInv, [LinkNext]_linkVars
               PROVE  [Sequenced!Next]_([l \in List |-> Links(l)])
    OBVIOUS
  <2>1. PICK s \in Sequence : Reads(s, firstLink, lastLink, prevLink, nextLink) /\ Touring(s, tour)
    BY DEF LInv
  <2>2. PICK t \in Sequence :
          /\ Reads(t, firstLink', lastLink', prevLink', nextLink')
          /\ t = s \/ \E x \in Link : Sequenced!Enter(x, s, t) \/ Sequenced!Leave(x, s, t)
    BY <2>1, LinkStep DEF LInv, Follows
  <2>3. [l \in List |-> Links(l)] = s
    BY <2>1, Reading DEF Sequence
  <2>4. \A l \in List : Links(l)' = t[l]
    BY <2>2, ReadsAs DEF Links
  <2>5. [l \in List |-> Links(l)]' = t
    BY <2>4 DEF Sequence
  <2> QED BY <2>2, <2>3, <2>5 DEF Sequenced!Next
<1> QED BY <1>1, <1>2, ListsInvariance, PTL DEF LinkSpec, SequencesSpec, Sequenced!Spec

-----------------------------------------------------------------------------
(* Opened arithmetic                                                       *)

\* The prover's own arithmetic, where a product of variables comes in.
LEMMA DivMod == ASSUME NEW a \in Int, NEW b \in Nat \ {0}
  PROVE a = b * (a \div b) + (a % b) /\ a % b \in 0 .. b - 1 /\ a \div b \in Int
OBVIOUS

LEMMA DivIs == ASSUME NEW b \in Nat \ {0}, NEW q \in Int, NEW d \in 0 .. b - 1, NEW a \in Int, a = b * q + d
  PROVE a \div b = q
OBVIOUS

LEMMA NoMultiple == ASSUME NEW b \in Nat \ {0}, NEW k \in Int, b * k < b, b * k > -b
  PROVE k = 0
OBVIOUS

\* Wrapping takes off whole ranges.
LEMMA Wrapped ==
  ASSUME NEW x \in Int
  PROVE  /\ Wrap(x) \in Words
         /\ \E k \in Int : Wrap(x) = x + 4 * Quarter * k
<1> DEFINE b == 4 * Quarter
           a == x + 2 * Quarter
<1>1. a \in Int /\ b \in Nat \ {0} /\ Quarter \in Nat
  BY QuarterAssumption
<1>2. Wrap(x) = (a % b) - 2 * Quarter
  BY DEF Wrap
<1> HIDE DEF a, b
<1>3. PICK q \in Int : a = b * q + (a % b) /\ a % b \in 0 .. b - 1
  BY <1>1, DivMod
<1>4. Wrap(x) \in Words
  BY <1>1, <1>2, <1>3 DEF Words, b
<1>5. Wrap(x) = x - b * q
  BY <1>1, <1>2, <1>3 DEF a
<1>6. b * (-q) = -(b * q) /\ b * (-q) = 4 * Quarter * (-q)
  BY <1>1, <1>3 DEF b
<1>7. -q \in Int /\ Wrap(x) = x + 4 * Quarter * (-q)
  BY <1>1, <1>3, <1>5, <1>6
<1> QED BY <1>4, <1>7

\* What differs from an int by whole ranges wraps to it.
LEMMA WrapIs ==
  ASSUME NEW x \in Int, NEW k \in Int, NEW w \in Words, w = x + 4 * Quarter * k
  PROVE  Wrap(x) = w
<1>1. PICK h \in Int : Wrap(x) = x + 4 * Quarter * h
  BY Wrapped
<1>2. Wrap(x) \in Words
  BY Wrapped
<1> DEFINE b == 4 * Quarter
<1>3. b \in Nat \ {0} /\ Quarter \in Nat /\ b = 4 * Quarter
  BY QuarterAssumption
<1> HIDE DEF b
<1>4. Wrap(x) = x + b * h /\ w = x + b * k
  BY <1>1, <1>3
<1>5. Wrap(x) - w < b /\ Wrap(x) - w > -b
  BY <1>2, <1>3 DEF Words
<1>6. b * (h - k) = Wrap(x) - w
  <2>1. b * (h - k) = b * h - b * k
    BY <1>3
  <2>2. b * h \in Int /\ b * k \in Int
    BY <1>3
  <2> QED BY <1>4, <2>1, <2>2
<1>7. h - k = 0
  BY <1>3, <1>5, <1>6, NoMultiple
<1> QED BY <1>4, <1>7

LEMMA WrapNear ==
  ASSUME NEW x \in Int
  PROVE  /\ x \in Words => Wrap(x) = x
         /\ x - 4 * Quarter \in Words => Wrap(x) = x - 4 * Quarter
         /\ x + 4 * Quarter \in Words => Wrap(x) = x + 4 * Quarter
<1>1. Quarter \in Nat
  BY QuarterAssumption
<1>2. ASSUME x \in Words PROVE Wrap(x) = x
  <2>1. x = x + 4 * Quarter * 0
    BY <1>1
  <2> QED BY <1>2, <2>1, WrapIs
<1>3. ASSUME x - 4 * Quarter \in Words PROVE Wrap(x) = x - 4 * Quarter
  <2>1. x - 4 * Quarter = x + 4 * Quarter * (-1)
    BY <1>1
  <2> QED BY <1>3, <2>1, WrapIs
<1>4. ASSUME x + 4 * Quarter \in Words PROVE Wrap(x) = x + 4 * Quarter
  <2>1. x + 4 * Quarter = x + 4 * Quarter * 1
    BY <1>1
  <2> QED BY <1>4, <2>1, WrapIs
<1> QED BY <1>2, <1>3, <1>4

\* A word passes the test of the two top bits if it is a tagged integer.
LEMMA FitsTag ==
  ASSUME NEW s \in Words
  PROVE  Fits(s) <=> s \in SmallInt
<1>0. Quarter \in Nat \ {0}
  BY QuarterAssumption
<1>1. CASE s \in SmallInt
  <2>1. Wrap(2 * s) = 2 * s
    BY <1>0, <1>1, WrapNear DEF SmallInt, Words
  <2> QED BY <1>0, <1>1, <2>1 DEF Fits, SmallInt
<1>2. CASE s >= Quarter
  <2>1. Wrap(2 * s) = 2 * s - 4 * Quarter
    BY <1>0, <1>2, WrapNear DEF Words
  <2> QED BY <1>0, <1>2, <2>1 DEF Fits, SmallInt, Words
<1>3. CASE s < -Quarter
  <2>1. Wrap(2 * s) = 2 * s + 4 * Quarter
    BY <1>0, <1>3, WrapNear DEF Words
  <2> QED BY <1>0, <1>3, <2>1 DEF Fits, SmallInt, Words
<1> QED BY <1>0, <1>1, <1>2, <1>3 DEF SmallInt, Words

\* Fast paths that wrap only what cannot overflow an int.
LEMMA TagsOf ==
  ASSUME NEW x \in Words
  PROVE  {s \in {Wrap(x)} : Fits(s)} = {x} \cap SmallInt
<1>1. Wrap(x) = x
  BY QuarterAssumption, WrapNear DEF Words
<1> QED BY <1>1, FitsTag

(* The opened + and - answer the sum and the difference when these are     *)
(* tagged integers and leave the others to the method, on ints of any      *)
(* width: the test of the two top bits sees every carry into the tag bit.  *)
THEOREM SumsExact ==
  ASSUME NEW l \in SmallInt, NEW r \in SmallInt
  PROVE  FastAdd(l, r) = {l + r} \cap SmallInt /\ FastSub(l, r) = {l - r} \cap SmallInt
<1>1. l + r \in Words /\ l - r \in Words
  BY QuarterAssumption DEF SmallInt, Words
<1> QED BY <1>1, TagsOf DEF FastAdd, FastSub

\* C's quotient leaves a rest smaller than the divisor.
LEMMA Truncated ==
  ASSUME NEW a \in Int, NEW b \in Int, b # 0
  PROVE  /\ CDiv(a, b) \in Int
         /\ a - b * CDiv(a, b) < Magnitude(b) /\ a - b * CDiv(a, b) > -Magnitude(b)
<1> DEFINE m == Magnitude(a)
           n == Magnitude(b)
           q == m \div n
<1>1. m \in Nat /\ n \in Nat \ {0} /\ (a = m \/ a = -m) /\ (b = n \/ b = -n)
      /\ (a < 0 => a = -m) /\ (a >= 0 => a = m) /\ (b < 0 => b = -n) /\ (b >= 0 => b = n)
  BY DEF Magnitude
<1>2. CDiv(a, b) = IF (a < 0) <=> (b < 0) THEN q ELSE -q
  BY DEF CDiv
<1>3. q \in Int /\ m - n * q \in 0 .. n - 1
  <2> HIDE DEF m, n
  <2>1. m = n * q + (m % n) /\ m % n \in 0 .. n - 1 /\ q \in Int
    BY <1>1, DivMod
  <2> QED BY <1>1, <2>1
<1> HIDE DEF m, n, q
<1>4. b * CDiv(a, b) = IF a < 0 THEN -(n * q) ELSE n * q
  BY <1>1, <1>2, <1>3
<1>5. n * q \in Int
  BY <1>1, <1>3
<1>6. a - b * CDiv(a, b) = IF a < 0 THEN -(m - n * q) ELSE m - n * q
  BY <1>1, <1>4, <1>5
<1> QED BY <1>1, <1>2, <1>3, <1>6 DEF n

\* A product that did not overflow divides back.
LEMMA ProductDivided ==
  ASSUME NEW l \in Int, NEW r \in Int, r # 0
  PROVE  CDiv(l * r, r) = l
<1> DEFINE c == CDiv(l * r, r)
           n == Magnitude(r)
<1>1. n \in Nat \ {0} /\ (r = n \/ r = -n)
  BY DEF Magnitude
<1>2. c \in Int /\ l * r \in Int /\ l * r - r * c < n /\ l * r - r * c > -n
  BY Truncated
<1> HIDE DEF c, n
<1>3. r * (l - c) = l * r - r * c
  BY <1>2
<1>4. n * (l - c) = r * (l - c) \/ n * (l - c) = -(r * (l - c))
  BY <1>1, <1>2
<1>5. n * (l - c) < n /\ n * (l - c) > -n
  BY <1>1, <1>2, <1>3, <1>4
<1>6. l - c = 0
  BY <1>1, <1>2, <1>5, NoMultiple
<1> QED BY <1>2, <1>6 DEF c

(* The opened * answers the product when it is a tagged integer and leaves *)
(* the others to the method, on ints of any width and however often the    *)
(* multiplication overflows: the division back by the argument finds out.  *)
THEOREM ProductsExact ==
  ASSUME NEW l \in SmallInt, NEW r \in SmallInt
  PROVE  FastMul(l, r) = {l * r} \cap SmallInt
<1> DEFINE x == l * r
           s == Wrap(x)
<1>1. /\ Quarter \in Nat \ {0} /\ l \in Int /\ r \in Int /\ x \in Int
      /\ SmallInt \subseteq Words
  BY QuarterAssumption DEF SmallInt, Words
<1>2. s \in Words /\ s \in Int
  BY <1>1, Wrapped DEF Words
<1>3. FastMul(l, r) = {v \in {s} : (r = 0 \/ CDiv(v, r) = l) /\ v \in SmallInt}
  BY <1>2, FitsTag DEF FastMul
<1>4. ASSUME x \in SmallInt PROVE s = x /\ (r = 0 \/ CDiv(s, r) = l)
  <2>1. s = x
    BY <1>1, <1>4, WrapNear
  <2> QED BY <1>1, <2>1, ProductDivided
<1>5. ASSUME r = 0 \/ CDiv(s, r) = l PROVE s = x
  <2>1. CASE r = 0
    <3>1. x = 0 /\ 0 \in Words
      BY <1>1, <2>1 DEF Words
    <3> QED BY <1>1, <3>1, WrapNear
  <2>2. CASE r # 0 /\ CDiv(s, r) = l
    <3>1. s - r * l < Magnitude(r) /\ s - r * l > -Magnitude(r)
      BY <1>1, <1>2, <2>2, Truncated
    <3>2. Magnitude(r) <= Quarter /\ Magnitude(r) \in Nat
      BY <1>1 DEF Magnitude, SmallInt
    <3>3. PICK k \in Int : s = x + 4 * Quarter * k
      BY <1>1, Wrapped
    <3> DEFINE b == 4 * Quarter
    <3>4. b \in Nat \ {0} /\ b > Quarter
      BY <1>1
    <3>5. s = x + b * k
      BY <3>3
    <3> HIDE DEF b, s
    <3>6. r * l = x
      BY <1>1
    <3> HIDE DEF x
    <3>7. b * k \in Int
      BY <3>4
    <3>8. b * k < b /\ b * k > -b
      BY <1>1, <3>1, <3>2, <3>4, <3>5, <3>6, <3>7
    <3>9. k = 0
      BY <3>4, <3>8, NoMultiple
    <3> QED BY <1>1, <3>4, <3>5, <3>9
  <2> QED BY <1>5, <2>1, <2>2
<1> HIDE DEF x, s
<1> QED BY <1>3, <1>4, <1>5 DEF x

-----------------------------------------------------------------------------
\* The quotient rounded down, whatever the sign of the divisor.
FloorQuo(l, r) == IF r > 0 THEN l \div r ELSE (-l) \div (-r)

\* How the code rounds a negative quotient down.
LEMMA RoundedUp ==
  ASSUME NEW a \in Nat, NEW n \in Nat \ {0}
  PROVE  0 - CDiv(a + (n - 1), n) = (-a) \div n
<1> DEFINE c == a + (n - 1)
           q == c \div n
<1>1. c \in Nat /\ c = a + (n - 1)
  OBVIOUS
<1> HIDE DEF c
<1>2. CDiv(c, n) = q
  BY <1>1 DEF CDiv, Magnitude
<1>3. q \in Int /\ c = n * q + (c % n) /\ c % n \in 0 .. n - 1
  BY <1>1, DivMod
<1> HIDE DEF q
<1>4. n * (-q) = -(n * q) /\ n * q \in Int
  BY <1>3
<1>5. -a = n * (-q) + ((n - 1) - (c % n)) /\ (n - 1) - (c % n) \in 0 .. n - 1
  BY <1>1, <1>3, <1>4
<1>6. (-a) \div n = -q
  <2> DEFINE d == (n - 1) - (c % n)
             o == -q
             x == -a
  <2>1. x \in Int /\ o \in Int /\ d \in 0 .. n - 1 /\ x = n * o + d
    BY <1>3, <1>5
  <2> HIDE DEF d, o, x
  <2>2. x \div n = o
    BY <2>1, DivIs
  <2> QED BY <2>2 DEF x, o
<1> QED BY <1>2, <1>3, <1>6 DEF c

LEMMA QuotientSmall ==
  ASSUME NEW a \in Int, NEW n \in Nat \ {0}
  PROVE  /\ a \div n \in Int
         /\ a >= 0 => a \div n \in 0 .. a
         /\ a < 0 => a \div n \in a .. -1
<1> DEFINE q == a \div n
<1>1. q \in Int /\ a = n * q + (a % n) /\ a % n \in 0 .. n - 1
  BY DivMod
<1> HIDE DEF q
<1>2. q < 0 => n * q <= q /\ n * q <= -n
  BY <1>1
<1>3. q >= 0 => n * q >= q
  BY <1>1
<1>4. n * q \in Int
  BY <1>1
<1> QED BY <1>1, <1>2, <1>3, <1>4 DEF q

(* //, \\ and quo: of SmallInteger make do with C's division towards zero: *)
(* // answers the quotient rounded down, \\ the rest of it, for arguments   *)
(* of either sign, and only a quotient too large for a tag is left to the  *)
(* method of large integers.                                               *)
THEOREM QuotientsExact ==
  ASSUME NEW l \in SmallInt, NEW r \in SmallInt, r # 0
  PROVE  /\ FastFloorDiv(l, r) = {FloorQuo(l, r)} \cap SmallInt
         /\ FastFloorMod(l, r) = {l - r * FloorQuo(l, r)}
         /\ FastQuo(l, r) = {CDiv(l, r)} \cap SmallInt
<1> DEFINE n == Magnitude(r)
           q == FloorQuo(l, r)
           c == CDiv(l, r)
<1>1. /\ Quarter \in Nat \ {0} /\ l \in Int /\ r \in Int /\ n \in Nat \ {0}
      /\ l >= -Quarter /\ l < Quarter /\ n <= Quarter
      /\ (r > 0 => r = n) /\ (r < 0 => r = -n)
  BY QuarterAssumption DEF SmallInt, Magnitude
<1>2. q = (IF l > 0 THEN (IF r > 0 THEN CDiv(l, r) ELSE 0 - CDiv(l + (-r - 1), -r))
                    ELSE (IF r > 0 THEN 0 - CDiv(-l + (r - 1), r) ELSE CDiv(-l, -r)))
  <2>1. CASE l > 0 /\ r > 0
    BY <1>1, <2>1 DEF CDiv, Magnitude, FloorQuo
  <2>2. CASE l > 0 /\ r < 0
    <3>1. l \in Nat /\ -r \in Nat \ {0}
      BY <1>1, <2>2
    <3>2. 0 - CDiv(l + (-r - 1), -r) = (-l) \div (-r)
      BY <3>1, RoundedUp
    <3> QED BY <1>1, <2>2, <3>2 DEF FloorQuo
  <2>3. CASE l <= 0 /\ r > 0
    <3>1. -l \in Nat /\ -(-l) = l
      BY <1>1, <2>3
    <3>2. 0 - CDiv(-l + (r - 1), r) = l \div r
      BY <1>1, <2>3, <3>1, RoundedUp
    <3> QED BY <1>1, <2>3, <3>2 DEF FloorQuo
  <2>4. CASE l <= 0 /\ r < 0
    BY <1>1, <2>4 DEF CDiv, Magnitude, FloorQuo
  <2> QED BY <1>1, <2>1, <2>2, <2>3, <2>4
<1>3. q \in Words
  <2>1. CASE r > 0
    BY <1>1, <2>1, QuotientSmall DEF FloorQuo, Words
  <2>2. CASE r < 0
    <3> DEFINE a == -l
    <3>1. a \in Int /\ a <= Quarter /\ a > -Quarter
      BY <1>1
    <3>2. q = a \div n
      BY <1>1, <2>2 DEF FloorQuo
    <3> HIDE DEF a, q, n
    <3> QED BY <1>1, <3>1, <3>2, QuotientSmall DEF Words
  <2> QED BY <1>1, <2>1, <2>2
<1>4. c \in Int /\ l - r * c < n /\ l - r * c > -n
  BY <1>1, Truncated
<1>5. c \in Words
  <2> DEFINE a == Magnitude(l)
  <2>1. a \in Nat /\ a <= Quarter
    BY <1>1 DEF Magnitude
  <2>2. c = a \div n \/ c = -(a \div n)
    BY DEF CDiv
  <2> HIDE DEF a, c, n
  <2>3. a \div n \in 0 .. a
    BY <1>1, <2>1, QuotientSmall
  <2> QED BY <1>1, <2>1, <2>2, <2>3 DEF Words
<1>6. FastQuo(l, r) = {c} \cap SmallInt
  BY <1>5, FitsTag DEF FastQuo
<1>7. FastFloorDiv(l, r) = {q} \cap SmallInt
  BY <1>2, <1>3, FitsTag DEF FastFloorDiv
<1>8. l - r * q \in Int /\ q \in Int /\ (r > 0 => l - r * q \in 0 .. n - 1) /\ (r < 0 => l - r * q \in -(n - 1) .. 0)
  <2>1. CASE r > 0
    <3>1. q = l \div n /\ r = n
      BY <1>1, <2>1 DEF FloorQuo
    <3> HIDE DEF q, n
    <3>2. l = n * q + (l % n) /\ l % n \in 0 .. n - 1 /\ q \in Int
      BY <1>1, <3>1, DivMod
    <3>3. n * q \in Int
      BY <1>1, <3>2
    <3> QED BY <1>1, <2>1, <3>1, <3>2, <3>3
  <2>2. CASE r < 0
    <3>1. q = (-l) \div n
      BY <1>1, <2>2 DEF FloorQuo
    <3> DEFINE a == -l
    <3>2. a \in Int /\ q = a \div n /\ l = -a
      BY <1>1, <3>1
    <3> HIDE DEF a, q, n
    <3>3. a = n * q + (a % n) /\ a % n \in 0 .. n - 1 /\ q \in Int
      BY <1>1, <3>2, DivMod
    <3>4. r * q = -(n * q) /\ n * q \in Int
      BY <1>1, <2>2, <3>3
    <3> QED BY <1>1, <2>2, <3>2, <3>3, <3>4
  <2> QED BY <1>1, <2>1, <2>2
<1> DEFINE m == l - r * c
           e == IF (r < 0 /\ m > 0) \/ (r >= 0 /\ m < 0) THEN m + r ELSE m
<1>9. e = l - r * q
  <2>1. PICK h \in {0, 1} : e = m + r * h
    BY <1>1, <1>4
  <2>2. (r > 0 => e \in 0 .. n - 1) /\ (r < 0 => e \in -(n - 1) .. 0)
    <3> HIDE DEF n, c
    <3>1. m \in Int /\ m < n /\ m > -n
      BY <1>1, <1>4
    <3> HIDE DEF m
    <3> QED BY <1>1, <3>1
  <2> HIDE DEF n, c, q, e
  <2>3. e - (l - r * q) < n /\ e - (l - r * q) > -n
    BY <1>1, <1>8, <2>2
  <2>4. r * (q - (c - h)) = e - (l - r * q)
    BY <1>1, <1>4, <1>8, <2>1
  <2> DEFINE k == q - (c - h)
  <2>5. k \in Int /\ r * k = e - (l - r * q) /\ r * k \in Int
    BY <1>1, <1>4, <1>8, <2>4
  <2> HIDE DEF k
  <2>6. n * k = r * k \/ n * k = -(r * k)
    BY <1>1, <2>5
  <2>7. n * k < n /\ n * k > -n
    BY <1>1, <2>3, <2>5, <2>6
  <2>8. k = 0
    BY <1>1, <2>5, <2>7, NoMultiple
  <2>9. r * k = 0
    BY <1>1, <2>8
  <2> QED BY <1>1, <1>8, <2>2, <2>5, <2>9
<1>10. FastFloorMod(l, r) = {l - r * q}
  <2>1. FastFloorMod(l, r) = {s \in {e} : Fits(s)}
    BY DEF FastFloorMod, CMod
  <2> HIDE DEF e, n, q
  <2>2. e \in SmallInt /\ e \in Words
    BY <1>1, <1>8, <1>9 DEF SmallInt, Words
  <2>3. Fits(e)
    BY <2>2, FitsTag
  <2> QED BY <1>9, <2>1, <2>3
<1> QED BY <1>6, <1>7, <1>10
=============================================================================
