-------------------------------- MODULE HashSet --------------------------------
(***************************************************************************)
(* Sets of src/object/st80/Set.st: an array of slots probed linearly from  *)
(* the hash of the element, doubled when fewer than a quarter of its slots *)
(* are free, with the slots after a removed element relocated.  A do: over *)
(* the set is modelled with a block that may change the set: each element  *)
(* it is given is one step, and other messages may come between.           *)
(***************************************************************************)
EXTENDS Naturals, FiniteSets, Sequences

CONSTANTS Element,  \* the objects put into it, one for each class of equals
          Hash,     \* Hash[x]: what 'x hash' answers
          Nil,      \* the object nil
          Sizes     \* bound: the sizes a set is made with

ASSUME HashSetAssumption ==
  /\ Nil \notin Element
  /\ Hash \in [Element -> Nat]
  /\ Sizes \subseteq Nat

VARIABLES array,    \* the slots
          tally,    \* how many of them hold an element
          walk,     \* the do: under way
          call,     \* the last message, <<selector, argument ...>>
          answer,   \* the element it answered, or how many; nothing is <<>>
          aborted   \* it aborted the program

vars == <<array, tally, walk, call, answer, aborted>>

(***************************************************************************)
(* A do:, when on, is at slot next of the array the set had when the do:   *)
(* began: the present one, or else over, if the set has grown since.       *)
(* due, seen, again and removed do not exist in the code: the elements     *)
(* when it began, those given to the block, whether one was given to it    *)
(* twice, and whether an element was removed meanwhile (after which the    *)
(* others are not kept).                                                   *)
(***************************************************************************)
Walk == [on : BOOLEAN, left : BOOLEAN, over : Seq(Element \cup {Nil}), next : Nat,
         due : SUBSET Element, seen : SUBSET Element, again : BOOLEAN, removed : BOOLEAN]
NoWalk == [on |-> FALSE, left |-> FALSE, over |-> <<>>, next |-> 0,
           due |-> {}, seen |-> {}, again |-> FALSE, removed |-> FALSE]

Elements(a) == {a[i] : i \in DOMAIN a} \ {Nil}
Empty(n) == [i \in 1..n |-> Nil]
-----------------------------------------------------------------------------
(* Probing, as functions of the array.                                     *)

Larger(m, n) == IF m < n THEN n ELSE m

\* The slot k places after slot i, around the end of a.
After(a, i, k) == IF i + k <= Len(a) THEN i + k ELSE i + k - Len(a)

\* The order in which slots are looked at for x: from its hash to the end,
\* then from the first.
ScanStart(a, x) == (Hash[x] % Len(a)) + 1
Matches(a, i, x) == a[i] \in {Nil, x}

\* scanFor: the first slot that holds x or nothing, 0 if there is none.
ScanFor(a, x) ==
  LET at == {k \in 0..(Len(a) - 1) : Matches(a, After(a, ScanStart(a, x), k), x)}
  IN IF at = {} THEN 0
     ELSE After(a, ScanStart(a, x), CHOOSE k \in at : \A j \in at : k <= j)

Stored(a, i, x) == [a EXCEPT ![i] = x]
Swapped(a, i, j) == [a EXCEPT ![i] = a[j], ![j] = a[i]]

(***************************************************************************)
(* fixCollisionsFrom: i, whose slot was just emptied: one by one, the      *)
(* elements after it up to the next empty slot move to where a scan now    *)
(* ends.  Another slot is empty (ScansArrive), so one is met on the way.    *)
(***************************************************************************)
NotFixed(a, i) == a
FixCollisionsFrom(a, i) ==
  LET Relocate(s, old) ==
        IF s.done \/ s.slots[old] = Nil THEN [s EXCEPT !.done = TRUE]
        ELSE [s EXCEPT !.slots = Swapped(@, old, ScanFor(@, @[old]))]
      Fixed[k \in 0..(Len(a) - 1)] ==
        IF k = 0 THEN [slots |-> a, done |-> FALSE] ELSE Relocate(Fixed[k - 1], After(a, i, k))
  IN Fixed[Len(a) - 1].slots

\* noCheckAdd: x.
NoCheckAdd(t, x) ==
  IF x = Nil THEN t
  ELSE [slots |-> Stored(t.slots, ScanFor(t.slots, x), x), tally |-> t.tally + 1]

\* grow: the elements, inserted again into twice the slots.
Reinserted(a) ==
  LET Added[k \in 0..Len(a)] ==
        IF k = 0 THEN [slots |-> Empty(2 * Len(a)), tally |-> 0] ELSE NoCheckAdd(Added[k - 1], a[k])
  IN Added[Len(a)]
GrownUncounted(a) == [Reinserted(a) EXCEPT !.tally = 0]
Grown(a) == Reinserted(a)

\* fullCheck.
Full(a, n) == Len(a) - n < Larger(1, Len(a) \div 4)
-----------------------------------------------------------------------------
Init ==
  /\ \E n \in Sizes : array = Empty(n)
  /\ tally = 0
  /\ walk = NoWalk
  /\ call = <<"new:">>
  /\ answer = <<>>
  /\ aborted = FALSE

\* '\\ 0' for a set without slots.
NoSlots ==
  /\ array = <<>>
  /\ aborted' = TRUE
  /\ answer' = <<>>
  /\ UNCHANGED <<array, tally, walk>>

Answer(a) ==
  /\ answer' = a
  /\ UNCHANGED aborted

Slot(x) == ScanFor(array, x)

\* add: x, when it is there already.
AddPresent(x) ==
  /\ array[Slot(x)] = x
  /\ Answer(<<x>>)
  /\ UNCHANGED <<array, tally, walk>>

\* atNewIndex:put: and, when that leaves too little room, grow, which
\* leaves a do: under way with the array it began with.
AddNew(x) ==
  /\ array[Slot(x)] = Nil
  /\ Answer(<<x>>)
  /\ LET a == Stored(array, Slot(x), x)
     IN IF Full(a, tally + 1)
        THEN /\ array' = Grown(a).slots
             /\ tally' = Grown(a).tally
             /\ walk' = IF walk.on /\ ~walk.left
                        THEN [walk EXCEPT !.left = TRUE, !.over = a] ELSE walk
        ELSE /\ array' = a
             /\ tally' = tally + 1
             /\ UNCHANGED walk

Add(x) ==
  /\ ~aborted
  /\ call' = <<"add:", x>>
  /\ NoSlots \/ (array # <<>> /\ (AddPresent(x) \/ AddNew(x)))

RemoveAbsent(x) ==
  /\ array[Slot(x)] = Nil
  /\ Answer(<<>>)
  /\ UNCHANGED <<array, tally, walk>>

TallyKept == tally
TallyLess == tally - 1

RemovePresent(x) ==
  /\ array[Slot(x)] = x
  /\ Answer(<<x>>)
  /\ array' = FixCollisionsFrom(Stored(array, Slot(x), Nil), Slot(x))
  /\ tally' = TallyLess
  /\ walk' = IF ~walk.on THEN walk
             ELSE [walk EXCEPT !.removed = TRUE, !.due = {}, !.seen = {}, !.again = FALSE]

\* remove: x ifAbsent: a block.
Remove(x) ==
  /\ ~aborted
  /\ call' = <<"remove:ifAbsent:", x>>
  /\ NoSlots \/ (array # <<>> /\ (RemoveAbsent(x) \/ RemovePresent(x)))

Like(x) ==
  /\ ~aborted
  /\ call' = <<"like:", x>>
  /\ \/ NoSlots
     \/ /\ array # <<>>
        /\ Answer(IF array[Slot(x)] = x THEN <<x>> ELSE <<>>)
        /\ UNCHANGED <<array, tally, walk>>

Size ==
  /\ ~aborted
  /\ call' = <<"size">>
  /\ Answer(<<tally>>)
  /\ UNCHANGED <<array, tally, walk>>

\* do: begins; with no elements it is over at once.
DoBegin ==
  /\ ~aborted
  /\ ~walk.on /\ tally > 0
  /\ walk' = [NoWalk EXCEPT !.on = TRUE, !.next = 1, !.due = Elements(array)]
  /\ UNCHANGED <<array, tally, call, answer, aborted>>

WalkedPresent == array
Walked == IF walk.left THEN walk.over ELSE array

\* do: comes to its next slot, and gives the block the element there.
DoNext ==
  /\ ~aborted
  /\ walk.on /\ walk.next <= Len(Walked)
  /\ LET x == Walked[walk.next]
     IN walk' = IF x = Nil \/ walk.removed THEN [walk EXCEPT !.next = @ + 1]
                ELSE [walk EXCEPT !.next = @ + 1, !.seen = @ \cup {x},
                                  !.again = @ \/ x \in walk.seen]
  /\ UNCHANGED <<array, tally, call, answer, aborted>>

\* do: ends: after the last slot, or by a non-local return of its block.
DoEnd ==
  /\ ~aborted
  /\ walk.on
  /\ walk' = NoWalk
  /\ UNCHANGED <<array, tally, call, answer, aborted>>

Next ==
  \/ \E x \in Element : Add(x) \/ Remove(x) \/ Like(x)
  \/ Size
  \/ DoBegin
  \/ DoNext
  \/ DoEnd

Spec == Init /\ [][Next]_vars
-----------------------------------------------------------------------------
TypeOK ==
  /\ array \in Seq(Element \cup {Nil})
  /\ tally \in 0..Len(array)
  /\ walk \in Walk
  /\ aborted \in BOOLEAN

(***************************************************************************)
(* Every scan ends where it should.  One for an element ends at its slot:  *)
(* no removal or relocation left an empty slot between an element and its  *)
(* hash, and no element is there twice.  One for what is not there ends at *)
(* an empty slot, unless there are no slots at all, and then only does a   *)
(* message abort.  So findElementOrNil: never answers 0, which its sender  *)
(* would take for an index, and fixCollisionsFrom: does not run forever.   *)
(***************************************************************************)
ScansArrive ==
  /\ \A i \in DOMAIN array : array[i] # Nil => ScanFor(array, array[i]) = i
  /\ array # <<>> => \E i \in DOMAIN array : array[i] = Nil
  /\ aborted => array = <<>>

(***************************************************************************)
(* The block of a do: may add elements: whether the set grows under it or  *)
(* not, each element the set held at the start is given to it once, and no *)
(* element twice.  (Removing relocates elements past or back before the    *)
(* next slot, so it gives no such promise.)                                *)
(***************************************************************************)
GivenOnce ==
  walk.on /\ ~walk.removed =>
    /\ ~walk.again
    /\ walk.next > Len(Walked) => walk.due \subseteq walk.seen

\* What the messages answer is what a collection of unequal elements would.
Abstract == INSTANCE UnequalElements WITH elements <- Elements(array)
Implements == Abstract!Spec
=============================================================================
