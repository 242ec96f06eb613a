-------------------------- MODULE OrderedCollection --------------------------
(***************************************************************************)
(* One OrderedCollection of src/object/st80/OrderedCollection.st: an array *)
(* of which the slots firstIndex .. lastIndex hold the elements, the room  *)
(* that additions make at either end, and a do: whose block goes on using  *)
(* the collection.  Errors (error:, doesNotUnderstand:) abort the program. *)
(***************************************************************************)
EXTENDS Integers, Sequences

CONSTANTS Elem,      \* the objects put into the collection
          nil,       \* the content of a slot nothing was put into
          NewSizes,  \* the arguments of new: the program uses
          Index,     \* the indices the program uses
          MaxArray   \* bound: length of the array an addition may be made to

ASSUME OrderedCollectionAssumption ==
  /\ nil \notin Elem
  /\ NewSizes \subseteq Nat
  /\ Index \subseteq Nat
  /\ MaxArray \in Nat

VARIABLES coll,    \* the receiver: [array, firstIndex, lastIndex]
          call,    \* the last message it was sent: selector and indices
          answer,  \* what that answered: <<x>>, or <<>> for nothing
          halted,  \* why the program was aborted, or "no"
          visit    \* the do: in progress

vars == <<coll, call, answer, halted, visit>>

Slot == Elem \cup {nil}
Collection == [array : Seq(Slot), firstIndex : Nat, lastIndex : Nat]
Operation == {"new:", "addFirst:", "addLast:", "removeFirst", "removeLast", "at:",
              "at:put:", "copyFrom:to:", "do:"}
Message == [op : Operation, from : Nat, to : Nat]
Reason == {"no", "empty", "index", "primitive", "doesNotUnderstand"}

(***************************************************************************)
(* do: runs 'offset' from 0 to the 'limit' it computed when it started;    *)
(* 'appending': its block has only added at the end since; 'seen': if so,  *)
(* the elements passed to the block.                                       *)
(***************************************************************************)
NoVisit == [limit |-> -1, offset |-> 0, seen |-> <<>>, appending |-> TRUE]
Visit == [limit : Int, offset : Nat, seen : Seq(Slot), appending : BOOLEAN]

Larger(m, n) == IF m < n THEN n ELSE m

Blank(n) == [i \in 1 .. n |-> nil]

Size(c) == c.lastIndex - c.firstIndex + 1

\* reset
Reset(array) ==
  LET first == Larger(Len(array) \div 3, 1)
  IN [array |-> array, firstIndex |-> first, lastIndex |-> first - 1]

\* new:
New(n) == Reset(Blank(n))

\* The elements moved by delta, in an array of length n whose other slots are
\* those of 'old' (or nil past its end).
Moved(c, old, n, delta) ==
  [array |-> [i \in 1 .. n |->
                IF i - delta \in c.firstIndex .. c.lastIndex THEN c.array[i - delta]
                ELSE IF i <= Len(old) THEN old[i] ELSE nil],
   firstIndex |-> c.firstIndex + delta,
   lastIndex |-> c.lastIndex + delta]

ResetToEnd(c) ==
  [array |-> c.array, firstIndex |-> Len(c.array) + 1, lastIndex |-> Len(c.array)]

\* Mutant: shifts to the end when the array is full to its half or more.
MakeRoomAtFirstShifting(c) ==
  IF Size(c) = 0 /\ Len(c.array) > 0
    THEN ResetToEnd(c)
  ELSE IF Size(c) * 2 <= Len(c.array) + 1
    THEN Moved(c, c.array, Len(c.array), Len(c.array) - c.lastIndex)
  ELSE Moved(c, <<>>, Size(c) + Len(c.array), Len(c.array))

MakeRoomAtFirst(c) ==
  IF Size(c) = 0 /\ Len(c.array) > 0
    THEN ResetToEnd(c)
  ELSE IF Size(c) * 2 < Len(c.array)
    THEN Moved(c, c.array, Len(c.array), Len(c.array) - c.lastIndex)
  ELSE Moved(c, <<>>, Size(c) + Len(c.array), Len(c.array))

\* Mutant: the shift forgets to move the elements.
MakeRoomAtLastLateShift(c) ==
  IF Size(c) * 2 < Len(c.array)
    THEN [c EXCEPT !.firstIndex = 1, !.lastIndex = Size(c)]
  ELSE Moved(c, <<>>, Size(c) + Len(c.array), 0)

\* (A collection emptied at the end of its array never gets here: see AddLast.)
MakeRoomAtLast(c) ==
  IF Size(c) * 2 < Len(c.array)
    THEN Moved(c, c.array, Len(c.array), 1 - c.firstIndex)
  ELSE Moved(c, <<>>, Size(c) + Len(c.array), 0)

\* x is stored in slot i; the elements are now in slots first .. last.
Stored(c, i, x, first, last) ==
  [array |-> [c.array EXCEPT ![i] = x], firstIndex |-> first, lastIndex |-> last]

Init ==
  /\ \E n \in NewSizes : coll = New(n)
  /\ call = [op |-> "new:", from |-> 0, to |-> 0]
  /\ answer = <<>>
  /\ halted = "no"
  /\ visit = NoVisit

\* A message, which is answered unless the program has been aborted.
Sent(op, i, j) ==
  /\ halted = "no"
  /\ call' = [op |-> op, from |-> i, to |-> j]

Fail(reason) ==
  /\ halted' = reason
  /\ answer' = <<>>
  /\ UNCHANGED <<coll, visit>>

\* The operation leaves the collection c and answers x.
Become(c, x) ==
  /\ coll' = c
  /\ answer' = x
  /\ UNCHANGED halted

Disturb ==
  visit' = IF visit = NoVisit THEN NoVisit
           ELSE [visit EXCEPT !.appending = FALSE, !.seen = <<>>]

AddFirst(x) ==
  LET c == IF coll.firstIndex = 1 THEN MakeRoomAtFirst(coll) ELSE coll
      i == c.firstIndex - 1
  IN /\ Sent("addFirst:", 0, 0)
     /\ Len(c.array) <= MaxArray
     /\ IF i \in DOMAIN c.array
        THEN Become(Stored(c, i, x, i, c.lastIndex), <<x>>) /\ Disturb
        ELSE Fail("primitive")

\* resetToBeginning, which makeRoomAtLast sends itself, is not defined.
AddLast(x) ==
  LET full == coll.lastIndex = Len(coll.array)
      c == IF full THEN MakeRoomAtLast(coll) ELSE coll
      i == c.lastIndex + 1
  IN /\ Sent("addLast:", 0, 0)
     /\ Len(c.array) <= MaxArray
     /\ IF full /\ Size(coll) = 0 /\ Len(coll.array) > 0
          THEN Fail("doesNotUnderstand")
        ELSE IF i \in DOMAIN c.array
          THEN /\ Become(Stored(c, i, x, c.firstIndex, i), <<x>>)
               /\ UNCHANGED visit
        ELSE Fail("primitive")

\* Mutant: no emptyCheck.
RemoveFirstUnchecked ==
  LET i == coll.firstIndex
  IN /\ Sent("removeFirst", 0, 0)
     /\ i \in DOMAIN coll.array
     /\ Become(Stored(coll, i, nil, i + 1, coll.lastIndex), <<coll.array[i]>>)
     /\ Disturb

RemoveFirst ==
  LET i == coll.firstIndex
  IN /\ Sent("removeFirst", 0, 0)
     /\ IF Size(coll) = 0 THEN Fail("empty")
        ELSE /\ Become(Stored(coll, i, nil, i + 1, coll.lastIndex), <<coll.array[i]>>)
             /\ Disturb

RemoveLast ==
  LET i == coll.lastIndex
  IN /\ Sent("removeLast", 0, 0)
     /\ IF Size(coll) = 0 THEN Fail("empty")
        ELSE /\ Become(Stored(coll, i, nil, coll.firstIndex, i - 1), <<coll.array[i]>>)
             /\ Disturb

Position(n) == coll.firstIndex + n - 1
Within(n) == n >= 1 /\ Position(n) <= coll.lastIndex

At(n) ==
  /\ Sent("at:", n, n)
  /\ IF Within(n)
     THEN Become(coll, <<coll.array[Position(n)]>>) /\ UNCHANGED visit
     ELSE Fail("index")

AtPut(n, x) ==
  /\ Sent("at:put:", n, n)
  /\ IF Within(n)
     THEN /\ Become(Stored(coll, Position(n), x, coll.firstIndex, coll.lastIndex), <<x>>)
          /\ Disturb
     ELSE Fail("index")

(***************************************************************************)
(* copyFrom:to: answers a collection of its own, made by addLast: from     *)
(* new: size; the program goes on with the copy.  From six elements on     *)
(* reset leaves room before the first, and the last additions grow it.     *)
(***************************************************************************)
CopyOf(c, first, last) ==
  LET n == last + 1 - first
      d == New(n)
      room == IF d.firstIndex > 1 THEN 2 * n - d.firstIndex + 1 ELSE n
  IN [array |-> [i \in 1 .. room |->
                   IF i \in d.firstIndex .. d.lastIndex + n
                   THEN c.array[c.firstIndex + first - 1 + i - d.firstIndex] ELSE nil],
      firstIndex |-> d.firstIndex,
      lastIndex |-> d.lastIndex + n]

CopyFromTo(first, last) ==
  /\ Sent("copyFrom:to:", first, last)
  /\ visit = NoVisit   \* bound: not from the block of a do:
  /\ IF last < first THEN Become(New(0), <<>>) /\ UNCHANGED visit
     ELSE IF Within(first) /\ Within(last)
       THEN Become(CopyOf(coll, first, last), <<>>) /\ UNCHANGED visit
     ELSE Fail("index")

-----------------------------------------------------------------------------
(* do: *)

DoStart ==
  /\ Sent("do:", 0, 0)
  /\ visit = NoVisit
  /\ Size(coll) > 0
  /\ visit' = [NoVisit EXCEPT !.limit = coll.lastIndex - coll.firstIndex]
  /\ Become(coll, <<>>)

\* The next element is read from where the elements are now.
DoNext ==
  LET i == coll.firstIndex + visit.offset
  IN /\ Sent("do:", 0, 0)
     /\ visit.offset <= visit.limit
     /\ IF i \in DOMAIN coll.array
        THEN /\ Become(coll, <<>>)
             /\ visit' = [visit EXCEPT
                            !.offset = @ + 1,
                            !.seen = IF visit.appending THEN Append(@, coll.array[i]) ELSE @]
        ELSE Fail("primitive")

DoEnd ==
  /\ Sent("do:", 0, 0)
  /\ visit # NoVisit
  /\ visit.offset > visit.limit
  /\ visit' = NoVisit
  /\ Become(coll, <<>>)

Next ==
  \/ \E x \in Elem : AddFirst(x) \/ AddLast(x)
  \/ \E n \in Index, x \in Elem : AtPut(n, x)
  \/ RemoveFirst
  \/ RemoveLast
  \/ \E n \in Index : At(n)
  \/ \E i, j \in Index : CopyFromTo(i, j)
  \/ DoStart
  \/ DoNext
  \/ DoEnd

Spec == Init /\ [][Next]_vars

-----------------------------------------------------------------------------
Contents(c) == [i \in 1 .. Size(c) |-> c.array[c.firstIndex + i - 1]]
Items == Contents(coll)

\* The elements lie within the array.
WellFormed(c) ==
  /\ c \in Collection
  /\ c.firstIndex >= 1
  /\ c.firstIndex <= c.lastIndex + 1
  /\ c.lastIndex <= Len(c.array)

TypeOK ==
  /\ WellFormed(coll)
  /\ call \in Message
  /\ answer \in {<<>>} \cup {<<x>> : x \in Slot}
  /\ halted \in Reason
  /\ visit \in Visit

Abstract == INSTANCE Deque WITH items <- Items, aborted <- (halted # "no")

\* Wherever the elements lie in the array, and whenever they are moved, the
\* collection answers what a sequence would, and a message other than do:
\* aborts the program only when an element that is not there is asked for, or
\* an object is added to an empty collection.
DequeSpec == Abstract!Spec

\* do: sees the collection being changed.  If all its block does is to add at
\* the end, it passes the elements there were when it started, each once and
\* in order, although the elements may move or the array be replaced between
\* two of them, and it never reaches beyond the array.
AppendingBodySeesAll ==
  visit # NoVisit /\ visit.appending =>
    /\ visit.limit < Size(coll)
    /\ visit.seen = SubSeq(Items, 1, visit.offset)
    /\ halted # "primitive"

\* "The following are intended to cater well for OrderedCollections used as
\* either queues (FIFO) or stacks (LIFO)" (st80/OrderedCollection.st:116): the
\* operations that make room understand the messages they send themselves.
MakesRoomForQueues == halted # "doesNotUnderstand"
=============================================================================
