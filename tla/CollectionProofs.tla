-------------------------- MODULE CollectionProofs --------------------------
(***************************************************************************)
(* Proofs about OrderedCollection: its elements always lie within its      *)
(* array, making room never loses or reorders one, and it implements a     *)
(* Deque, whatever the sizes, indices and objects the program uses.        *)
(*                                                                         *)
(* And about AVLTree: the heights a tree records are those of its levels,  *)
(* or one less, and do: gives the items in their order, whatever the keys, *)
(* their number and the order they are added in.                           *)
(***************************************************************************)
EXTENDS OrderedCollection, AVLTree,
        SequenceTheorems, FunctionTheorems, FiniteSetTheorems, WellFoundedInduction, TLAPS

LEMMA InWindow ==
  ASSUME NEW f \in Nat, NEW l \in Nat, NEW n \in Nat, f >= 1, l <= n,
         NEW k \in 1 .. l - f + 1
  PROVE  f + k - 1 \in 1 .. n
OBVIOUS

LEMMA SizeIsNat ==
  ASSUME NEW c, WellFormed(c)
  PROVE  /\ c.array \in Seq(Slot) /\ c.firstIndex \in Nat /\ c.lastIndex \in Nat
         /\ Len(c.array) \in Nat
         /\ DOMAIN c.array = 1 .. Len(c.array)
         /\ \A i \in 1 .. Len(c.array) : c.array[i] \in Slot
         /\ Size(c) \in Nat
         /\ Contents(c) \in Seq(Slot) /\ Len(Contents(c)) = Size(c)
         /\ \A i \in 1 .. Size(c) : Contents(c)[i] = c.array[c.firstIndex + i - 1]
<1>1. c.array \in Seq(Slot) /\ c.firstIndex \in Nat /\ c.lastIndex \in Nat
  BY DEF WellFormed, Collection
<1>2. /\ Len(c.array) \in Nat
      /\ DOMAIN c.array = 1 .. Len(c.array)
      /\ \A i \in 1 .. Len(c.array) : c.array[i] \in Slot
  BY <1>1
<1>3. Size(c) \in Nat
  BY <1>1 DEF WellFormed, Size
<1>4. \A i \in 1 .. Size(c) : c.array[c.firstIndex + i - 1] \in Slot
  <2> SUFFICES ASSUME NEW i \in 1 .. Size(c)
               PROVE  c.firstIndex + i - 1 \in 1 .. Len(c.array)
    BY <1>2
  <2> QED
    BY <1>1, <1>2 DEF WellFormed, Size
<1>5. /\ Contents(c) \in Seq(Slot) /\ Len(Contents(c)) = Size(c)
      /\ \A i \in 1 .. Size(c) : Contents(c)[i] = c.array[c.firstIndex + i - 1]
  <2>1. Contents(c) \in [1 .. Size(c) -> Slot]
    BY <1>4 DEF Contents
  <2> QED
    BY <1>3, <2>1, LenProperties, IsASeq DEF Contents
<1> QED
  BY <1>1, <1>2, <1>3, <1>5

(***************************************************************************)
(* Moving the elements within bounds keeps them all, in order.             *)
(***************************************************************************)
LEMMA MovedKeeps ==
  ASSUME NEW c, WellFormed(c), NEW old \in Seq(Slot), NEW n \in Nat, NEW delta \in Int,
         c.firstIndex + delta >= 1, c.lastIndex + delta <= n
  PROVE  /\ WellFormed(Moved(c, old, n, delta))
         /\ Contents(Moved(c, old, n, delta)) = Contents(c)
<1> DEFINE m == Moved(c, old, n, delta)
<1>1. /\ m.array = [i \in 1 .. n |->
                IF i - delta \in c.firstIndex .. c.lastIndex THEN c.array[i - delta]
                ELSE IF i <= Len(old) THEN old[i] ELSE nil]
      /\ m = [array |-> m.array, firstIndex |-> m.firstIndex, lastIndex |-> m.lastIndex]
  BY DEF Moved
<1>b. m.firstIndex = c.firstIndex + delta /\ m.lastIndex = c.lastIndex + delta
  BY DEF Moved
<1>a. c.array \in Seq(Slot)
  BY SizeIsNat
<1>2. /\ c.firstIndex \in Nat /\ c.lastIndex \in Nat /\ Len(c.array) \in Nat
      /\ c.firstIndex >= 1 /\ c.firstIndex <= c.lastIndex + 1 /\ c.lastIndex <= Len(c.array)
  BY SizeIsNat DEF WellFormed
<1> HIDE DEF m
<1>3. m.array \in [1 .. n -> Slot]
  <2>1. ASSUME NEW i \in 1 .. n, i - delta \in c.firstIndex .. c.lastIndex
        PROVE  c.array[i - delta] \in Slot
    <3>1. i - delta \in 1 .. Len(c.array)
      BY <1>2, <2>1
    <3> QED
      BY <3>1, <1>a
  <2>2. ASSUME NEW i \in 1 .. n, i <= Len(old)
        PROVE  old[i] \in Slot
    BY <2>2
  <2>3. nil \in Slot
    BY DEF Slot
  <2> QED
    BY <1>1, <2>1, <2>2, <2>3
<1>4. m.array \in Seq(Slot) /\ Len(m.array) = n
  BY <1>3, IsASeq, LenProperties
<1>5. WellFormed(m)
  <2>1. /\ m.firstIndex \in Nat /\ m.lastIndex \in Nat
        /\ m.firstIndex >= 1 /\ m.firstIndex <= m.lastIndex + 1 /\ m.lastIndex <= n
    BY <1>b, <1>2
  <2>2. m \in Collection
    BY <1>1, <1>4, <2>1 DEF Collection
  <2> QED
    BY <1>4, <2>1, <2>2 DEF WellFormed
<1>6. Size(m) = Size(c)
  BY <1>b, <1>2 DEF Size
<1>7. ASSUME NEW i \in 1 .. Size(c)
      PROVE  m.array[m.firstIndex + i - 1] = c.array[c.firstIndex + i - 1]
  <2>1. i \in Int /\ i >= 1 /\ i <= c.lastIndex - c.firstIndex + 1
    BY <1>2 DEF Size
  <2>2. PICK j \in c.firstIndex .. c.lastIndex : j = c.firstIndex + i - 1
    <3>1. c.firstIndex + i - 1 \in c.firstIndex .. c.lastIndex
      BY <1>2, <2>1
    <3> QED
      BY <3>1
  <2>3. PICK k \in 1 .. n : k = j + delta
    BY <1>2, <2>2
  <2>4. k - delta = j /\ m.firstIndex + i - 1 = k
    BY <1>b, <1>2, <2>1, <2>2, <2>3, SMTT(30)
  <2>5. m.array[k] = c.array[k - delta]
    BY <1>1, <2>4
  <2> QED
    BY <2>2, <2>4, <2>5
<1>8. Contents(m) = Contents(c)
  BY <1>6, <1>7 DEF Contents
<1> QED
  BY <1>5, <1>8 DEF m

LEMMA RoomAtFirst ==
  ASSUME NEW c, WellFormed(c), c.firstIndex = 1
  PROVE  /\ WellFormed(MakeRoomAtFirst(c))
         /\ Contents(MakeRoomAtFirst(c)) = Contents(c)
         /\ Size(c) > 0 => MakeRoomAtFirst(c).firstIndex > 1
<1>a. c.array \in Seq(Slot)
  BY SizeIsNat
<1>1. /\ c.lastIndex \in Nat /\ c.lastIndex <= Len(c.array)
      /\ Len(c.array) \in Nat /\ Size(c) = c.lastIndex
  BY SizeIsNat DEF WellFormed, Size
<1>2. CASE Size(c) = 0 /\ Len(c.array) > 0
  <2> DEFINE m == ResetToEnd(c)
  <2>1. /\ MakeRoomAtFirst(c) = m /\ m.array = c.array
        /\ m.firstIndex = Len(c.array) + 1 /\ m.lastIndex = Len(c.array)
        /\ m = [array |-> m.array, firstIndex |-> m.firstIndex, lastIndex |-> m.lastIndex]
    BY <1>2 DEF MakeRoomAtFirst, ResetToEnd
  <2> HIDE DEF m
  <2>2. WellFormed(m) /\ Size(m) = 0
    <3>1. m.firstIndex \in Nat /\ m.lastIndex \in Nat
      BY <2>1, <1>1
    <3>2. m \in Collection
      BY <2>1, <1>a, <3>1 DEF Collection
    <3> QED
      BY <2>1, <1>1, <3>1, <3>2 DEF WellFormed, Size
  <2>3. Contents(m) = Contents(c)
    BY <2>2, <1>2 DEF Contents
  <2> QED
    BY <2>1, <2>2, <2>3, <1>2
<1>3. CASE ~(Size(c) = 0 /\ Len(c.array) > 0) /\ Size(c) * 2 < Len(c.array)
  <2> DEFINE d == Len(c.array) - c.lastIndex
  <2>1. MakeRoomAtFirst(c) = Moved(c, c.array, Len(c.array), d)
    BY <1>3 DEF MakeRoomAtFirst
  <2>2. d \in Int /\ d > 0 /\ c.firstIndex + d >= 1 /\ c.lastIndex + d <= Len(c.array)
    BY <1>1, <1>3
  <2>3. Moved(c, c.array, Len(c.array), d).firstIndex = c.firstIndex + d
    BY DEF Moved
  <2> HIDE DEF d
  <2>4. /\ WellFormed(Moved(c, c.array, Len(c.array), d))
        /\ Contents(Moved(c, c.array, Len(c.array), d)) = Contents(c)
    BY <2>2, <1>a, <1>1, MovedKeeps
  <2> QED
    BY <2>1, <2>2, <2>3, <2>4
<1>4. CASE ~(Size(c) = 0 /\ Len(c.array) > 0) /\ ~(Size(c) * 2 < Len(c.array))
  <2> DEFINE n == Size(c) + Len(c.array)
  <2>1. MakeRoomAtFirst(c) = Moved(c, <<>>, n, Len(c.array))
    BY <1>4 DEF MakeRoomAtFirst
  <2>2. n \in Nat /\ c.firstIndex + Len(c.array) >= 1 /\ c.lastIndex + Len(c.array) <= n
        /\ Len(c.array) \in Int
    BY <1>1
  <2>3. Moved(c, <<>>, n, Len(c.array)).firstIndex = 1 + Len(c.array)
    BY DEF Moved
  <2>4. Size(c) > 0 => Len(c.array) > 0
    BY <1>1
  <2>5. <<>> \in Seq(Slot)
    OBVIOUS
  <2> HIDE DEF n
  <2>6. /\ WellFormed(Moved(c, <<>>, n, Len(c.array)))
        /\ Contents(Moved(c, <<>>, n, Len(c.array))) = Contents(c)
    BY <2>2, <2>5, MovedKeeps
  <2>7. Size(c) > 0 => 1 + Len(c.array) > 1
    BY <1>1, <2>4
  <2> QED
    BY <2>1, <2>3, <2>6, <2>7
<1> QED
  BY <1>2, <1>3, <1>4

LEMMA RoomAtLast ==
  ASSUME NEW c, WellFormed(c), c.lastIndex = Len(c.array)
  PROVE  /\ WellFormed(MakeRoomAtLast(c))
         /\ Contents(MakeRoomAtLast(c)) = Contents(c)
         /\ Size(c) > 0 => MakeRoomAtLast(c).lastIndex < Len(MakeRoomAtLast(c).array)
         /\ c.firstIndex > 0
<1>a. c.array \in Seq(Slot)
  BY SizeIsNat
<1>1. /\ c.lastIndex \in Nat /\ c.firstIndex \in Nat /\ c.lastIndex = Len(c.array)
      /\ Len(c.array) \in Nat /\ Size(c) \in Nat /\ Size(c) = c.lastIndex - c.firstIndex + 1
      /\ c.firstIndex >= 1 /\ c.firstIndex <= c.lastIndex + 1
  BY SizeIsNat DEF WellFormed, Size
<1>2. CASE Size(c) * 2 < Len(c.array)
  <2> DEFINE d == 1 - c.firstIndex
  <2>1. MakeRoomAtLast(c) = Moved(c, c.array, Len(c.array), d)
    BY <1>2 DEF MakeRoomAtLast
  <2>2. d \in Int /\ c.firstIndex + d >= 1 /\ c.lastIndex + d <= Len(c.array)
        /\ c.lastIndex + d < Len(c.array)
    BY <1>1, <1>2
  <2>3. /\ Moved(c, c.array, Len(c.array), d).lastIndex = c.lastIndex + d
        /\ Len(Moved(c, c.array, Len(c.array), d).array) = Len(c.array)
    BY <1>1, LenProperties DEF Moved
  <2> HIDE DEF d
  <2>4. /\ WellFormed(Moved(c, c.array, Len(c.array), d))
        /\ Contents(Moved(c, c.array, Len(c.array), d)) = Contents(c)
    BY <2>2, <1>a, <1>1, MovedKeeps
  <2> QED
    BY <2>1, <2>2, <2>3, <2>4, <1>1
<1>3. CASE ~(Size(c) * 2 < Len(c.array))
  <2> DEFINE n == Size(c) + Len(c.array)
             d == 0
  <2>1. MakeRoomAtLast(c) = Moved(c, <<>>, n, d)
    BY <1>3 DEF MakeRoomAtLast
  <2>2. n \in Nat /\ d \in Int /\ c.firstIndex + d >= 1 /\ c.lastIndex + d <= n
        /\ (Size(c) > 0 => c.lastIndex + d < n)
    BY <1>1, SMTT(30)
  <2>3. /\ Moved(c, <<>>, n, d).lastIndex = c.lastIndex + d
        /\ Len(Moved(c, <<>>, n, d).array) = n
    BY <1>1, <2>2, LenProperties DEF Moved
  <2>4. <<>> \in Seq(Slot)
    OBVIOUS
  <2> HIDE DEF n, d
  <2>5. /\ WellFormed(Moved(c, <<>>, n, d))
        /\ Contents(Moved(c, <<>>, n, d)) = Contents(c)
    BY <2>2, <2>4, MovedKeeps
  <2> QED
    BY <2>1, <2>2, <2>3, <2>5, <1>1
<1> QED
  BY <1>1, <1>2, <1>3

-----------------------------------------------------------------------------
(***************************************************************************)
(* What the three ways of changing a well formed collection make of its    *)
(* contents.                                                               *)
(***************************************************************************)
LEMMA StoredIn ==
  ASSUME NEW c, WellFormed(c), NEW i \in 1 .. Len(c.array), NEW e \in Slot
  PROVE  /\ [c.array EXCEPT ![i] = e] \in Seq(Slot)
         /\ Len([c.array EXCEPT ![i] = e]) = Len(c.array)
         /\ \A j \in 1 .. Len(c.array) :
              [c.array EXCEPT ![i] = e][j] = IF j = i THEN e ELSE c.array[j]
BY SizeIsNat, ExceptSeq

\* Any well formed collection is known by its array and its bounds.
LEMMA Window ==
  ASSUME NEW a \in Seq(Slot), NEW f \in Nat, NEW l \in Nat,
         f >= 1, f <= l + 1, l <= Len(a),
         NEW c, c = [array |-> a, firstIndex |-> f, lastIndex |-> l]
  PROVE  /\ WellFormed(c)
         /\ Size(c) = l - f + 1
         /\ Contents(c) \in Seq(Slot)
         /\ Len(Contents(c)) = l - f + 1
         /\ \A i \in 1 .. l - f + 1 : Contents(c)[i] = a[f + i - 1]
<1>1. WellFormed(c) /\ Size(c) = l - f + 1
  BY DEF WellFormed, Collection, Size
<1>2. c.array = a /\ c.firstIndex = f
  OBVIOUS
<1>3. /\ Contents(c) \in Seq(Slot) /\ Len(Contents(c)) = Size(c)
      /\ \A i \in 1 .. Size(c) : Contents(c)[i] = c.array[c.firstIndex + i - 1]
  BY <1>1, SizeIsNat
<1> QED
  BY <1>1, <1>2, <1>3

LEMMA Prepended ==
  ASSUME NEW c, WellFormed(c), NEW i \in Nat, i = c.firstIndex - 1, i >= 1, NEW e \in Slot
  PROVE  LET d == Stored(c, i, e, i, c.lastIndex)
         IN WellFormed(d) /\ Contents(d) = <<e>> \o Contents(c)
<1> DEFINE a == [c.array EXCEPT ![i] = e]
           d == Stored(c, i, e, i, c.lastIndex)
<1>1. /\ c.firstIndex \in Nat /\ c.lastIndex \in Nat /\ Len(c.array) \in Nat
      /\ c.firstIndex <= c.lastIndex + 1 /\ c.lastIndex <= Len(c.array)
  BY SizeIsNat DEF WellFormed
<1>2. i \in 1 .. Len(c.array) /\ i <= c.lastIndex + 1
  BY <1>1
<1>3. a \in Seq(Slot) /\ Len(a) = Len(c.array)
  BY <1>2, StoredIn
<1>4. d = [array |-> a, firstIndex |-> i, lastIndex |-> c.lastIndex]
  BY DEF Stored
<1>5. \A j \in 1 .. Len(c.array) : a[j] = IF j = i THEN e ELSE c.array[j]
  BY <1>2, SizeIsNat, ExceptSeq
<1> HIDE DEF a, d
<1>6. /\ WellFormed(d) /\ Contents(d) \in Seq(Slot)
      /\ Len(Contents(d)) = c.lastIndex - i + 1
      /\ \A j \in 1 .. c.lastIndex - i + 1 : Contents(d)[j] = a[i + j - 1]
  BY <1>1, <1>2, <1>3, <1>4, Window, SMTT(30)
<1>7. Contents(c) \in Seq(Slot) /\ Len(Contents(c)) = c.lastIndex - c.firstIndex + 1
      /\ \A j \in 1 .. c.lastIndex - c.firstIndex + 1 :
           Contents(c)[j] = c.array[c.firstIndex + j - 1]
  BY SizeIsNat DEF Size
<1>8. c.lastIndex - i + 1 = 1 + (c.lastIndex - c.firstIndex + 1)
  BY <1>1
<1>9. /\ <<e>> \o Contents(c) \in Seq(Slot)
      /\ Len(<<e>> \o Contents(c)) = c.lastIndex - i + 1
  BY <1>7, <1>8, ConcatProperties
<1>10. ASSUME NEW j \in 1 .. c.lastIndex - i + 1
       PROVE  Contents(d)[j] = (<<e>> \o Contents(c))[j]
  <2>1. CASE j = 1
    <3>1. i + j - 1 = i
      BY <2>1
    <3> QED
      BY <1>2, <1>5, <1>6, <1>7, <2>1, <3>1
  <2>2. CASE j # 1
    <3>1. PICK k \in 1 .. c.lastIndex - c.firstIndex + 1 : k = j - 1
      BY <1>8, <1>1, <2>2
    <3>a. k \in Int /\ j \in Int /\ k >= 1 /\ k <= c.lastIndex - c.firstIndex + 1 /\ j = k + 1
      BY <1>1, <1>8, <3>1
    <3>b. i + j - 1 = c.firstIndex + k - 1 /\ i + j - 1 # i
      BY <1>1, <3>a, SMTT(30)
    <3>2. i + j - 1 = c.firstIndex + k - 1 /\ i + j - 1 \in 1 .. Len(c.array) /\ i + j - 1 # i
      <4>1. c.firstIndex + k - 1 \in 1 .. Len(c.array)
        <5>1. c.firstIndex >= 1
          BY <1>1
        <5> QED
          BY <1>1, <5>1, InWindow
      <4> QED
        BY <3>b, <4>1
    <3>3. (<<e>> \o Contents(c))[j] = Contents(c)[k]
      BY <1>7, <2>2, <3>1, <1>1, <1>8
    <3> QED
      BY <1>5, <1>6, <1>7, <3>1, <3>2, <3>3
  <2> QED
    BY <2>1, <2>2
<1>11. Contents(d) = <<e>> \o Contents(c)
  BY <1>6, <1>9, <1>10, SeqEqual
<1> QED
  BY <1>6, <1>11 DEF d

LEMMA Appended ==
  ASSUME NEW c, WellFormed(c), NEW i \in Nat, i = c.lastIndex + 1, i <= Len(c.array),
         NEW e \in Slot
  PROVE  LET d == Stored(c, i, e, c.firstIndex, i)
         IN WellFormed(d) /\ Contents(d) = Append(Contents(c), e)
<1> DEFINE a == [c.array EXCEPT ![i] = e]
           d == Stored(c, i, e, c.firstIndex, i)
<1>1. /\ c.firstIndex \in Nat /\ c.lastIndex \in Nat /\ Len(c.array) \in Nat
      /\ c.firstIndex >= 1 /\ c.firstIndex <= c.lastIndex + 1
  BY SizeIsNat DEF WellFormed
<1>2. i \in 1 .. Len(c.array) /\ c.firstIndex <= i + 1
  BY <1>1
<1>3. a \in Seq(Slot) /\ Len(a) = Len(c.array)
  BY <1>2, StoredIn
<1>4. d = [array |-> a, firstIndex |-> c.firstIndex, lastIndex |-> i]
  BY DEF Stored
<1>5. \A j \in 1 .. Len(c.array) : a[j] = IF j = i THEN e ELSE c.array[j]
  BY <1>2, SizeIsNat, ExceptSeq
<1> HIDE DEF a, d
<1>6. /\ WellFormed(d) /\ Contents(d) \in Seq(Slot)
      /\ Len(Contents(d)) = i - c.firstIndex + 1
      /\ \A j \in 1 .. i - c.firstIndex + 1 : Contents(d)[j] = a[c.firstIndex + j - 1]
  BY <1>1, <1>2, <1>3, <1>4, Window
<1>7. Contents(c) \in Seq(Slot) /\ Len(Contents(c)) = c.lastIndex - c.firstIndex + 1
      /\ \A j \in 1 .. c.lastIndex - c.firstIndex + 1 :
           Contents(c)[j] = c.array[c.firstIndex + j - 1]
  BY SizeIsNat DEF Size
<1>8. i - c.firstIndex + 1 = (c.lastIndex - c.firstIndex + 1) + 1
  BY <1>1
<1>9. /\ Append(Contents(c), e) \in Seq(Slot)
      /\ Len(Append(Contents(c), e)) = i - c.firstIndex + 1
  BY <1>7, <1>8, AppendProperties
<1>10. ASSUME NEW j \in 1 .. i - c.firstIndex + 1
       PROVE  Contents(d)[j] = Append(Contents(c), e)[j]
  <2>1. CASE j = i - c.firstIndex + 1
    <3>1. c.firstIndex + j - 1 = i
      BY <1>1, <2>1
    <3>2. Append(Contents(c), e)[j] = e
      BY <1>7, <1>8, <2>1, AppendProperties
    <3> QED
      BY <1>2, <1>5, <1>6, <3>1, <3>2
  <2>2. CASE j # i - c.firstIndex + 1
    <3>1. j \in 1 .. c.lastIndex - c.firstIndex + 1
      BY <1>8, <1>1, <2>2
    <3>a. j \in Int /\ j >= 1 /\ j <= c.lastIndex - c.firstIndex + 1
      BY <1>1, <3>1
    <3>b. c.firstIndex + j - 1 \in 1 .. Len(c.array)
      BY <1>1, <3>a
    <3>2. c.firstIndex + j - 1 \in 1 .. Len(c.array) /\ c.firstIndex + j - 1 # i
      BY <1>1, <3>a, <3>b
    <3>3. Append(Contents(c), e)[j] = Contents(c)[j]
      BY <1>7, <3>1, AppendProperties
    <3> QED
      BY <1>5, <1>6, <1>7, <3>1, <3>2, <3>3
  <2> QED
    BY <2>1, <2>2
<1>11. Contents(d) = Append(Contents(c), e)
  BY <1>6, <1>9, <1>10, SeqEqual
<1> QED
  BY <1>6, <1>11 DEF d

LEMMA FirstRemoved ==
  ASSUME NEW c, WellFormed(c), Size(c) > 0, NEW i \in Nat, i = c.firstIndex
  PROVE  LET d == Stored(c, i, nil, i + 1, c.lastIndex)
         IN /\ WellFormed(d)
            /\ Contents(d) = Tail(Contents(c))
            /\ Contents(c)[1] = c.array[i]
            /\ c.array[i] \in Slot
<1> DEFINE a == [c.array EXCEPT ![i] = nil]
           d == Stored(c, i, nil, i + 1, c.lastIndex)
<1>0. nil \in Slot
  BY DEF Slot
<1>1. /\ c.firstIndex \in Nat /\ c.lastIndex \in Nat /\ Len(c.array) \in Nat
      /\ i >= 1 /\ i <= c.lastIndex /\ c.lastIndex <= Len(c.array)
  BY SizeIsNat DEF WellFormed, Size
<1>2. i \in 1 .. Len(c.array)
  BY <1>1
<1>3. a \in Seq(Slot) /\ Len(a) = Len(c.array)
  BY <1>0, <1>2, StoredIn
<1>4. d = [array |-> a, firstIndex |-> i + 1, lastIndex |-> c.lastIndex]
  BY DEF Stored
<1>5. \A j \in 1 .. Len(c.array) : a[j] = IF j = i THEN nil ELSE c.array[j]
  BY <1>0, <1>2, SizeIsNat, ExceptSeq
<1> HIDE DEF a, d
<1>a. i + 1 \in Nat /\ i + 1 >= 1 /\ i + 1 <= c.lastIndex + 1
  BY <1>1
<1>6. /\ WellFormed(d) /\ Contents(d) \in Seq(Slot)
      /\ Len(Contents(d)) = c.lastIndex - (i + 1) + 1
      /\ \A j \in 1 .. c.lastIndex - (i + 1) + 1 : Contents(d)[j] = a[i + 1 + j - 1]
  BY <1>1, <1>a, <1>3, <1>4, Window
<1>7. Contents(c) \in Seq(Slot) /\ Len(Contents(c)) = c.lastIndex - i + 1
      /\ \A j \in 1 .. c.lastIndex - i + 1 : Contents(c)[j] = c.array[i + j - 1]
  BY SizeIsNat DEF Size
<1>8. c.lastIndex - (i + 1) + 1 = (c.lastIndex - i + 1) - 1 /\ c.lastIndex - i + 1 >= 1
  BY <1>1
<1>9. /\ Contents(c) # <<>>
      /\ Tail(Contents(c)) \in Seq(Slot)
      /\ Len(Tail(Contents(c))) = c.lastIndex - (i + 1) + 1
      /\ \A j \in 1 .. c.lastIndex - (i + 1) + 1 : Tail(Contents(c))[j] = Contents(c)[j + 1]
  BY <1>7, <1>8
<1>10. ASSUME NEW j \in 1 .. c.lastIndex - (i + 1) + 1
       PROVE  Contents(d)[j] = Tail(Contents(c))[j]
  <2>1. j \in Int /\ j >= 1 /\ j <= c.lastIndex - i
    BY <1>1
  <2>2. i + 1 + j - 1 = i + (j + 1) - 1 /\ j + 1 \in 1 .. c.lastIndex - i + 1
    BY <1>1, <2>1
  <2>3. i + 1 + j - 1 # i
    BY <2>1
  <2>4. i + 1 + j - 1 \in 1 .. Len(c.array)
    BY <1>1, <2>1
  <2>5. Contents(d)[j] = c.array[i + 1 + j - 1]
    BY <1>5, <1>6, <2>3, <2>4
  <2>6. Contents(c)[j + 1] = c.array[i + (j + 1) - 1]
    BY <1>7, <2>2
  <2> QED
    BY <1>9, <2>2, <2>5, <2>6
<1>11. Contents(d) = Tail(Contents(c))
  BY <1>6, <1>9, <1>10, SeqEqual
<1>12. Contents(c)[1] = c.array[i]
  <2>1. 1 \in 1 .. c.lastIndex - i + 1 /\ i + 1 - 1 = i
    BY <1>1
  <2> QED
    BY <1>7, <2>1
<1>13. c.array[i] \in Slot
  BY <1>2, SizeIsNat
<1> QED
  BY <1>6, <1>11, <1>12, <1>13 DEF d

LEMMA LastRemoved ==
  ASSUME NEW c, WellFormed(c), Size(c) > 0, NEW i \in Nat, i = c.lastIndex
  PROVE  LET d == Stored(c, i, nil, c.firstIndex, i - 1)
         IN /\ WellFormed(d)
            /\ Contents(d) = SubSeq(Contents(c), 1, Len(Contents(c)) - 1)
            /\ Contents(c)[Len(Contents(c))] = c.array[i]
            /\ c.array[i] \in Slot
<1> DEFINE a == [c.array EXCEPT ![i] = nil]
           d == Stored(c, i, nil, c.firstIndex, i - 1)
<1>0. nil \in Slot
  BY DEF Slot
<1>1. /\ c.firstIndex \in Nat /\ Len(c.array) \in Nat
      /\ c.firstIndex >= 1 /\ c.firstIndex <= i /\ i <= Len(c.array)
  BY SizeIsNat DEF WellFormed, Size
<1>2. i \in 1 .. Len(c.array)
  BY <1>1
<1>3. a \in Seq(Slot) /\ Len(a) = Len(c.array)
  BY <1>0, <1>2, StoredIn
<1>4. d = [array |-> a, firstIndex |-> c.firstIndex, lastIndex |-> i - 1]
  BY DEF Stored
<1>5. \A j \in 1 .. Len(c.array) : a[j] = IF j = i THEN nil ELSE c.array[j]
  BY <1>0, <1>2, SizeIsNat, ExceptSeq
<1> HIDE DEF a, d
<1>a. i - 1 \in Nat /\ c.firstIndex <= (i - 1) + 1 /\ i - 1 <= Len(c.array)
  BY <1>1
<1>6. /\ WellFormed(d) /\ Contents(d) \in Seq(Slot)
      /\ Len(Contents(d)) = (i - 1) - c.firstIndex + 1
      /\ \A j \in 1 .. (i - 1) - c.firstIndex + 1 : Contents(d)[j] = a[c.firstIndex + j - 1]
  <2> DEFINE l == i - 1
  <2>1. l \in Nat /\ c.firstIndex <= l + 1 /\ l <= Len(a)
    BY <1>a, <1>3
  <2>2. d = [array |-> a, firstIndex |-> c.firstIndex, lastIndex |-> l]
    BY <1>4
  <2>3. c.firstIndex \in Nat /\ c.firstIndex >= 1 /\ a \in Seq(Slot)
    BY <1>1, <1>3
  <2> HIDE DEF l
  <2>4. /\ WellFormed(d) /\ Contents(d) \in Seq(Slot)
        /\ Len(Contents(d)) = l - c.firstIndex + 1
        /\ \A j \in 1 .. l - c.firstIndex + 1 : Contents(d)[j] = a[c.firstIndex + j - 1]
    BY <2>1, <2>2, <2>3, Window
  <2> QED
    BY <2>4 DEF l
<1>7. Contents(c) \in Seq(Slot) /\ Len(Contents(c)) = i - c.firstIndex + 1
      /\ \A j \in 1 .. i - c.firstIndex + 1 : Contents(c)[j] = c.array[c.firstIndex + j - 1]
  BY SizeIsNat DEF Size
<1> DEFINE n == i - c.firstIndex
<1>8. /\ n \in Nat /\ (i - 1) - c.firstIndex + 1 = n
      /\ i - c.firstIndex + 1 = n + 1 /\ (n + 1) - 1 = n
  BY <1>1
<1>b. \A j \in 1 .. n : c.firstIndex + j - 1 \in 1 .. Len(c.array) /\ c.firstIndex + j - 1 # i
  BY <1>1
<1> HIDE DEF n
<1>9. /\ SubSeq(Contents(c), 1, n) \in Seq(Slot)
      /\ Len(SubSeq(Contents(c), 1, n)) = n
      /\ \A j \in 1 .. n : SubSeq(Contents(c), 1, n)[j] = Contents(c)[j]
  BY <1>7, <1>8, SubSeqProperties
<1>10. ASSUME NEW j \in 1 .. n
       PROVE  Contents(d)[j] = SubSeq(Contents(c), 1, n)[j]
  <2>1. j \in 1 .. n + 1
    BY <1>8
  <2>2. Contents(d)[j] = a[c.firstIndex + j - 1]
    BY <1>6, <1>8
  <2>3. a[c.firstIndex + j - 1] = c.array[c.firstIndex + j - 1]
    BY <1>5, <1>b
  <2>4. Contents(c)[j] = c.array[c.firstIndex + j - 1]
    BY <1>7, <1>8, <2>1
  <2> QED
    BY <1>9, <2>2, <2>3, <2>4
<1>11. Contents(d) = SubSeq(Contents(c), 1, n)
  BY <1>6, <1>8, <1>9, <1>10, SeqEqual
<1>12. Contents(c)[n + 1] = c.array[i]
  <2>1. n + 1 \in 1 .. n + 1 /\ c.firstIndex + (n + 1) - 1 = i
    BY <1>1 DEF n
  <2> QED
    BY <1>7, <1>8, <2>1
<1>13. c.array[i] \in Slot
  BY <1>2, SizeIsNat
<1> QED
  BY <1>6, <1>7, <1>8, <1>11, <1>12, <1>13 DEF d

LEMMA Overwritten ==
  ASSUME NEW c, WellFormed(c), NEW n \in 1 .. Size(c), NEW e \in Slot
  PROVE  LET d == Stored(c, c.firstIndex + n - 1, e, c.firstIndex, c.lastIndex)
         IN /\ WellFormed(d)
            /\ Contents(d) = [Contents(c) EXCEPT ![n] = e]
            /\ c.array[c.firstIndex + n - 1] \in Slot
<1>1. /\ c.firstIndex \in Nat /\ c.lastIndex \in Nat /\ Len(c.array) \in Nat
      /\ c.firstIndex >= 1 /\ c.firstIndex <= c.lastIndex + 1 /\ c.lastIndex <= Len(c.array)
      /\ Size(c) = c.lastIndex - c.firstIndex + 1
  BY SizeIsNat DEF WellFormed, Size
<1>2. PICK i \in 1 .. Len(c.array) : i = c.firstIndex + n - 1
  <2>1. c.firstIndex + n - 1 \in 1 .. Len(c.array)
    BY <1>1, InWindow
  <2> QED
    BY <2>1
<1> DEFINE a == [c.array EXCEPT ![i] = e]
           d == Stored(c, i, e, c.firstIndex, c.lastIndex)
<1>3. a \in Seq(Slot) /\ Len(a) = Len(c.array)
  BY StoredIn
<1>4. d = [array |-> a, firstIndex |-> c.firstIndex, lastIndex |-> c.lastIndex]
  BY DEF Stored
<1>5. \A j \in 1 .. Len(c.array) : a[j] = IF j = i THEN e ELSE c.array[j]
  BY SizeIsNat, ExceptSeq
<1> HIDE DEF a, d
<1>6. /\ WellFormed(d) /\ Contents(d) \in Seq(Slot)
      /\ Len(Contents(d)) = Size(c)
      /\ \A j \in 1 .. Size(c) : Contents(d)[j] = a[c.firstIndex + j - 1]
  BY <1>1, <1>3, <1>4, Window
<1>7. /\ Contents(c) \in Seq(Slot) /\ Len(Contents(c)) = Size(c)
      /\ \A j \in 1 .. Size(c) : Contents(c)[j] = c.array[c.firstIndex + j - 1]
  BY SizeIsNat
<1>8. /\ [Contents(c) EXCEPT ![n] = e] \in Seq(Slot)
      /\ Len([Contents(c) EXCEPT ![n] = e]) = Size(c)
      /\ \A j \in 1 .. Size(c) :
           [Contents(c) EXCEPT ![n] = e][j] = IF j = n THEN e ELSE Contents(c)[j]
  BY <1>7, ExceptSeq
<1>9. ASSUME NEW j \in 1 .. Size(c)
      PROVE  Contents(d)[j] = [Contents(c) EXCEPT ![n] = e][j]
  <2>1. PICK k \in 1 .. Len(c.array) : k = c.firstIndex + j - 1
    <3>1. c.firstIndex + j - 1 \in 1 .. Len(c.array)
      BY <1>1, InWindow
    <3> QED
      BY <3>1
  <2>2. k = i <=> j = n
    BY <1>1, <1>2, <2>1
  <2> QED
    BY <1>5, <1>6, <1>7, <1>8, <2>1, <2>2
<1>10. Contents(d) = [Contents(c) EXCEPT ![n] = e]
  BY <1>6, <1>8, <1>9, SeqEqual
<1>11. c.array[i] \in Slot
  BY SizeIsNat
<1> QED
  BY <1>2, <1>6, <1>10, <1>11 DEF d

LEMMA NewIsEmpty ==
  ASSUME NEW n \in Nat
  PROVE  /\ WellFormed(New(n))
         /\ Contents(New(n)) = <<>>
         /\ New(n).firstIndex \in Nat /\ New(n).firstIndex >= 1
         /\ New(n).firstIndex = 1 \/ New(n).firstIndex <= n
         /\ New(n).lastIndex = New(n).firstIndex - 1
         /\ n >= 1 => New(n).firstIndex <= n
         /\ 2 * New(n).firstIndex <= n + 2
         /\ Len(New(n).array) = n
<1> DEFINE f == Larger(n \div 3, 1)
<1>1. /\ f \in Nat /\ f >= 1 /\ f <= n + 1
      /\ (f = 1 \/ f <= n) /\ (n >= 1 => f <= n) /\ 2 * f <= n + 2
      /\ f - 1 \in Nat /\ f - 1 <= n
  BY DEF Larger
<1>2. Blank(n) \in Seq(Slot) /\ Len(Blank(n)) = n
  <2>1. Blank(n) \in [1 .. n -> Slot]
    BY DEF Blank, Slot
  <2> QED
    BY <2>1, IsASeq, LenProperties
<1>3. New(n) = [array |-> Blank(n), firstIndex |-> f, lastIndex |-> f - 1]
  BY <1>2 DEF New, Reset
<1> HIDE DEF f
<1>4. /\ WellFormed(New(n))
      /\ Contents(New(n)) \in Seq(Slot) /\ Len(Contents(New(n))) = (f - 1) - f + 1
  <2> DEFINE g == f - 1
             a == Blank(n)
             d == New(n)
  <2>1. f <= g + 1 /\ g \in Nat /\ g <= n
    BY <1>1
  <2>2. d = [array |-> a, firstIndex |-> f, lastIndex |-> g]
    BY <1>3
  <2>3. f \in Nat /\ f >= 1 /\ g <= Len(a) /\ a \in Seq(Slot)
    BY <1>1, <1>2
  <2> HIDE DEF g, a, d
  <2>4. WellFormed(d) /\ Contents(d) \in Seq(Slot) /\ Len(Contents(d)) = g - f + 1
    BY <2>1, <2>2, <2>3, Window
  <2> QED
    BY <2>4 DEF g, d
<1>5. Contents(New(n)) = <<>>
  BY <1>1, <1>4, EmptySeq
<1>6. New(n).firstIndex = f /\ New(n).lastIndex = f - 1 /\ Len(New(n).array) = n
  BY <1>2, <1>3
<1> QED
  BY <1>1, <1>4, <1>5, <1>6

(***************************************************************************)
(* A copy has room for its elements, and they are the part asked for.      *)
(***************************************************************************)
LEMMA Copied ==
  ASSUME NEW c, WellFormed(c), NEW i \in Nat, NEW j \in Nat,
         i >= 1, i <= j, j <= Size(c)
  PROVE  /\ WellFormed(CopyOf(c, i, j))
         /\ Contents(CopyOf(c, i, j)) = SubSeq(Contents(c), i, j)
<1> DEFINE n == j + 1 - i
           f == New(n).firstIndex
           l == f - 1 + n
           room == IF f > 1 THEN 2 * n - f + 1 ELSE n
           a == [k \in 1 .. room |->
                   IF k \in f .. l THEN c.array[c.firstIndex + i - 1 + k - f] ELSE nil]
           d == CopyOf(c, i, j)
<1>1. n \in Nat /\ n >= 1 /\ n = j - i + 1
  OBVIOUS
<1>2. /\ f \in Nat /\ f >= 1 /\ f <= n /\ 2 * f <= n + 2
      /\ New(n).lastIndex = f - 1
  BY <1>1, NewIsEmpty
<1> HIDE DEF f
<1>3. d = [array |-> a, firstIndex |-> f, lastIndex |-> l]
  <2>1. New(n).lastIndex + n = l
    BY <1>2
  <2> QED
    BY <2>1 DEF CopyOf, f
<1>4. l \in Nat /\ room \in Nat /\ f <= l + 1 /\ l <= room
  BY <1>1, <1>2
<1>5. /\ c.firstIndex \in Nat /\ c.lastIndex \in Nat /\ Len(c.array) \in Nat
      /\ c.firstIndex >= 1 /\ c.firstIndex <= c.lastIndex + 1 /\ c.lastIndex <= Len(c.array)
      /\ Size(c) \in Nat /\ Size(c) = c.lastIndex - c.firstIndex + 1
  BY SizeIsNat DEF WellFormed, Size
<1> HIDE DEF room, l, n, d
<1>6. ASSUME NEW k \in f .. l
      PROVE  /\ i + k - f \in 1 .. Size(c)
             /\ c.firstIndex + i - 1 + k - f = c.firstIndex + (i + k - f) - 1
  <2>1. k \in Int /\ k >= f /\ k <= f - 1 + (j - i + 1)
    BY <1>1, <1>2 DEF l
  <2>2. i + k - f >= 1 /\ i + k - f <= j /\ i + k - f \in Int
    BY <1>2, <2>1
  <2>3. c.firstIndex + i - 1 + k - f = c.firstIndex + (i + k - f) - 1
    BY <1>2, <1>5, <2>1
  <2>4. i + k - f \in 1 .. Size(c)
    BY <1>5, <2>2
  <2> QED
    BY <2>3, <2>4
<1>7. \A k \in 1 .. Size(c) : /\ c.array[c.firstIndex + k - 1] \in Slot
                              /\ Contents(c)[k] = c.array[c.firstIndex + k - 1]
  <2> SUFFICES ASSUME NEW k \in 1 .. Size(c)
               PROVE  /\ c.array[c.firstIndex + k - 1] \in Slot
                      /\ Contents(c)[k] = c.array[c.firstIndex + k - 1]
    OBVIOUS
  <2>1. c.firstIndex + k - 1 \in 1 .. Len(c.array)
    BY <1>5, InWindow
  <2> QED
    BY <2>1, SizeIsNat
<1>8. a \in Seq(Slot) /\ Len(a) = room
  <2>1. ASSUME NEW k \in 1 .. room, k \in f .. l
        PROVE  c.array[c.firstIndex + i - 1 + k - f] \in Slot
    BY <1>6, <1>7, <2>1
  <2>2. nil \in Slot
    BY DEF Slot
  <2>3. a \in [1 .. room -> Slot]
    BY <2>1, <2>2
  <2> QED
    BY <1>4, <2>3, IsASeq, LenProperties
<1>9. \A k \in 1 .. room : k \in f .. l => a[k] = c.array[c.firstIndex + i - 1 + k - f]
  OBVIOUS
<1> HIDE DEF a
<1>10. /\ WellFormed(d) /\ Contents(d) \in Seq(Slot)
       /\ Len(Contents(d)) = l - f + 1
       /\ \A k \in 1 .. l - f + 1 : Contents(d)[k] = a[f + k - 1]
  <2>1. l <= Len(a)
    BY <1>4, <1>8
  <2> QED
    BY <1>2, <1>3, <1>4, <1>8, <2>1, Window, SMTT(30)
<1>11. l - f + 1 = n
  BY <1>1, <1>2 DEF l
<1>12. /\ SubSeq(Contents(c), i, j) \in Seq(Slot)
       /\ Len(SubSeq(Contents(c), i, j)) = n
       /\ \A k \in 1 .. n : SubSeq(Contents(c), i, j)[k] = Contents(c)[i + k - 1]
  <2>1. \A k \in i .. j : Contents(c)[k] \in Slot
    <3>1. \A k \in i .. j : k \in 1 .. Size(c)
      BY <1>5
    <3>2. \A k \in 1 .. Size(c) : Contents(c)[k] \in Slot
      BY SizeIsNat
    <3> QED
      BY <3>1, <3>2
  <2>2. \A k \in 1 .. j - i + 1 : SubSeq(Contents(c), i, j)[k] = Contents(c)[i + k - 1]
    BY <2>1, SubSeqProperties
  <2>3. /\ SubSeq(Contents(c), i, j) \in Seq(Slot)
        /\ Len(SubSeq(Contents(c), i, j)) = j - i + 1
    BY <2>1, SubSeqProperties
  <2> QED
    BY <1>1, <2>2, <2>3
<1>13. ASSUME NEW k \in 1 .. n
       PROVE  Contents(d)[k] = SubSeq(Contents(c), i, j)[k]
  <2>1. PICK m \in f .. l : m = f + k - 1
    <3>1. f + k - 1 \in f .. l
      BY <1>1, <1>2 DEF l
    <3> QED
      BY <3>1
  <2>2. m \in 1 .. room
    BY <1>2, <1>4, <2>1
  <2>3. i + m - f = i + k - 1 /\ i + m - f \in 1 .. Size(c)
    BY <1>1, <1>2, <1>6, <2>1
  <2>4. a[m] = c.array[c.firstIndex + (i + m - f) - 1]
    BY <1>6, <1>9, <2>2
  <2>5. Contents(c)[i + m - f] = c.array[c.firstIndex + (i + m - f) - 1]
    BY <1>7, <2>3
  <2>6. Contents(d)[k] = a[m]
    BY <1>10, <1>11, <2>1
  <2> QED
    BY <1>12, <2>3, <2>4, <2>5, <2>6
<1>14. Contents(d) = SubSeq(Contents(c), i, j)
  BY <1>10, <1>11, <1>12, <1>13, SeqEqual
<1> QED
  BY <1>10, <1>14 DEF d

-----------------------------------------------------------------------------
(***************************************************************************)
(* The steps.  Each action keeps the types, is a step of the Deque, and    *)
(* keeps what a do: with an appending block relies on.                     *)
(***************************************************************************)
VisitOK ==
  visit # NoVisit =>
    /\ visit.limit \in Nat
    /\ visit.offset <= visit.limit + 1
    /\ visit.appending => /\ visit.limit < Size(coll)
                          /\ visit.seen = SubSeq(Items, 1, visit.offset)
                          /\ halted # "primitive"

IInv == TypeOK /\ VisitOK

LEMMA SentMessage ==
  ASSUME NEW op \in Operation, NEW i \in Nat, NEW j \in Nat, Sent(op, i, j)
  PROVE  call' \in Message
BY DEF Sent, Message

LEMMA Disturbed ==
  ASSUME IInv, Disturb
  PROVE  VisitOK' /\ visit' \in Visit
<1>1. CASE visit = NoVisit
  BY <1>1 DEF Disturb, VisitOK, IInv, TypeOK
<1>2. CASE visit # NoVisit
  <2>1. /\ visit \in Visit /\ visit' \in Visit /\ visit'.appending = FALSE
        /\ visit'.limit = visit.limit /\ visit'.offset = visit.offset
    <3>1. visit \in Visit /\ <<>> \in Seq(Slot)
      BY DEF IInv, TypeOK
    <3>2. visit' = [visit EXCEPT !.appending = FALSE, !.seen = <<>>]
      BY <1>2 DEF Disturb
    <3> QED
      BY <3>1, <3>2 DEF Visit
  <2> QED
    BY <1>2, <2>1 DEF VisitOK, IInv
<1> QED
  BY <1>1, <1>2

\* A step that changes neither the visit nor the elements it has seen.
LEMMA Undisturbed ==
  ASSUME IInv, UNCHANGED visit, halted' # "primitive",
         visit # NoVisit /\ visit.appending =>
           Size(coll)' >= Size(coll) /\ SubSeq(Items, 1, visit.offset)' = SubSeq(Items, 1, visit.offset),
         Size(coll)' \in Nat
  PROVE  VisitOK'
<1>1. Size(coll) \in Nat
  BY SizeIsNat DEF IInv, TypeOK
<1>2. visit \in Visit
  BY DEF IInv, TypeOK
<1>3. CASE visit # NoVisit /\ visit.appending
  <2>1. /\ visit.limit \in Nat /\ visit.offset <= visit.limit + 1
        /\ visit.limit < Size(coll)
        /\ visit.seen = SubSeq(Items, 1, visit.offset)
    BY <1>3 DEF IInv, VisitOK
  <2>2. visit.limit < Size(coll)'
    BY <1>1, <1>3, <2>1
  <2>3. visit.seen = SubSeq(Items, 1, visit.offset)'
    BY <1>3, <2>1
  <2> QED
    BY <2>1, <2>2, <2>3 DEF VisitOK
<1> QED
  BY <1>3 DEF IInv, VisitOK

LEMMA SubSeqOfStart ==
  ASSUME NEW s \in Seq(Slot), NEW n \in Nat, n <= Len(s)
  PROVE  /\ SubSeq(s, 1, n) \in Seq(Slot)
         /\ Len(SubSeq(s, 1, n)) = n
         /\ \A k \in 1 .. n : SubSeq(s, 1, n)[k] = s[k]
<1>1. \A k \in 1 .. n : s[k] \in Slot /\ 1 + k - 1 = k
  OBVIOUS
<1>2. n - 1 + 1 = n /\ (1 <= n \/ n = 0)
  OBVIOUS
<1> QED
  BY <1>1, <1>2, SubSeqProperties

LEMMA AddFirstStep ==
  ASSUME IInv, NEW x \in Elem, AddFirst(x)
  PROVE  IInv' /\ Abstract!AddFirst(x)
<1> DEFINE c == IF coll.firstIndex = 1 THEN MakeRoomAtFirst(coll) ELSE coll
           i == c.firstIndex - 1
<1>1. WellFormed(coll)
  BY DEF IInv, TypeOK
<1>2. /\ WellFormed(c) /\ Contents(c) = Items
      /\ Size(coll) > 0 => c.firstIndex > 1
  <2>1. CASE coll.firstIndex = 1
    BY <1>1, <2>1, RoomAtFirst DEF Items
  <2>2. CASE coll.firstIndex # 1
    <3>1. coll.firstIndex \in Nat /\ coll.firstIndex >= 1
      BY <1>1, SizeIsNat DEF WellFormed
    <3> QED
      BY <1>1, <2>2, <3>1 DEF Items
  <2> QED
    BY <2>1, <2>2
<1>3. c.firstIndex \in Nat /\ c.firstIndex >= 1 /\ DOMAIN c.array = 1 .. Len(c.array)
      /\ Len(c.array) \in Nat /\ c.firstIndex <= Len(c.array) + 1
  <2>1. c.lastIndex \in Nat /\ c.firstIndex <= c.lastIndex + 1 /\ c.lastIndex <= Len(c.array)
    BY <1>2, SizeIsNat DEF WellFormed
  <2> QED
    BY <1>2, <2>1, SizeIsNat DEF WellFormed
<1>4. x \in Slot
  BY DEF Slot
<1>5. /\ halted = "no" /\ call' = [op |-> "addFirst:", from |-> 0, to |-> 0]
      /\ IF i \in DOMAIN c.array
         THEN /\ coll' = Stored(c, i, x, i, c.lastIndex)
              /\ answer' = <<x>> /\ halted' = halted /\ Disturb
         ELSE /\ halted' = "primitive" /\ answer' = <<>> /\ UNCHANGED <<coll, visit>>
  BY DEF AddFirst, Sent, Become, Fail
<1> HIDE DEF c
<1>6. call' \in Message
  <2>1. Sent("addFirst:", 0, 0)
    BY DEF AddFirst
  <2> QED
    BY <2>1, SentMessage DEF Operation
<1>7. CASE i \in DOMAIN c.array
  <2>1. i \in Nat /\ i >= 1
    BY <1>3, <1>7
  <2>2. WellFormed(coll') /\ Items' = <<x>> \o Items
    <3> DEFINE d == Stored(c, i, x, i, c.lastIndex)
    <3>1. WellFormed(d) /\ Contents(d) = <<x>> \o Contents(c)
      BY <1>2, <1>4, <2>1, Prepended
    <3> QED
      BY <1>2, <1>5, <1>7, <3>1 DEF Items
  <2>3. VisitOK' /\ visit' \in Visit
    BY <1>5, <1>7, Disturbed
  <2>4. TypeOK'
    BY <1>4, <1>5, <1>6, <1>7, <2>2, <2>3 DEF TypeOK, Reason
  <2> QED
    BY <1>5, <1>7, <2>2, <2>3, <2>4
       DEF IInv, Abstract!AddFirst, Abstract!Becomes, Abstract!Message
<1>8. CASE i \notin DOMAIN c.array
  <2>1. Size(coll) = 0
    <3>1. Size(coll) \in Nat
      BY <1>1, SizeIsNat
    <3> QED
      BY <1>2, <1>3, <1>8, <3>1
  <2>2. Items = <<>>
    <3>1. Items \in Seq(Slot) /\ Len(Items) = 0
      BY <1>1, <2>1, SizeIsNat DEF Items
    <3> QED
      BY <3>1, EmptySeq
  <2>3. TypeOK'
    BY <1>5, <1>6, <1>8 DEF TypeOK, IInv, Reason
  <2>4. VisitOK'
    <3>1. CASE visit = NoVisit
      BY <1>5, <1>8, <3>1 DEF VisitOK
    <3>2. CASE visit # NoVisit
      <4>1. visit.limit \in Nat /\ ~visit.appending
        BY <2>1, <3>2 DEF IInv, VisitOK, TypeOK, Visit
      <4> QED
        BY <1>5, <1>8, <4>1 DEF IInv, VisitOK
    <3> QED
      BY <3>1, <3>2
  <2>5. Items' = Items
    BY <1>5, <1>8 DEF Items
  <2> QED
    BY <1>5, <1>8, <2>2, <2>3, <2>4, <2>5
       DEF IInv, Abstract!AddFirst, Abstract!Aborts, Abstract!Message
<1> QED
  BY <1>7, <1>8

LEMMA AddLastStep ==
  ASSUME IInv, NEW x \in Elem, AddLast(x)
  PROVE  IInv' /\ Abstract!AddLast(x)
<1> DEFINE full == coll.lastIndex = Len(coll.array)
           c == IF full THEN MakeRoomAtLast(coll) ELSE coll
           i == c.lastIndex + 1
           stuck == full /\ Size(coll) = 0 /\ Len(coll.array) > 0
<1>1. WellFormed(coll) /\ Size(coll) \in Nat
  BY SizeIsNat DEF IInv, TypeOK
<1>2. /\ WellFormed(c) /\ Contents(c) = Items
      /\ Size(coll) > 0 => c.lastIndex < Len(c.array)
  <2>1. CASE full
    BY <1>1, <2>1, RoomAtLast DEF Items
  <2>2. CASE ~full
    <3>1. coll.lastIndex \in Nat /\ coll.lastIndex <= Len(coll.array) /\ Len(coll.array) \in Nat
      BY <1>1, SizeIsNat DEF WellFormed
    <3> QED
      BY <1>1, <2>2, <3>1 DEF Items
  <2> QED
    BY <2>1, <2>2
<1>3. c.lastIndex \in Nat /\ DOMAIN c.array = 1 .. Len(c.array) /\ Len(c.array) \in Nat
  BY <1>2, SizeIsNat
<1>4. x \in Slot
  BY DEF Slot
<1>5. /\ halted = "no" /\ call' = [op |-> "addLast:", from |-> 0, to |-> 0]
      /\ stuck => /\ halted' = "doesNotUnderstand"
                  /\ answer' = <<>> /\ UNCHANGED <<coll, visit>>
      /\ ~stuck /\ i \in DOMAIN c.array =>
           /\ coll' = Stored(c, i, x, c.firstIndex, i)
           /\ answer' = <<x>> /\ halted' = halted /\ UNCHANGED visit
      /\ ~stuck /\ i \notin DOMAIN c.array =>
           /\ halted' = "primitive" /\ answer' = <<>> /\ UNCHANGED <<coll, visit>>
  BY DEF AddLast, Sent, Become, Fail
<1>6. call' \in Message
  <2>1. Sent("addLast:", 0, 0)
    BY DEF AddLast
  <2> QED
    BY <2>1, SentMessage DEF Operation
<1>s. stuck => Size(coll) = 0
  OBVIOUS
<1> HIDE DEF c, full, stuck
<1>7. CASE ~stuck /\ i \in DOMAIN c.array
  <2>1. i \in Nat /\ i <= Len(c.array)
    BY <1>3, <1>7
  <2>2. WellFormed(coll') /\ Items' = Append(Items, x)
    <3> DEFINE d == Stored(c, i, x, c.firstIndex, i)
    <3>1. WellFormed(d) /\ Contents(d) = Append(Contents(c), x)
      BY <1>2, <1>4, <2>1, Appended
    <3> QED
      BY <1>2, <1>5, <1>7, <3>1 DEF Items
  <2>3. TypeOK'
    BY <1>4, <1>5, <1>6, <1>7, <2>2 DEF TypeOK, IInv, Reason
  <2>4. VisitOK'
    <3>1. Items \in Seq(Slot) /\ Len(Items) = Size(coll)
      BY <1>1, SizeIsNat DEF Items
    <3>2. Items' \in Seq(Slot) /\ Len(Items') = Size(coll)' /\ Size(coll)' \in Nat
      BY <2>2, SizeIsNat DEF Items
    <3>3. Len(Items') = Len(Items) + 1 /\ \A k \in 1 .. Len(Items) : Items'[k] = Items[k]
      BY <1>4, <2>2, <3>1, AppendProperties
    <3>4. visit # NoVisit /\ visit.appending =>
            SubSeq(Items, 1, visit.offset)' = SubSeq(Items, 1, visit.offset)
      <4> SUFFICES ASSUME visit # NoVisit, visit.appending
                   PROVE  SubSeq(Items', 1, visit.offset) = SubSeq(Items, 1, visit.offset)
        BY <1>5, <1>7
      <4> DEFINE n == visit.offset
      <4>1. n \in Nat /\ n <= Len(Items)
        <5>1. visit \in Visit
          BY DEF IInv, TypeOK
        <5>2. visit.limit \in Nat /\ visit.limit < Size(coll) /\ n <= visit.limit + 1
          BY DEF IInv, VisitOK
        <5>3. n \in Nat
          BY <5>1 DEF Visit
        <5> QED
          BY <1>1, <3>1, <5>2, <5>3
      <4> HIDE DEF n
      <4>a. \A k \in 1 .. n : k \in 1 .. Len(Items) /\ k \in 1 .. Len(Items')
        BY <1>1, <3>1, <3>3, <4>1
      <4>2. /\ SubSeq(Items, 1, n) \in Seq(Slot) /\ SubSeq(Items', 1, n) \in Seq(Slot)
            /\ Len(SubSeq(Items, 1, n)) = n /\ Len(SubSeq(Items', 1, n)) = n
            /\ \A k \in 1 .. n : SubSeq(Items, 1, n)[k] = Items[k]
                                 /\ SubSeq(Items', 1, n)[k] = Items'[k]
        <5>1. n <= Len(Items')
          BY <1>1, <3>1, <3>3, <4>1
        <5> QED
          BY <3>1, <3>2, <4>1, <5>1, SubSeqOfStart
      <4>3. SubSeq(Items', 1, n) = SubSeq(Items, 1, n)
        <5>1. \A k \in 1 .. n : SubSeq(Items', 1, n)[k] = SubSeq(Items, 1, n)[k]
          BY <3>3, <4>a, <4>2
        <5> QED
          BY <4>2, <5>1, SeqEqual
      <4> QED
        BY <4>3 DEF n
    <3>5. Size(coll)' >= Size(coll)
      BY <1>1, <3>1, <3>2, <3>3
    <3>6. halted' # "primitive"
      BY <1>5, <1>7
    <3> QED
      BY <1>5, <1>7, <3>2, <3>4, <3>5, <3>6, Undisturbed
  <2> QED
    BY <1>5, <1>7, <2>2, <2>3, <2>4
       DEF IInv, Abstract!AddLast, Abstract!Becomes, Abstract!Message
<1>8. CASE stuck \/ i \notin DOMAIN c.array
  <2>1. Size(coll) = 0
    BY <1>1, <1>2, <1>3, <1>8, <1>s
  <2>2. Items = <<>>
    <3>1. Items \in Seq(Slot) /\ Len(Items) = 0
      BY <1>1, <2>1, SizeIsNat DEF Items
    <3> QED
      BY <3>1, EmptySeq
  <2>3. UNCHANGED <<coll, visit>> /\ answer' = <<>> /\ halted' \in {"primitive", "doesNotUnderstand"}
    BY <1>5, <1>8
  <2>4. TypeOK'
    BY <1>6, <2>3 DEF TypeOK, IInv, Reason
  <2>5. VisitOK'
    <3>1. CASE visit = NoVisit
      BY <2>3, <3>1 DEF VisitOK
    <3>2. CASE visit # NoVisit
      <4>1. visit.limit \in Nat /\ ~visit.appending
        BY <2>1, <3>2 DEF IInv, VisitOK, TypeOK, Visit
      <4> QED
        BY <2>3, <4>1 DEF IInv, VisitOK
    <3> QED
      BY <3>1, <3>2
  <2>6. Items' = Items /\ halted' # "no"
    BY <2>3 DEF Items
  <2> QED
    BY <1>5, <2>2, <2>3, <2>4, <2>5, <2>6
       DEF IInv, Abstract!AddLast, Abstract!Aborts, Abstract!Message
<1> QED
  BY <1>7, <1>8

LEMMA Refused ==
  ASSUME IInv, NEW reason \in {"empty", "index"}, Fail(reason), call' \in Message
  PROVE  IInv' /\ Items' = Items /\ answer' = <<>> /\ halted' # "no"
<1>1. halted' = reason /\ answer' = <<>> /\ UNCHANGED <<coll, visit>>
  BY DEF Fail
<1>2. Items' = Items /\ Size(coll)' = Size(coll)
  BY <1>1 DEF Items
<1>3. TypeOK'
  BY <1>1 DEF IInv, TypeOK, Reason
<1>4. VisitOK'
  <2>1. Size(coll) \in Nat
    BY SizeIsNat DEF IInv, TypeOK
  <2> QED
    BY <1>1, <1>2, <2>1, Undisturbed
<1> QED
  BY <1>1, <1>2, <1>3, <1>4 DEF IInv

LEMMA Emptiness ==
  ASSUME WellFormed(coll)
  PROVE  Size(coll) = 0 <=> Items = <<>>
<1>1. Items \in Seq(Slot) /\ Len(Items) = Size(coll)
  BY SizeIsNat DEF Items
<1> QED
  BY <1>1, EmptySeq

LEMMA RemoveFirstStep ==
  ASSUME IInv, RemoveFirst
  PROVE  IInv' /\ Abstract!RemoveFirst
<1> DEFINE i == coll.firstIndex
<1>1. WellFormed(coll) /\ Size(coll) \in Nat /\ i \in Nat
  BY SizeIsNat DEF IInv, TypeOK
<1>2. call' \in Message /\ call' = [op |-> "removeFirst", from |-> 0, to |-> 0] /\ halted = "no"
  <2>1. Sent("removeFirst", 0, 0)
    BY DEF RemoveFirst
  <2> QED
    BY <2>1, SentMessage DEF Operation, Sent
<1>3. CASE Size(coll) = 0
  <2>1. Fail("empty")
    BY <1>3 DEF RemoveFirst
  <2>2. IInv' /\ Items' = Items /\ answer' = <<>> /\ halted' # "no"
    BY <1>2, <2>1, Refused
  <2> QED
    BY <1>1, <1>2, <1>3, <2>2, Emptiness
       DEF Abstract!RemoveFirst, Abstract!Aborts, Abstract!Message
<1>4. CASE Size(coll) # 0
  <2>1. /\ coll' = Stored(coll, i, nil, i + 1, coll.lastIndex)
        /\ answer' = <<coll.array[i]>> /\ halted' = halted /\ Disturb
    BY <1>4 DEF RemoveFirst, Become
  <2> HIDE DEF i
  <2>2. /\ WellFormed(coll') /\ Items' = Tail(Items)
        /\ Items[1] = coll.array[i] /\ coll.array[i] \in Slot
    <3> DEFINE d == Stored(coll, i, nil, i + 1, coll.lastIndex)
    <3>1. /\ WellFormed(d) /\ Contents(d) = Tail(Contents(coll))
          /\ Contents(coll)[1] = coll.array[i] /\ coll.array[i] \in Slot
      BY <1>1, <1>4, FirstRemoved DEF i
    <3> QED
      BY <2>1, <3>1 DEF Items
  <2>3. VisitOK' /\ visit' \in Visit
    BY <2>1, Disturbed
  <2>4. TypeOK'
    BY <1>2, <2>1, <2>2, <2>3 DEF TypeOK, Reason
  <2>5. Items # <<>>
    BY <1>1, <1>4, Emptiness
  <2> QED
    BY <1>2, <2>1, <2>2, <2>3, <2>4, <2>5
       DEF IInv, Abstract!RemoveFirst, Abstract!Becomes, Abstract!Message
<1> QED
  BY <1>3, <1>4

LEMMA RemoveLastStep ==
  ASSUME IInv, RemoveLast
  PROVE  IInv' /\ Abstract!RemoveLast
<1> DEFINE i == coll.lastIndex
<1>1. WellFormed(coll) /\ Size(coll) \in Nat /\ i \in Nat
  BY SizeIsNat DEF IInv, TypeOK
<1>2. call' \in Message /\ call' = [op |-> "removeLast", from |-> 0, to |-> 0] /\ halted = "no"
  <2>1. Sent("removeLast", 0, 0)
    BY DEF RemoveLast
  <2> QED
    BY <2>1, SentMessage DEF Operation, Sent
<1>3. CASE Size(coll) = 0
  <2>1. Fail("empty")
    BY <1>3 DEF RemoveLast
  <2>2. IInv' /\ Items' = Items /\ answer' = <<>> /\ halted' # "no"
    BY <1>2, <2>1, Refused
  <2> QED
    BY <1>1, <1>2, <1>3, <2>2, Emptiness
       DEF Abstract!RemoveLast, Abstract!Aborts, Abstract!Message
<1>4. CASE Size(coll) # 0
  <2>1. /\ coll' = Stored(coll, i, nil, coll.firstIndex, i - 1)
        /\ answer' = <<coll.array[i]>> /\ halted' = halted /\ Disturb
    BY <1>4 DEF RemoveLast, Become
  <2> HIDE DEF i
  <2>2. /\ WellFormed(coll') /\ Items' = SubSeq(Items, 1, Len(Items) - 1)
        /\ Items[Len(Items)] = coll.array[i] /\ coll.array[i] \in Slot
    <3> DEFINE d == Stored(coll, i, nil, coll.firstIndex, i - 1)
    <3>1. /\ WellFormed(d)
          /\ Contents(d) = SubSeq(Contents(coll), 1, Len(Contents(coll)) - 1)
          /\ Contents(coll)[Len(Contents(coll))] = coll.array[i] /\ coll.array[i] \in Slot
      BY <1>1, <1>4, LastRemoved DEF i
    <3> QED
      BY <2>1, <3>1 DEF Items
  <2>3. VisitOK' /\ visit' \in Visit
    BY <2>1, Disturbed
  <2>4. TypeOK'
    BY <1>2, <2>1, <2>2, <2>3 DEF TypeOK, Reason
  <2>5. Items # <<>>
    BY <1>1, <1>4, Emptiness
  <2> QED
    BY <1>2, <2>1, <2>2, <2>3, <2>4, <2>5
       DEF IInv, Abstract!RemoveLast, Abstract!Becomes, Abstract!Message
<1> QED
  BY <1>3, <1>4

LEMMA WithinItems ==
  ASSUME IInv, NEW n \in Nat
  PROVE  Within(n) <=> n \in 1 .. Len(Items)
<1>1. /\ coll.firstIndex \in Nat /\ coll.lastIndex \in Nat
      /\ Len(Items) = coll.lastIndex - coll.firstIndex + 1
  BY SizeIsNat DEF IInv, TypeOK, Items, Size
<1> QED
  BY <1>1 DEF Within, Position

LEMMA AtStep ==
  ASSUME IInv, NEW n \in Nat, At(n)
  PROVE  IInv' /\ Abstract!At(n)
<1>1. WellFormed(coll) /\ Size(coll) \in Nat /\ Len(Items) = Size(coll)
  BY SizeIsNat DEF IInv, TypeOK, Items
<1>2. call' \in Message /\ call' = [op |-> "at:", from |-> n, to |-> n] /\ halted = "no"
  <2>1. Sent("at:", n, n)
    BY DEF At
  <2> QED
    BY <2>1, SentMessage DEF Operation, Sent
<1>3. CASE ~Within(n)
  <2>1. Fail("index")
    BY <1>3 DEF At
  <2>2. IInv' /\ Items' = Items /\ answer' = <<>> /\ halted' # "no"
    BY <1>2, <2>1, Refused
  <2>3. n \notin 1 .. Len(Items)
    BY <1>3, WithinItems
  <2> QED
    BY <1>2, <2>2, <2>3 DEF Abstract!At, Abstract!Aborts, Abstract!Message
<1>4. CASE Within(n)
  <2>1. n \in 1 .. Len(Items)
    BY <1>4, WithinItems
  <2>2. UNCHANGED <<coll, halted, visit>> /\ answer' = <<coll.array[Position(n)]>>
    BY <1>4 DEF At, Become
  <2>3. Items' = Items /\ Size(coll)' = Size(coll)
    BY <2>2 DEF Items
  <2>4. coll.array[Position(n)] = Items[n] /\ Items[n] \in Slot
    <3>1. Items[n] = coll.array[coll.firstIndex + n - 1]
      BY <1>1, <2>1, SizeIsNat DEF Items
    <3>2. Items \in Seq(Slot)
      BY <1>1, SizeIsNat DEF Items
    <3> QED
      BY <2>1, <3>1, <3>2 DEF Position
  <2>5. TypeOK'
    BY <1>2, <2>2, <2>4 DEF IInv, TypeOK
  <2>6. VisitOK'
    BY <1>1, <1>2, <2>2, <2>3, Undisturbed
  <2> QED
    BY <1>2, <2>1, <2>2, <2>3, <2>4, <2>5, <2>6
       DEF IInv, Abstract!At, Abstract!Becomes, Abstract!Message
<1> QED
  BY <1>3, <1>4

LEMMA AtPutStep ==
  ASSUME IInv, NEW n \in Nat, NEW x \in Elem, AtPut(n, x)
  PROVE  IInv' /\ Abstract!AtPut(n, x)
<1>1. WellFormed(coll) /\ Len(Items) = Size(coll)
  BY SizeIsNat DEF IInv, TypeOK, Items
<1>2. call' \in Message /\ call' = [op |-> "at:put:", from |-> n, to |-> n] /\ halted = "no"
  <2>1. Sent("at:put:", n, n)
    BY DEF AtPut
  <2> QED
    BY <2>1, SentMessage DEF Operation, Sent
<1>3. CASE ~Within(n)
  <2>1. Fail("index")
    BY <1>3 DEF AtPut
  <2>2. IInv' /\ Items' = Items /\ answer' = <<>> /\ halted' # "no"
    BY <1>2, <2>1, Refused
  <2>3. n \notin 1 .. Len(Items)
    BY <1>3, WithinItems
  <2> QED
    BY <1>2, <2>2, <2>3 DEF Abstract!AtPut, Abstract!Aborts, Abstract!Message
<1>4. CASE Within(n)
  <2> DEFINE d == Stored(coll, coll.firstIndex + n - 1, x, coll.firstIndex, coll.lastIndex)
  <2>1. n \in 1 .. Size(coll)
    BY <1>1, <1>4, WithinItems
  <2>2. coll' = d /\ answer' = <<x>> /\ halted' = halted /\ Disturb
    BY <1>4 DEF AtPut, Become, Position
  <2>3. x \in Slot
    BY DEF Slot
  <2>4. WellFormed(d) /\ Contents(d) = [Contents(coll) EXCEPT ![n] = x]
    BY <1>1, <2>1, <2>3, Overwritten
  <2> HIDE DEF d
  <2>5. VisitOK' /\ visit' \in Visit
    BY <2>2, Disturbed
  <2>6. TypeOK'
    BY <1>2, <2>2, <2>3, <2>4, <2>5 DEF TypeOK, Reason
  <2>7. Items' = [Items EXCEPT ![n] = x]
    BY <2>2, <2>4 DEF Items
  <2> QED
    BY <1>1, <1>2, <2>1, <2>2, <2>5, <2>6, <2>7
       DEF IInv, Abstract!AtPut, Abstract!Becomes, Abstract!Message
<1> QED
  BY <1>3, <1>4

LEMMA CopyStep ==
  ASSUME IInv, NEW i \in Nat, NEW j \in Nat, CopyFromTo(i, j)
  PROVE  IInv' /\ Abstract!CopyFromTo(i, j)
<1>1. WellFormed(coll) /\ Len(Items) = Size(coll) /\ Size(coll) \in Nat
  BY SizeIsNat DEF IInv, TypeOK, Items
<1>2. /\ call' \in Message /\ call' = [op |-> "copyFrom:to:", from |-> i, to |-> j]
      /\ halted = "no" /\ visit = NoVisit
  <2>1. Sent("copyFrom:to:", i, j) /\ visit = NoVisit
    BY DEF CopyFromTo
  <2> QED
    BY <2>1, SentMessage DEF Operation, Sent
<1>3. ASSUME NEW d, WellFormed(d), coll' = d, answer' = <<>>, halted' = halted, UNCHANGED visit
      PROVE  IInv' /\ Items' = Contents(d)
  <2>1. TypeOK'
    BY <1>2, <1>3 DEF IInv, TypeOK
  <2>2. VisitOK'
    BY <1>2, <1>3 DEF VisitOK
  <2> QED
    BY <1>3, <2>1, <2>2 DEF IInv, Items
<1>4. CASE j < i
  <2> DEFINE d == New(0)
  <2>1. coll' = d /\ answer' = <<>> /\ halted' = halted /\ UNCHANGED visit
    BY <1>4 DEF CopyFromTo, Become
  <2>2. WellFormed(d) /\ Contents(d) = <<>>
    BY NewIsEmpty
  <2> HIDE DEF d
  <2>3. IInv' /\ Items' = <<>>
    BY <1>3, <2>1, <2>2
  <2> QED
    BY <1>2, <1>4, <2>1, <2>3 DEF Abstract!CopyFromTo, Abstract!Becomes, Abstract!Message
<1>5. CASE ~(j < i) /\ Within(i) /\ Within(j)
  <2> DEFINE d == CopyOf(coll, i, j)
  <2>1. coll' = d /\ answer' = <<>> /\ halted' = halted /\ UNCHANGED visit
    BY <1>5 DEF CopyFromTo, Become
  <2>2. i >= 1 /\ i <= j /\ j <= Len(Items)
    BY <1>1, <1>5, WithinItems
  <2>3. WellFormed(d) /\ Contents(d) = SubSeq(Items, i, j)
    BY <1>1, <2>2, Copied DEF Items
  <2> HIDE DEF d
  <2>4. IInv' /\ Items' = SubSeq(Items, i, j)
    BY <1>3, <2>1, <2>3
  <2> QED
    BY <1>2, <1>5, <2>1, <2>2, <2>4
       DEF Abstract!CopyFromTo, Abstract!Becomes, Abstract!Message
<1>6. CASE ~(j < i) /\ ~(Within(i) /\ Within(j))
  <2>1. Fail("index")
    BY <1>6 DEF CopyFromTo
  <2>2. IInv' /\ Items' = Items /\ answer' = <<>> /\ halted' # "no"
    BY <1>2, <2>1, Refused
  <2>3. ~(i >= 1 /\ j <= Len(Items))
    BY <1>1, <1>6, WithinItems
  <2> QED
    BY <1>2, <1>6, <2>2, <2>3 DEF Abstract!CopyFromTo, Abstract!Aborts, Abstract!Message
<1> QED
  BY <1>4, <1>5, <1>6

LEMMA OneMore ==
  ASSUME NEW s \in Seq(Slot), NEW n \in Nat, n < Len(s)
  PROVE  Append(SubSeq(s, 1, n), s[n + 1]) = SubSeq(s, 1, n + 1)
<1> DEFINE a == Append(SubSeq(s, 1, n), s[n + 1])
           b == SubSeq(s, 1, n + 1)
<1>1. n + 1 \in Nat /\ n + 1 <= Len(s) /\ n + 1 \in 1 .. Len(s) /\ n <= Len(s)
  OBVIOUS
<1>2. /\ b \in Seq(Slot) /\ Len(b) = n + 1 /\ \A k \in 1 .. n + 1 : b[k] = s[k]
  BY <1>1, SubSeqOfStart
<1>3. /\ SubSeq(s, 1, n) \in Seq(Slot) /\ Len(SubSeq(s, 1, n)) = n
      /\ \A k \in 1 .. n : SubSeq(s, 1, n)[k] = s[k]
  BY <1>1, SubSeqOfStart
<1>4. s[n + 1] \in Slot
  BY <1>1
<1>5. /\ a \in Seq(Slot) /\ Len(a) = n + 1 /\ a[n + 1] = s[n + 1]
      /\ \A k \in 1 .. n : a[k] = SubSeq(s, 1, n)[k]
  BY <1>3, <1>4, AppendProperties
<1>6. \A k \in 1 .. n + 1 : k \in 1 .. n \/ k = n + 1
  OBVIOUS
<1> HIDE DEF a, b
<1>7. a = b
  BY <1>2, <1>3, <1>5, <1>6, SeqEqual
<1> QED
  BY <1>7 DEF a, b

LEMMA DoStep ==
  ASSUME IInv, DoStart \/ DoNext \/ DoEnd
  PROVE  IInv' /\ Abstract!Do
<1>1. /\ WellFormed(coll) /\ Items \in Seq(Slot) /\ Len(Items) = Size(coll)
      /\ Size(coll) \in Nat
  BY SizeIsNat DEF IInv, TypeOK, Items
<1>2. call' \in Message /\ call' = [op |-> "do:", from |-> 0, to |-> 0] /\ halted = "no"
  <2>1. Sent("do:", 0, 0)
    BY DEF DoStart, DoNext, DoEnd
  <2> QED
    BY <2>1, SentMessage DEF Operation, Sent
<1>3. visit \in Visit
  BY DEF IInv, TypeOK
<1>4. ASSUME UNCHANGED <<coll, halted>>, answer' = <<>>, visit' \in Visit, VisitOK'
      PROVE  IInv' /\ Abstract!Do
  <2>1. Items' = Items
    BY <1>4 DEF Items
  <2>2. TypeOK'
    BY <1>2, <1>4 DEF IInv, TypeOK
  <2> QED
    BY <1>2, <1>4, <2>1, <2>2 DEF IInv, Abstract!Do, Abstract!Becomes, Abstract!Message
<1>5. CASE DoStart
  <2> DEFINE l == coll.lastIndex - coll.firstIndex
  <2>1. /\ visit' = [limit |-> l, offset |-> 0, seen |-> <<>>, appending |-> TRUE]
        /\ UNCHANGED <<coll, halted>> /\ answer' = <<>> /\ Size(coll) > 0
    BY <1>5 DEF DoStart, Become, NoVisit
  <2>2. l \in Nat /\ l < Size(coll) /\ 0 <= l + 1
    <3>1. coll.lastIndex \in Nat /\ coll.firstIndex \in Nat
      BY <1>1, SizeIsNat
    <3> QED
      BY <2>1, <3>1 DEF Size
  <2> HIDE DEF l
  <2>3. visit' \in Visit
    BY <2>1, <2>2 DEF Visit
  <2>4. Items' = Items /\ Size(coll)' = Size(coll)
    BY <2>1 DEF Items
  <2>5. SubSeq(Items, 1, 0) = <<>>
    BY SubSeqEmpty
  <2>6. VisitOK'
    BY <1>2, <2>1, <2>2, <2>4, <2>5 DEF VisitOK
  <2> QED
    BY <1>4, <2>1, <2>3, <2>6
<1>6. CASE DoEnd
  <2>1. visit' = NoVisit /\ UNCHANGED <<coll, halted>> /\ answer' = <<>>
    BY <1>6 DEF DoEnd, Become
  <2>2. visit' \in Visit /\ VisitOK'
    <3>1. <<>> \in Seq(Slot)
      OBVIOUS
    <3> QED
      BY <2>1, <3>1 DEF VisitOK, Visit, NoVisit
  <2> QED
    BY <1>4, <2>1, <2>2
<1>7. CASE DoNext
  <2> DEFINE i == coll.firstIndex + visit.offset
             n == visit.offset
  <2>1. /\ n <= visit.limit
        /\ i \in DOMAIN coll.array =>
             /\ UNCHANGED <<coll, halted>> /\ answer' = <<>>
             /\ visit' = [visit EXCEPT
                            !.offset = n + 1,
                            !.seen = IF visit.appending THEN Append(visit.seen, coll.array[i])
                                     ELSE visit.seen]
        /\ i \notin DOMAIN coll.array =>
             halted' = "primitive" /\ answer' = <<>> /\ UNCHANGED <<coll, visit>>
    BY <1>7 DEF DoNext, Become, Fail
  <2>2. visit # NoVisit /\ n \in Nat /\ visit.limit \in Nat
    <3>1. visit.limit \in Int /\ n \in Nat
      BY <1>3 DEF Visit
    <3>2. visit # NoVisit
      BY <2>1, <3>1 DEF NoVisit
    <3> QED
      BY <3>1, <3>2 DEF IInv, VisitOK
  <2>3. visit.appending => /\ n + 1 \in 1 .. Size(coll) /\ n < Len(Items)
                           /\ i = coll.firstIndex + (n + 1) - 1
                           /\ coll.array[i] = Items[n + 1]
                           /\ visit.seen = SubSeq(Items, 1, n)
                           /\ visit.limit < Size(coll)
    <3> SUFFICES ASSUME visit.appending
                 PROVE  /\ n + 1 \in 1 .. Size(coll) /\ n < Len(Items)
                        /\ i = coll.firstIndex + (n + 1) - 1
                        /\ coll.array[i] = Items[n + 1]
                        /\ visit.seen = SubSeq(Items, 1, n)
                        /\ visit.limit < Size(coll)
      OBVIOUS
    <3>1. visit.limit < Size(coll) /\ visit.seen = SubSeq(Items, 1, n)
      BY <2>2 DEF IInv, VisitOK
    <3>2. n + 1 \in 1 .. Size(coll) /\ n < Len(Items)
      BY <1>1, <2>1, <2>2, <3>1
    <3>3. i = coll.firstIndex + (n + 1) - 1
      <4>1. coll.firstIndex \in Nat
        BY <1>1, SizeIsNat
      <4> QED
        BY <2>2, <4>1
    <3>4. Items[n + 1] = coll.array[coll.firstIndex + (n + 1) - 1]
      BY <1>1, <3>2, SizeIsNat DEF Items
    <3> QED
      BY <3>1, <3>2, <3>3, <3>4
  <2>4. coll.firstIndex \in Nat /\ coll.firstIndex >= 1 /\ coll.lastIndex \in Nat
        /\ coll.lastIndex <= Len(coll.array) /\ Len(coll.array) \in Nat
        /\ DOMAIN coll.array = 1 .. Len(coll.array)
        /\ Size(coll) = coll.lastIndex - coll.firstIndex + 1
        /\ \A k \in 1 .. Len(coll.array) : coll.array[k] \in Slot
    BY <1>1, SizeIsNat DEF WellFormed, Size
  <2> HIDE DEF i
  <2>5. CASE i \in DOMAIN coll.array
    <3> DEFINE t == IF visit.appending THEN Append(visit.seen, coll.array[i]) ELSE visit.seen
    <3>1. t \in Seq(Slot)
      <4>1. visit.seen \in Seq(Slot) /\ coll.array[i] \in Slot
        BY <1>3, <2>4, <2>5 DEF Visit
      <4> QED
        BY <4>1
    <3>2. visit.appending => t = SubSeq(Items, 1, n + 1)
      BY <1>1, <2>2, <2>3, OneMore
    <3>3. visit' = [visit EXCEPT !.offset = n + 1, !.seen = t]
      BY <2>1, <2>5
    <3> HIDE DEF t
    <3>4. /\ visit' \in Visit /\ visit'.limit = visit.limit /\ visit'.offset = n + 1
          /\ visit'.seen = t /\ visit'.appending = visit.appending
      <4> DEFINE m == n + 1
      <4>1. m \in Nat
        BY <2>2
      <4>2. visit' = [visit EXCEPT !.offset = m, !.seen = t]
        BY <3>3
      <4> HIDE DEF m
      <4>3. /\ visit' \in Visit /\ visit'.limit = visit.limit /\ visit'.offset = m
            /\ visit'.seen = t /\ visit'.appending = visit.appending
        BY <1>3, <3>1, <4>1, <4>2 DEF Visit
      <4> QED
        BY <4>3 DEF m
    <3>5. Items' = Items /\ Size(coll)' = Size(coll) /\ halted' = halted
      BY <2>1, <2>5 DEF Items
    <3>6. n + 1 <= visit.limit + 1
      BY <2>1, <2>2
    <3>7. VisitOK'
      BY <1>2, <2>2, <2>3, <3>2, <3>4, <3>5, <3>6 DEF VisitOK
    <3> QED
      BY <1>4, <2>1, <2>5, <3>4, <3>7
  <2>6. CASE i \notin DOMAIN coll.array
    <3>1. halted' = "primitive" /\ answer' = <<>> /\ UNCHANGED <<coll, visit>>
      BY <2>1, <2>6
    <3>2. ~visit.appending
      <4> SUFFICES ASSUME visit.appending
                   PROVE  i \in 1 .. Len(coll.array)
        BY <2>4, <2>6
      <4>1. n + 1 \in 1 .. coll.lastIndex - coll.firstIndex + 1
        BY <2>3, <2>4
      <4>2. i = coll.firstIndex + (n + 1) - 1
        BY <2>3
      <4> HIDE DEF n
      <4> QED
        BY <2>4, <4>1, <4>2, InWindow
    <3>3. VisitOK'
      BY <3>1, <3>2 DEF IInv, VisitOK
    <3>4. TypeOK'
      BY <1>2, <3>1 DEF IInv, TypeOK, Reason
    <3>5. Items' = Items
      BY <3>1 DEF Items
    <3> QED
      BY <1>2, <3>1, <3>3, <3>4, <3>5
         DEF IInv, Abstract!Do, Abstract!Aborts, Abstract!Message
  <2> QED
    BY <2>5, <2>6
<1> QED
  BY <1>5, <1>6, <1>7

-----------------------------------------------------------------------------
LEMMA Initially ==
  ASSUME Init
  PROVE  IInv /\ Abstract!Init
<1>1. PICK n \in NewSizes : coll = New(n)
  BY DEF Init
<1>2. n \in Nat
  BY OrderedCollectionAssumption
<1>3. WellFormed(coll) /\ Items = <<>>
  BY <1>1, <1>2, NewIsEmpty DEF Items
<1>4. call \in Message /\ answer = <<>> /\ halted = "no" /\ visit = NoVisit
  BY DEF Init, Message, Operation
<1>5. visit \in Visit /\ VisitOK
  <2>1. <<>> \in Seq(Slot)
    OBVIOUS
  <2> QED
    BY <1>4, <2>1 DEF Visit, NoVisit, VisitOK
<1>6. TypeOK
  BY <1>3, <1>4, <1>5 DEF TypeOK, Reason
<1> QED
  BY <1>3, <1>4, <1>5, <1>6 DEF Init, IInv, Abstract!Init, Abstract!Message

LEMMA Step ==
  ASSUME IInv, [Next]_vars
  PROVE  IInv' /\ [Abstract!Next]_(Abstract!vars)
<1>1. CASE UNCHANGED vars
  <2>1. Items' = Items
    BY <1>1 DEF vars, Items
  <2>2. IInv'
    BY <1>1, <2>1 DEF vars, IInv, TypeOK, VisitOK
  <2> QED
    BY <1>1, <2>1, <2>2 DEF vars, Abstract!vars
<1>2. ASSUME Next PROVE IInv' /\ Abstract!Next
  <2>1. halted = "no" /\ Index \subseteq Nat
    BY <1>2, OrderedCollectionAssumption
       DEF Next, AddFirst, AddLast, AtPut, RemoveFirst, RemoveLast, At, CopyFromTo,
           DoStart, DoNext, DoEnd, Sent
  <2>2. CASE \E x \in Elem : AddFirst(x)
    BY <2>1, <2>2, AddFirstStep DEF Abstract!Next
  <2>3. CASE \E x \in Elem : AddLast(x)
    BY <2>1, <2>3, AddLastStep DEF Abstract!Next
  <2>4. CASE \E n \in Index, x \in Elem : AtPut(n, x)
    BY <2>1, <2>4, AtPutStep DEF Abstract!Next
  <2>5. CASE RemoveFirst
    BY <2>1, <2>5, RemoveFirstStep DEF Abstract!Next
  <2>6. CASE RemoveLast
    BY <2>1, <2>6, RemoveLastStep DEF Abstract!Next
  <2>7. CASE \E n \in Index : At(n)
    BY <2>1, <2>7, AtStep DEF Abstract!Next
  <2>8. CASE \E i, j \in Index : CopyFromTo(i, j)
    BY <2>1, <2>8, CopyStep DEF Abstract!Next
  <2>9. CASE DoStart \/ DoNext \/ DoEnd
    BY <2>1, <2>9, DoStep DEF Abstract!Next
  <2> QED
    BY <1>2, <2>2, <2>3, <2>4, <2>5, <2>6, <2>7, <2>8, <2>9 DEF Next
<1> QED
  BY <1>1, <1>2

LEMMA Inductive == Spec => []IInv
<1>1. Init => IInv
  BY Initially
<1>2. IInv /\ [Next]_vars => IInv'
  BY Step
<1> QED
  BY <1>1, <1>2, PTL DEF Spec

\* The elements always lie within the array.
THEOREM Typing == Spec => []TypeOK
<1>1. IInv => TypeOK
  BY DEF IInv
<1> QED
  BY <1>1, Inductive, PTL

\* A do: whose block only adds at the end passes every element there was when
\* it started, in order, wherever makeRoomAtLast moves them.
THEOREM AppendingBody == Spec => []AppendingBodySeesAll
<1>1. IInv => AppendingBodySeesAll
  BY DEF IInv, VisitOK, AppendingBodySeesAll
<1> QED
  BY <1>1, Inductive, PTL

\* An OrderedCollection implements a Deque.
THEOREM Refinement == Spec => DequeSpec
<1>1. Init => Abstract!Init
  BY Initially
<1>2. IInv /\ [Next]_vars => [Abstract!Next]_(Abstract!vars)
  BY Step
<1> QED
  BY <1>1, <1>2, Inductive, PTL DEF Spec, DequeSpec, Abstract!Spec

-----------------------------------------------------------------------------

(* Trees.  A tree is one of some number of levels, so what holds of nil and *)
(* of a node whose two trees it holds of, holds of all (TreeInduction).     *)

LEMMA Least ==
  ASSUME NEW Marks \in SUBSET Nat, Marks # {}
  PROVE  \E m \in Marks : \A n \in Marks : m <= n
<1> DEFINE R == StrictSubsetOrdering(Nat)
           U == {0 .. n : n \in Marks}
<1>1. IsWellFoundedOn(R, FiniteSubsetsOf(Nat))
  BY FS_StrictSubsetOrderingWellFounded
<1>2. U \subseteq FiniteSubsetsOf(Nat)
  <2> SUFFICES ASSUME NEW n \in Marks PROVE 0 .. n \in FiniteSubsetsOf(Nat)
    OBVIOUS
  <2>1. IsFiniteSet(0 .. n)
    BY FS_Interval
  <2> QED BY <2>1 DEF FiniteSubsetsOf
<1>3. U # {}
  OBVIOUS
<1>4. \A s, t \in SUBSET Nat : <<s, t>> \in R <=> s \subseteq t /\ s # t
  BY DEF StrictSubsetOrdering
<1> HIDE DEF R, U
<1>5. PICK x \in U : \A y \in U : ~(<<y, x>> \in R)
  BY <1>1, <1>2, <1>3, WFMin
<1>6. PICK m \in Marks : x = 0 .. m
  BY DEF U
<1>7. \A n \in Marks : ~(n < m)
  <2> SUFFICES ASSUME NEW n \in Marks, n < m PROVE FALSE
    OBVIOUS
  <2> DEFINE A == 0 .. n
             B == 0 .. m
  <2>1. A \in U /\ B = x
    BY <1>6 DEF U
  <2>2. m \in B /\ m \notin A /\ A \subseteq B /\ A \in SUBSET Nat /\ B \in SUBSET Nat
    OBVIOUS
  <2> HIDE DEF A, B
  <2>3. <<A, B>> \in R
    BY <2>2, <1>4
  <2> QED BY <2>1, <2>3, <1>5
<1> QED BY <1>7

\* Counting along the numbers.
LEMMA Upward ==
  ASSUME NEW Shown, 0 \in Shown, \A n \in Nat : n \in Shown => n + 1 \in Shown
  PROVE  \A n \in Nat : n \in Shown
<1> SUFFICES ASSUME NEW n \in Nat, n \notin Shown PROVE FALSE
  OBVIOUS
<1> DEFINE bad == {i \in Nat : i \notin Shown}
<1>1. bad \in SUBSET Nat /\ bad # {}
  OBVIOUS
<1>2. PICK m \in bad : \A i \in bad : m <= i
  <2> HIDE DEF bad
  <2> QED BY <1>1, Least
<1>3. m \in Nat /\ m # 0 /\ m - 1 \in Nat /\ ~(m <= m - 1)
  OBVIOUS
<1>4. m - 1 \in Shown
  BY <1>2, <1>3
<1>5. (m - 1) + 1 \in Shown /\ (m - 1) + 1 = m
  BY <1>3, <1>4
<1> QED BY <1>5

-----------------------------------------------------------------------------
(* The trees by their levels: the equations of the recursive definition.   *)
Over(below) == {NoTree} \cup (below \X TreeItem \X below \X Nat)
TreesTo(f, m) == \A n \in 0 .. m : f[n] = IF n = 0 THEN {NoTree} ELSE Over(f[n - 1])

LEMMA TreesSame ==
  ASSUME NEW f, NEW g, NEW m \in Nat, TreesTo(f, m), NEW o \in Nat, TreesTo(g, o)
  PROVE  \A n \in Nat : n <= m /\ n <= o => f[n] = g[n]
<1> DEFINE Shown == {n \in Nat : n <= m /\ n <= o => f[n] = g[n]}
<1>1. 0 \in Shown
  BY DEF TreesTo
<1>2. ASSUME NEW n \in Nat, n \in Shown PROVE n + 1 \in Shown
  <2> SUFFICES ASSUME n + 1 <= m, n + 1 <= o PROVE f[n + 1] = g[n + 1]
    OBVIOUS
  <2>1. f[n] = g[n]
    BY <1>2
  <2>2. n + 1 \in 0 .. m /\ n + 1 \in 0 .. o /\ n + 1 # 0 /\ (n + 1) - 1 = n
    OBVIOUS
  <2>3. f[n + 1] = Over(f[n]) /\ g[n + 1] = Over(g[n])
    BY <2>2 DEF TreesTo
  <2> QED BY <2>1, <2>3
<1> HIDE DEF Shown
<1>3. \A n \in Nat : n \in Shown
  BY <1>1, <1>2, Upward
<1> QED BY <1>3 DEF Shown

LEMMA TreesMade == \A m \in Nat : \E f : TreesTo(f, m)
<1> DEFINE Shown == {m \in Nat : \E f : TreesTo(f, m)}
<1>1. 0 \in Shown
  <2> DEFINE f == [n \in {0} |-> {NoTree}]
  <2>1. TreesTo(f, 0)
    BY DEF TreesTo
  <2> HIDE DEF f
  <2> QED BY <2>1
<1>2. ASSUME NEW m \in Nat, m \in Shown PROVE m + 1 \in Shown
  <2>1. PICK g : TreesTo(g, m)
    BY <1>2
  <2> DEFINE f == [n \in 0 .. m + 1 |-> IF n = m + 1 THEN Over(g[m]) ELSE g[n]]
  <2>2. f[m + 1] = Over(g[m]) /\ \A n \in 0 .. m : f[n] = g[n]
    OBVIOUS
  <2> HIDE DEF f
  <2>3. ASSUME NEW n \in 0 .. m + 1 PROVE f[n] = IF n = 0 THEN {NoTree} ELSE Over(f[n - 1])
    <3>1. CASE n = m + 1
      <4>1. m \in 0 .. m /\ n - 1 = m /\ n # 0
        BY <3>1
      <4> QED BY <2>2, <3>1, <4>1
    <3>2. CASE n # m + 1
      <4>1. n \in 0 .. m /\ (n # 0 => n - 1 \in 0 .. m)
        BY <3>2
      <4>2. f[n] = g[n] /\ (n # 0 => f[n - 1] = g[n - 1])
        BY <2>2, <4>1
      <4>3. g[n] = IF n = 0 THEN {NoTree} ELSE Over(g[n - 1])
        BY <2>1, <4>1 DEF TreesTo
      <4> QED BY <4>2, <4>3
    <3> QED BY <3>1, <3>2
  <2>4. TreesTo(f, m + 1)
    BY <2>3 DEF TreesTo
  <2> QED BY <2>4
<1> HIDE DEF Shown
<1>3. \A m \in Nat : m \in Shown
  BY <1>1, <1>2, Upward
<1> QED BY <1>3 DEF Shown

LEMMA TreesGiven ==
  /\ Trees[0] = {NoTree}
  /\ \A n \in Nat : Trees[n + 1] = {NoTree} \cup (Trees[n] \X TreeItem \X Trees[n] \X Nat)
<1> DEFINE step(f, n) == IF n = 0 THEN {NoTree} ELSE Over(f[n - 1])
           Solves(f) == f = [n \in Nat |-> step(f, n)]
           part(m) == CHOOSE f : TreesTo(f, m)
           whole == [n \in Nat |-> part(n)[n]]
<1>1. \A m \in Nat : TreesTo(part(m), m)
  BY TreesMade
<1> HIDE DEF part
<1>2. ASSUME NEW n \in Nat PROVE whole[n] = step(whole, n)
  <2>1. n \in 0 .. n /\ part(n)[n] = IF n = 0 THEN {NoTree} ELSE Over(part(n)[n - 1])
    <3> DEFINE f == part(n)
    <3>1. TreesTo(f, n) /\ n \in 0 .. n
      BY <1>1
    <3> HIDE DEF f
    <3>2. f[n] = IF n = 0 THEN {NoTree} ELSE Over(f[n - 1])
      BY <3>1 DEF TreesTo
    <3> QED BY <3>1, <3>2 DEF f
  <2>2. ASSUME n # 0 PROVE part(n)[n - 1] = part(n - 1)[n - 1]
    <3>1. n - 1 \in Nat /\ n - 1 <= n /\ n - 1 <= n - 1
      BY <2>2
    <3>2. TreesTo(part(n), n) /\ TreesTo(part(n - 1), n - 1)
      BY <1>1, <3>1
    <3> QED BY <3>1, <3>2, TreesSame
  <2>3. whole[n] = part(n)[n] /\ (n # 0 => whole[n - 1] = part(n - 1)[n - 1])
    OBVIOUS
  <2> HIDE DEF whole
  <2> QED BY <2>1, <2>2, <2>3
<1>3. Solves(whole)
  <2>1. whole = [n \in Nat |-> whole[n]]
    OBVIOUS
  <2> HIDE DEF whole, step
  <2> QED BY <1>2, <2>1
<1>4. Solves(Trees)
  <2>1. Trees = CHOOSE f : Solves(f)
    BY DEF Trees, Over
  <2> HIDE DEF Solves, whole
  <2> QED BY <1>3, <2>1
<1>5. \A n \in Nat : Trees[n] = step(Trees, n)
  <2> HIDE DEF step
  <2> QED BY <1>4
<1>6. \A n \in Nat : n + 1 \in Nat /\ n + 1 # 0 /\ (n + 1) - 1 = n
  OBVIOUS
<1> QED BY <1>5, <1>6 DEF Over

-----------------------------------------------------------------------------
LEMMA TreesGrow ==
  ASSUME NEW n \in Nat
  PROVE  /\ NoTree \in Trees[n]
         /\ \A m \in 0 .. n : Trees[m] \subseteq Trees[n]
<1> DEFINE P(k) == NoTree \in Trees[k] /\ Trees[k] \subseteq Trees[k + 1]
           Shown == {k \in Nat : P(k)}
<1>1. 0 \in Shown
  BY TreesGiven
<1>2. ASSUME NEW k \in Nat, k \in Shown PROVE k + 1 \in Shown
  <2>1. /\ Trees[k + 1] = {NoTree} \cup (Trees[k] \X TreeItem \X Trees[k] \X Nat)
        /\ Trees[(k + 1) + 1] = {NoTree} \cup (Trees[k + 1] \X TreeItem \X Trees[k + 1] \X Nat)
    BY TreesGiven
  <2>2. Trees[k] \subseteq Trees[k + 1]
    BY <1>2
  <2>3. Trees[k] \X TreeItem \X Trees[k] \X Nat \subseteq Trees[k + 1] \X TreeItem \X Trees[k + 1] \X Nat
    BY <2>2
  <2> QED BY <2>1, <2>3
<1> HIDE DEF Shown
<1>3. \A k \in Nat : k \in Shown
  BY <1>1, <1>2, Upward
<1>4. \A k \in Nat : P(k)
  BY <1>3 DEF Shown
<1> DEFINE U == {k \in Nat : \A m \in 0 .. k : Trees[m] \subseteq Trees[k]}
<1>5. 0 \in U
  OBVIOUS
<1>6. ASSUME NEW k \in Nat, k \in U PROVE k + 1 \in U
  <2> SUFFICES ASSUME NEW m \in 0 .. k + 1 PROVE Trees[m] \subseteq Trees[k + 1]
    OBVIOUS
  <2>1. m = k + 1 \/ m \in 0 .. k
    OBVIOUS
  <2>2. m \in 0 .. k => Trees[m] \subseteq Trees[k]
    BY <1>6
  <2>3. Trees[k] \subseteq Trees[k + 1]
    BY <1>4
  <2> QED BY <2>1, <2>2, <2>3
<1> HIDE DEF U
<1>7. \A k \in Nat : k \in U
  BY <1>5, <1>6, Upward
<1> QED BY <1>4, <1>7 DEF U

\* What a tree of n levels is made of.
LEMMA NodeOf ==
  ASSUME NEW n \in Nat, NEW t \in Trees[n], t # NoTree
  PROVE  /\ n # 0 /\ n - 1 \in Nat
         /\ LeftOf(t) \in Trees[n - 1] /\ ItemOf(t) \in TreeItem /\ RightOf(t) \in Trees[n - 1]
         /\ HeightOf(t) \in Nat
         /\ t = TreeNode(LeftOf(t), ItemOf(t), RightOf(t), HeightOf(t))
<1>1. n # 0 /\ n - 1 \in Nat /\ (n - 1) + 1 = n
  BY TreesGiven
<1>2. Trees[(n - 1) + 1] = {NoTree} \cup (Trees[n - 1] \X TreeItem \X Trees[n - 1] \X Nat)
  BY <1>1, TreesGiven
<1>3. t \in Trees[n - 1] \X TreeItem \X Trees[n - 1] \X Nat
  BY <1>1, <1>2
<1>4. HeightOf(t) = t[4]
  BY DEF HeightOf
<1> QED BY <1>1, <1>3, <1>4 DEF LeftOf, ItemOf, RightOf, TreeNode

LEMMA NodeIn ==
  ASSUME NEW n \in Nat, NEW l \in Trees[n], NEW r \in Trees[n], NEW v \in TreeItem, NEW h \in Nat
  PROVE  TreeNode(l, v, r, h) \in Trees[n + 1]
BY TreesGiven DEF TreeNode

LEMMA HeightIn ==
  ASSUME NEW n \in Nat, NEW t \in Trees[n]
  PROVE  HeightOf(t) \in Nat
BY NodeOf DEF HeightOf

\* A part of a tree, and how to prove something of all.
LEMMA PartOf ==
  ASSUME NEW t \in Tree, t # NoTree
  PROVE  /\ LeftOf(t) \in Tree /\ RightOf(t) \in Tree /\ ItemOf(t) \in TreeItem /\ HeightOf(t) \in Nat
         /\ t = TreeNode(LeftOf(t), ItemOf(t), RightOf(t), HeightOf(t))
<1>1. MaxItems \in Nat /\ t \in Trees[MaxItems]
  BY MaxItemsAssumption DEF Tree
<1>2. /\ MaxItems - 1 \in Nat /\ MaxItems - 1 \in 0 .. MaxItems
      /\ LeftOf(t) \in Trees[MaxItems - 1] /\ RightOf(t) \in Trees[MaxItems - 1]
      /\ ItemOf(t) \in TreeItem /\ HeightOf(t) \in Nat
      /\ t = TreeNode(LeftOf(t), ItemOf(t), RightOf(t), HeightOf(t))
  BY <1>1, NodeOf
<1>3. Trees[MaxItems - 1] \subseteq Trees[MaxItems]
  BY <1>1, <1>2, TreesGrow
<1> QED BY <1>2, <1>3 DEF Tree

LEMMA TreeInduction ==
  ASSUME NEW Shown, NoTree \in Shown,
         \A t \in Tree : t # NoTree /\ LeftOf(t) \in Shown /\ RightOf(t) \in Shown => t \in Shown
  PROVE  Tree \subseteq Shown
<1> DEFINE U == {n \in Nat : n <= MaxItems => Trees[n] \subseteq Shown}
<1>0. MaxItems \in Nat
  BY MaxItemsAssumption
<1>1. 0 \in U
  BY TreesGiven
<1>2. ASSUME NEW n \in Nat, n \in U PROVE n + 1 \in U
  <2> SUFFICES ASSUME n + 1 <= MaxItems, NEW t \in Trees[n + 1] PROVE t \in Shown
    OBVIOUS
  <2>1. Trees[n] \subseteq Shown
    BY <1>0, <1>2
  <2>2. CASE t # NoTree
    <3>1. n + 1 \in Nat /\ n + 1 \in 0 .. MaxItems /\ (n + 1) - 1 = n
      BY <1>0
    <3>2. LeftOf(t) \in Trees[n] /\ RightOf(t) \in Trees[n]
      BY <2>2, <3>1, NodeOf
    <3>3. t \in Tree
      BY <1>0, <3>1, TreesGrow DEF Tree
    <3> QED BY <2>1, <2>2, <3>2, <3>3
  <2> QED BY <2>2
<1> HIDE DEF U
<1>3. \A n \in Nat : n \in U
  BY <1>1, <1>2, Upward
<1> QED BY <1>0, <1>3 DEF U, Tree

-----------------------------------------------------------------------------
(* What recursive functions of trees are.                                  *)
Combining(V) == [V \X Tree \X V -> V]
Folds(g, V, z, F) ==
    /\ g \in [Tree -> V]
    /\ \A t \in Tree : g[t] = IF t = NoTree THEN z ELSE F[<<g[LeftOf(t)], t, g[RightOf(t)]>>]

LEMMA Folding ==
  ASSUME NEW V, NEW z \in V, NEW F \in Combining(V)
  PROVE  \E g : Folds(g, V, z, F)
<1> DEFINE Solves(g, S) == \A t \in S :
              g[t] = IF t = NoTree THEN z ELSE F[<<g[LeftOf(t)], t, g[RightOf(t)]>>]
           U == {n \in Nat : n <= MaxItems => \E g \in [Trees[n] -> V] : Solves(g, Trees[n])}
<1>0. MaxItems \in Nat
  BY MaxItemsAssumption
<1>1. 0 \in U
  <2> DEFINE g == [t \in Trees[0] |-> z]
  <2>1. g \in [Trees[0] -> V] /\ Solves(g, Trees[0])
    BY TreesGiven
  <2> HIDE DEF g, Solves
  <2> QED BY <2>1
<1>2. ASSUME NEW n \in Nat, n \in U PROVE n + 1 \in U
  <2> SUFFICES ASSUME n + 1 <= MaxItems
               PROVE  \E g \in [Trees[n + 1] -> V] : Solves(g, Trees[n + 1])
    OBVIOUS
  <2>0. F \in [V \X Tree \X V -> V]
    BY DEF Combining
  <2>1. PICK f \in [Trees[n] -> V] : Solves(f, Trees[n])
    BY <1>0, <1>2
  <2>2. /\ n + 1 \in Nat /\ (n + 1) - 1 = n /\ n \in 0 .. n + 1 /\ Trees[n] \subseteq Trees[n + 1]
        /\ Trees[n + 1] \subseteq Tree
    <3>1. n + 1 \in Nat /\ n + 1 \in 0 .. MaxItems /\ n \in 0 .. n + 1
      BY <1>0
    <3> QED BY <1>0, <3>1, TreesGrow DEF Tree
  <2> DEFINE new(t) == IF t = NoTree THEN z ELSE F[<<f[LeftOf(t)], t, f[RightOf(t)]>>]
             g == [t \in Trees[n + 1] |-> new(t)]
  <2>3. ASSUME NEW t \in Trees[n + 1], t # NoTree
        PROVE  LeftOf(t) \in Trees[n] /\ RightOf(t) \in Trees[n] /\ t \in Tree
    BY <2>2, <2>3, NodeOf
  <2>4. ASSUME NEW t \in Trees[n + 1] PROVE new(t) \in V
    <3>1. CASE t # NoTree
      <4>1. <<f[LeftOf(t)], t, f[RightOf(t)]>> \in V \X Tree \X V
        BY <2>1, <2>3, <3>1
      <4> QED BY <2>0, <3>1, <4>1
    <3> QED BY <3>1
  <2>5. g \in [Trees[n + 1] -> V] /\ \A t \in Trees[n + 1] : g[t] = new(t)
    <3> HIDE DEF new
    <3> QED BY <2>4
  <2>6. \A t \in Trees[n] : g[t] = f[t]
    <3> SUFFICES ASSUME NEW t \in Trees[n] PROVE new(t) = f[t]
      BY <2>2, <2>5
    <3> QED BY <2>1
  <2> HIDE DEF g
  <2>7. \A t \in Trees[n + 1] :
           g[t] = IF t = NoTree THEN z ELSE F[<<g[LeftOf(t)], t, g[RightOf(t)]>>]
    BY <2>3, <2>5, <2>6
  <2> QED BY <2>5, <2>7
<1> HIDE DEF U
<1>3. \A n \in Nat : n \in U
  BY <1>1, <1>2, Upward
<1>4. \E g \in [Tree -> V] : Solves(g, Tree)
  BY <1>0, <1>3 DEF U, Tree
<1> QED BY <1>4 DEF Folds

\* The recursive functions of trees satisfy their equations.
LEMMA InOrderIs ==
  /\ InOrder \in [Tree -> Seq(TreeItem)]
  /\ \A t \in Tree : InOrder[t] = IF t = NoTree THEN <<>>
                                  ELSE InOrder[LeftOf(t)] \o <<ItemOf(t)>> \o InOrder[RightOf(t)]
<1> DEFINE V == Seq(TreeItem)
           F == [p \in V \X Tree \X V |-> IF p[2] = NoTree THEN <<>> ELSE p[1] \o <<ItemOf(p[2])>> \o p[3]]
           step(f, t) == IF t = NoTree THEN <<>> ELSE f[LeftOf(t)] \o <<ItemOf(t)>> \o f[RightOf(t)]
           Solves(f) == f = [t \in Tree |-> step(f, t)]
<1>1. F \in [V \X Tree \X V -> V]
  <2> SUFFICES ASSUME NEW a \in V, NEW t \in Tree, NEW b \in V, t # NoTree
               PROVE  a \o <<ItemOf(t)>> \o b \in V
    OBVIOUS
  <2>1. ItemOf(t) \in TreeItem
    BY PartOf
  <2> QED BY <2>1
<1>2. <<>> \in V
  OBVIOUS
<1> HIDE DEF F
<1>3. PICK g : Folds(g, V, <<>>, F)
  <2>1. F \in Combining(V)
    BY <1>1 DEF Combining
  <2> HIDE DEF V, step, Solves
  <2> QED BY <1>2, <2>1, Folding
<1>4. \A t \in Tree : g[t] = step(g, t)
  <2> SUFFICES ASSUME NEW t \in Tree, t # NoTree
               PROVE  F[<<g[LeftOf(t)], t, g[RightOf(t)]>>] = g[LeftOf(t)] \o <<ItemOf(t)>> \o g[RightOf(t)]
    BY <1>3 DEF Folds
  <2>1. <<g[LeftOf(t)], t, g[RightOf(t)]>> \in V \X Tree \X V
    <3> HIDE DEF V
    <3> QED BY <1>3, PartOf DEF Folds
  <2> HIDE DEF V
  <2> QED BY <2>1 DEF F
<1>5. Solves(g)
  <2> HIDE DEF step, V
  <2> QED BY <1>3, <1>4 DEF Folds
<1>6. Solves(InOrder)
  <2>1. InOrder = CHOOSE f : Solves(f)
    BY DEF InOrder
  <2> HIDE DEF Solves
  <2> QED BY <1>5, <2>1
<1>7. \A t \in Tree : InOrder[t] = step(InOrder, t)
  <2> HIDE DEF step
  <2> QED BY <1>6
<1>8. InOrder \in [Tree -> V]
  <2> DEFINE Shown == {t \in Tree : InOrder[t] \in V}
  <2>1. NoTree \in Shown
    <3>1. NoTree \in Tree
      BY MaxItemsAssumption, TreesGrow DEF Tree
    <3> HIDE DEF V
    <3> QED BY <1>2, <1>7, <3>1
  <2>2. ASSUME NEW t \in Tree, t # NoTree, LeftOf(t) \in Shown, RightOf(t) \in Shown PROVE t \in Shown
    <3>1. ItemOf(t) \in TreeItem
      BY <2>2, PartOf
    <3>2. InOrder[LeftOf(t)] \in V /\ InOrder[RightOf(t)] \in V
      BY <2>2
    <3>3. step(InOrder, t) \in V
      BY <2>2, <3>1, <3>2
    <3> HIDE DEF V, step
    <3> QED BY <1>7, <3>3
  <2> HIDE DEF Shown
  <2>3. Tree \subseteq Shown
    BY <2>1, <2>2, TreeInduction
  <2>4. InOrder = [t \in Tree |-> InOrder[t]]
    <3> HIDE DEF step
    <3> QED BY <1>6
  <2> HIDE DEF V
  <2> QED BY <2>3, <2>4 DEF Shown
<1> QED BY <1>7, <1>8

LEMMA DepthIs ==
  /\ Depth \in [Tree -> Nat]
  /\ \A t \in Tree : Depth[t] = IF t = NoTree THEN 0
                                ELSE 1 + Higher(Depth[LeftOf(t)], Depth[RightOf(t)])
<1> DEFINE V == Nat
           F == [p \in V \X Tree \X V |-> IF p[2] = NoTree THEN 0 ELSE 1 + Higher(p[1], p[3])]
           step(f, t) == IF t = NoTree THEN 0 ELSE 1 + Higher(f[LeftOf(t)], f[RightOf(t)])
           Solves(f) == f = [t \in Tree |-> step(f, t)]
<1>1. F \in [V \X Tree \X V -> V]
  <2> SUFFICES ASSUME NEW a \in V, NEW t \in Tree, NEW b \in V, t # NoTree
               PROVE  1 + Higher(a, b) \in V
    OBVIOUS
  <2> QED BY DEF Higher
<1>2. 0 \in V
  OBVIOUS
<1> HIDE DEF F
<1>3. PICK g : Folds(g, V, 0, F)
  <2>1. F \in Combining(V)
    BY <1>1 DEF Combining
  <2> HIDE DEF V, step, Solves
  <2> QED BY <1>2, <2>1, Folding
<1>4. \A t \in Tree : g[t] = step(g, t)
  <2> SUFFICES ASSUME NEW t \in Tree, t # NoTree
               PROVE  F[<<g[LeftOf(t)], t, g[RightOf(t)]>>] = 1 + Higher(g[LeftOf(t)], g[RightOf(t)])
    BY <1>3 DEF Folds
  <2>1. <<g[LeftOf(t)], t, g[RightOf(t)]>> \in V \X Tree \X V
    <3> HIDE DEF V
    <3> QED BY <1>3, PartOf DEF Folds
  <2> HIDE DEF V
  <2> QED BY <2>1 DEF F
<1>5. Solves(g)
  <2> HIDE DEF step, V
  <2> QED BY <1>3, <1>4 DEF Folds
<1>6. Solves(Depth)
  <2>1. Depth = CHOOSE f : Solves(f)
    BY DEF Depth
  <2> HIDE DEF Solves
  <2> QED BY <1>5, <2>1
<1>7. \A t \in Tree : Depth[t] = step(Depth, t)
  <2> HIDE DEF step
  <2> QED BY <1>6
<1>8. Depth \in [Tree -> V]
  <2> DEFINE Shown == {t \in Tree : Depth[t] \in V}
  <2>1. NoTree \in Shown
    <3>1. NoTree \in Tree
      BY MaxItemsAssumption, TreesGrow DEF Tree
    <3> HIDE DEF V
    <3> QED BY <1>2, <1>7, <3>1
  <2>2. ASSUME NEW t \in Tree, t # NoTree, LeftOf(t) \in Shown, RightOf(t) \in Shown PROVE t \in Shown
    <3>2. Depth[LeftOf(t)] \in V /\ Depth[RightOf(t)] \in V
      BY <2>2
    <3>3. step(Depth, t) \in V
      BY <2>2, <3>2 DEF Higher
    <3> HIDE DEF V, step
    <3> QED BY <1>7, <3>3
  <2> HIDE DEF Shown
  <2>3. Tree \subseteq Shown
    BY <2>1, <2>2, TreeInduction
  <2>4. Depth = [t \in Tree |-> Depth[t]]
    <3> HIDE DEF step
    <3> QED BY <1>6
  <2> HIDE DEF V
  <2> QED BY <2>3, <2>4 DEF Shown
<1> QED BY <1>7, <1>8

LEMMA SubtreesIs ==
  /\ Subtrees \in [Tree -> SUBSET Tree]
  /\ \A t \in Tree : Subtrees[t] = IF t = NoTree THEN {}
                                 ELSE {t} \cup Subtrees[LeftOf(t)] \cup Subtrees[RightOf(t)]
<1> DEFINE V == SUBSET Tree
           F == [p \in V \X Tree \X V |-> IF p[2] = NoTree THEN {} ELSE {p[2]} \cup p[1] \cup p[3]]
           step(f, t) == IF t = NoTree THEN {} ELSE {t} \cup f[LeftOf(t)] \cup f[RightOf(t)]
           Solves(f) == f = [t \in Tree |-> step(f, t)]
<1>1. F \in [V \X Tree \X V -> V]
  <2> SUFFICES ASSUME NEW a \in V, NEW t \in Tree, NEW b \in V, t # NoTree
               PROVE  {t} \cup a \cup b \in V
    OBVIOUS
  <2> QED OBVIOUS
<1>2. {} \in V
  OBVIOUS
<1> HIDE DEF F
<1>3. PICK g : Folds(g, V, {}, F)
  <2>1. F \in Combining(V)
    BY <1>1 DEF Combining
  <2> HIDE DEF V, step, Solves
  <2> QED BY <1>2, <2>1, Folding
<1>4. \A t \in Tree : g[t] = step(g, t)
  <2> SUFFICES ASSUME NEW t \in Tree, t # NoTree
               PROVE  F[<<g[LeftOf(t)], t, g[RightOf(t)]>>] = {t} \cup g[LeftOf(t)] \cup g[RightOf(t)]
    BY <1>3 DEF Folds
  <2>1. <<g[LeftOf(t)], t, g[RightOf(t)]>> \in V \X Tree \X V
    <3> HIDE DEF V
    <3> QED BY <1>3, PartOf DEF Folds
  <2> HIDE DEF V
  <2> QED BY <2>1 DEF F
<1>5. Solves(g)
  <2> HIDE DEF step, V
  <2> QED BY <1>3, <1>4 DEF Folds
<1>6. Solves(Subtrees)
  <2>1. Subtrees = CHOOSE f : Solves(f)
    BY DEF Subtrees
  <2> HIDE DEF Solves
  <2> QED BY <1>5, <2>1
<1>7. \A t \in Tree : Subtrees[t] = step(Subtrees, t)
  <2> HIDE DEF step
  <2> QED BY <1>6
<1>8. Subtrees \in [Tree -> V]
  <2> DEFINE Shown == {t \in Tree : Subtrees[t] \in V}
  <2>1. NoTree \in Shown
    <3>1. NoTree \in Tree
      BY MaxItemsAssumption, TreesGrow DEF Tree
    <3> HIDE DEF V
    <3> QED BY <1>2, <1>7, <3>1
  <2>2. ASSUME NEW t \in Tree, t # NoTree, LeftOf(t) \in Shown, RightOf(t) \in Shown PROVE t \in Shown
    <3>2. Subtrees[LeftOf(t)] \in V /\ Subtrees[RightOf(t)] \in V
      BY <2>2
    <3>3. step(Subtrees, t) \in V
      BY <2>2, <3>2
    <3> HIDE DEF V, step
    <3> QED BY <1>7, <3>3
  <2> HIDE DEF Shown
  <2>3. Tree \subseteq Shown
    BY <2>1, <2>2, TreeInduction
  <2>4. Subtrees = [t \in Tree |-> Subtrees[t]]
    <3> HIDE DEF step
    <3> QED BY <1>6
  <2> HIDE DEF V
  <2> QED BY <2>3, <2>4 DEF Shown
<1> QED BY <1>7, <1>8

LEMMA InsertIs ==
  ASSUME NEW x
  PROVE  /\ Insert(NoTree, x) = TreeNode(NoTree, x, NoTree, 0)
         /\ \A t \in Tree : t # NoTree =>
               Insert(t, x) =
                 IF Precedes(order, x, ItemOf(t))
                 THEN Balance(TreeNode(Insert(LeftOf(t), x), ItemOf(t), RightOf(t), HeightOf(t)))
                 ELSE Balance(TreeNode(LeftOf(t), ItemOf(t), Insert(RightOf(t), x), HeightOf(t)))
<1> DEFINE step(f, t) ==
             IF t = NoTree THEN TreeNode(NoTree, x, NoTree, 0)
             ELSE IF Precedes(order, x, ItemOf(t))
             THEN Balance(TreeNode(f[LeftOf(t)], ItemOf(t), RightOf(t), HeightOf(t)))
             ELSE Balance(TreeNode(LeftOf(t), ItemOf(t), f[RightOf(t)], HeightOf(t)))
           Solves(f, S) == f = [t \in S |-> step(f, t)]
           U == {n \in Nat : n <= MaxItems => \E f : Solves(f, Trees[n])}
<1>0. MaxItems \in Nat /\ NoTree \in Tree
  BY MaxItemsAssumption, TreesGrow DEF Tree
<1>1. 0 \in U
  <2> DEFINE f == [t \in Trees[0] |-> TreeNode(NoTree, x, NoTree, 0)]
  <2>1. Solves(f, Trees[0])
    BY TreesGiven
  <2> HIDE DEF f, Solves
  <2> QED BY <2>1
<1>2. ASSUME NEW n \in Nat, n \in U PROVE n + 1 \in U
  <2> SUFFICES ASSUME n + 1 <= MaxItems PROVE \E f : Solves(f, Trees[n + 1])
    OBVIOUS
  <2>1. PICK f : Solves(f, Trees[n])
    <3> HIDE DEF Solves
    <3> QED BY <1>0, <1>2
  <2>2. n + 1 \in Nat /\ (n + 1) - 1 = n /\ n \in 0 .. n + 1 /\ Trees[n] \subseteq Trees[n + 1]
    <3>1. n + 1 \in Nat /\ n \in 0 .. n + 1
      BY <1>0
    <3> QED BY <3>1, TreesGrow
  <2> DEFINE g == [t \in Trees[n + 1] |-> step(f, t)]
  <2>3. ASSUME NEW t \in Trees[n + 1], t # NoTree
        PROVE  LeftOf(t) \in Trees[n] /\ RightOf(t) \in Trees[n]
    BY <2>2, <2>3, NodeOf
  <2>4. \A t \in Trees[n] : f[t] = step(f, t)
    <3> HIDE DEF step
    <3> QED BY <2>1
  <2>5. \A t \in Trees[n + 1] : g[t] = step(f, t)
    <3> HIDE DEF step
    <3> QED OBVIOUS
  <2>6. \A t \in Trees[n] : g[t] = f[t]
    <3> HIDE DEF step, g
    <3> QED BY <2>2, <2>4, <2>5
  <2>7. ASSUME NEW t \in Trees[n + 1] PROVE step(g, t) = step(f, t)
    <3> HIDE DEF g
    <3> QED BY <2>3, <2>6
  <2>8. Solves(g, Trees[n + 1])
    <3> HIDE DEF step
    <3> QED BY <2>7
  <2> HIDE DEF Solves, g
  <2> QED BY <2>8
<1> HIDE DEF U
<1>3. \A n \in Nat : n \in U
  BY <1>1, <1>2, Upward
<1>4. \E f : Solves(f, Tree)
  <2> HIDE DEF Solves
  <2> QED BY <1>0, <1>3 DEF U, Tree
<1> DEFINE I == CHOOSE f : Solves(f, Tree)
<1>5. \A t : Insert(t, x) = I[t]
  BY DEF Insert
<1>6. Solves(I, Tree)
  <2> HIDE DEF Solves
  <2> QED BY <1>4
<1>7. \A t \in Tree : I[t] = step(I, t)
  <2> HIDE DEF step, I
  <2> QED BY <1>6
<1> HIDE DEF I
<1>8. \A t \in Tree : t # NoTree => LeftOf(t) \in Tree /\ RightOf(t) \in Tree
  BY PartOf
<1> QED BY <1>0, <1>5, <1>7, <1>8

-----------------------------------------------------------------------------

(* What balance makes of a node, by the heights below it: the sends it makes *)
(* of itself go three deep, and the deepest only measure.                   *)

\* A node as it is once measured.
Made(l, v, r) == TreeNode(l, v, r, Higher(HeightOf(l), HeightOf(r)) + 1)

LEMMA NodeParts ==
  ASSUME NEW l, NEW v, NEW r, NEW h
  PROVE  /\ TreeNode(l, v, r, h) # NoTree
         /\ LeftOf(TreeNode(l, v, r, h)) = l /\ ItemOf(TreeNode(l, v, r, h)) = v
         /\ RightOf(TreeNode(l, v, r, h)) = r /\ HeightOf(TreeNode(l, v, r, h)) = h
         /\ DeltaOf(TreeNode(l, v, r, h)) = HeightOf(l) - HeightOf(r)
         /\ Measured(TreeNode(l, v, r, h)) = Made(l, v, r)
BY DEF TreeNode, NoTree, LeftOf, ItemOf, RightOf, HeightOf, DeltaOf, Measured, Made

LEMMA DeepestIs ==
  ASSUME NEW l, NEW v, NEW r, NEW h, HeightOf(l) \in Nat, HeightOf(r) \in Nat,
         HeightOf(l) - HeightOf(r) \in -1 .. 1
  PROVE  Deepest(TreeNode(l, v, r, h)) = Made(l, v, r)
BY NodeParts DEF Deepest

LEMMA AgainLevel ==
  ASSUME NEW l, NEW v, NEW r, NEW h, HeightOf(l) \in Nat, HeightOf(r) \in Nat,
         HeightOf(l) - HeightOf(r) \in -1 .. 1
  PROVE  BalanceAgain(TreeNode(l, v, r, h)) = Made(l, v, r)
BY NodeParts DEF BalanceAgain, BalanceBy

\* The send one deeper, of the node that went down.
LEMMA AgainLeftwards ==
  ASSUME NEW a, NEW v, NEW b, NEW w, NEW c, NEW h, NEW k \in Nat,
         HeightOf(a) = k, HeightOf(b) = k + 1, HeightOf(c) = k + 1
  PROVE  BalanceAgain(TreeNode(a, v, Made(b, w, c), h)) = Made(Made(a, v, b), w, c)
<1> DEFINE r == Made(b, w, c)
           t == TreeNode(a, v, r, h)
<1>1. HeightOf(r) = k + 2 /\ LeftOf(r) = b /\ RightOf(r) = c /\ ItemOf(r) = w /\ DeltaOf(r) = 0
  BY NodeParts DEF Made, Higher
<1> HIDE DEF r
<1>2. DeltaOf(t) = -2 /\ LeftOf(t) = a /\ RightOf(t) = r /\ ItemOf(t) = v /\ HeightOf(t) = h
  BY <1>1, NodeParts
<1>3. BalanceAgain(t) = RotateLeft(Deepest, t)
  BY <1>1, <1>2 DEF BalanceAgain, BalanceBy
<1>4. DownLeft(t) = TreeNode(a, v, b, h)
  BY <1>1, <1>2 DEF DownLeft
<1>5. Deepest(TreeNode(a, v, b, h)) = Made(a, v, b)
  BY DeepestIs
<1>6. HeightOf(Made(a, v, b)) = k + 2
  BY NodeParts DEF Made, Higher
<1>7. RotateLeft(Deepest, t) = Deepest(TreeNode(Made(a, v, b), w, c, HeightOf(r)))
  BY <1>1, <1>2, <1>4, <1>5 DEF RotateLeft
<1>8. Deepest(TreeNode(Made(a, v, b), w, c, HeightOf(r))) = Made(Made(a, v, b), w, c)
  BY <1>6, DeepestIs
<1> QED BY <1>3, <1>7, <1>8 DEF r


LEMMA AgainRightwards ==
  ASSUME NEW a, NEW v, NEW b, NEW w, NEW c, NEW h, NEW k \in Nat,
         HeightOf(a) = k, HeightOf(b) = k + 1, HeightOf(c) = k + 1
  PROVE  BalanceAgain(TreeNode(Made(c, w, b), v, a, h)) = Made(c, w, Made(b, v, a))
<1> DEFINE r == Made(c, w, b)
           t == TreeNode(r, v, a, h)
<1>1. HeightOf(r) = k + 2 /\ RightOf(r) = b /\ LeftOf(r) = c /\ ItemOf(r) = w /\ DeltaOf(r) = 0
  BY NodeParts DEF Made, Higher
<1> HIDE DEF r
<1>2. DeltaOf(t) = 2 /\ RightOf(t) = a /\ LeftOf(t) = r /\ ItemOf(t) = v /\ HeightOf(t) = h
  BY <1>1, NodeParts
<1>3. BalanceAgain(t) = RotateRight(Deepest, t)
  BY <1>1, <1>2 DEF BalanceAgain, BalanceBy
<1>4. DownRight(t) = TreeNode(b, v, a, h)
  BY <1>1, <1>2 DEF DownRight
<1>5. Deepest(TreeNode(b, v, a, h)) = Made(b, v, a)
  BY DeepestIs
<1>6. HeightOf(Made(b, v, a)) = k + 2
  BY NodeParts DEF Made, Higher
<1>7. RotateRight(Deepest, t) = Deepest(TreeNode(c, w, Made(b, v, a), HeightOf(r)))
  BY <1>1, <1>2, <1>4, <1>5 DEF RotateRight
<1>8. Deepest(TreeNode(c, w, Made(b, v, a), HeightOf(r))) = Made(c, w, Made(b, v, a))
  BY <1>6, DeepestIs
<1> QED BY <1>3, <1>7, <1>8 DEF r


LEMMA AgainLeftwardsTwice ==
  ASSUME NEW a, NEW v, NEW b, NEW u, NEW c, NEW w, NEW d, NEW h, NEW k \in Nat \ {0},
         HeightOf(a) = k, HeightOf(b) = k - 1, HeightOf(c) = k, HeightOf(d) = k
  PROVE  BalanceAgain(TreeNode(Made(a, v, Made(b, u, c)), w, d, h)) = Made(Made(a, v, b), u, Made(c, w, d))
<1> DEFINE p == Made(b, u, c)
           s == Made(a, v, p)
           t == TreeNode(s, w, d, h)
           x == Made(a, v, b)
           y == Made(x, u, c)
           t2 == TreeNode(y, w, d, h)
<1>1. HeightOf(p) = k + 1 /\ LeftOf(p) = b /\ RightOf(p) = c /\ ItemOf(p) = u
  BY NodeParts DEF Made, Higher
<1> HIDE DEF p
<1>2. HeightOf(s) = k + 2 /\ LeftOf(s) = a /\ RightOf(s) = p /\ ItemOf(s) = v /\ DeltaOf(s) = -1
  BY <1>1, NodeParts DEF Made, Higher
<1> HIDE DEF s
<1>3. DeltaOf(t) = 2 /\ LeftOf(t) = s /\ RightOf(t) = d /\ ItemOf(t) = w /\ HeightOf(t) = h
  BY <1>2, NodeParts
<1> HIDE DEF t
<1>4. DownLeft(s) = TreeNode(a, v, b, HeightOf(s))
  BY <1>1, <1>2 DEF DownLeft
<1>5. Deepest(TreeNode(a, v, b, HeightOf(s))) = x
  BY <1>2, DeepestIs
<1>6. HeightOf(x) = k + 1
  BY NodeParts DEF Made, Higher
<1> HIDE DEF x
<1>7. Deepest(TreeNode(x, u, c, HeightOf(p))) = y
  BY <1>1, <1>6, DeepestIs
<1>8. RotateLeft(Deepest, s) = y
  BY <1>1, <1>2, <1>4, <1>5, <1>7 DEF RotateLeft
<1>9. HeightOf(y) = k + 2 /\ LeftOf(y) = x /\ RightOf(y) = c /\ ItemOf(y) = u
  BY <1>6, NodeParts DEF Made, Higher
<1> HIDE DEF y
<1>10. BalanceAgain(t) = RotateRight(Deepest, t2)
  BY <1>2, <1>3, <1>8 DEF BalanceAgain, BalanceBy
<1>11. LeftOf(t2) = y /\ RightOf(t2) = d /\ ItemOf(t2) = w /\ HeightOf(t2) = h
  BY NodeParts
<1> HIDE DEF t2
<1>12. DownRight(t2) = TreeNode(c, w, d, h)
  BY <1>9, <1>11 DEF DownRight
<1>13. Deepest(TreeNode(c, w, d, h)) = Made(c, w, d)
  BY DeepestIs
<1>14. HeightOf(Made(c, w, d)) = k + 1
  BY NodeParts DEF Made, Higher
<1>15. RotateRight(Deepest, t2) = Deepest(TreeNode(x, u, Made(c, w, d), HeightOf(y)))
  BY <1>9, <1>11, <1>12, <1>13 DEF RotateRight
<1>16. Deepest(TreeNode(x, u, Made(c, w, d), HeightOf(y))) = Made(x, u, Made(c, w, d))
  BY <1>6, <1>14, DeepestIs
<1> QED BY <1>10, <1>15, <1>16 DEF p, s, t, x


LEMMA AgainRightwardsTwice ==
  ASSUME NEW a, NEW v, NEW b, NEW u, NEW c, NEW w, NEW d, NEW h, NEW k \in Nat \ {0},
         HeightOf(a) = k, HeightOf(b) = k - 1, HeightOf(c) = k, HeightOf(d) = k
  PROVE  BalanceAgain(TreeNode(d, w, Made(Made(c, u, b), v, a), h)) = Made(Made(d, w, c), u, Made(b, v, a))
<1> DEFINE p == Made(c, u, b)
           s == Made(p, v, a)
           t == TreeNode(d, w, s, h)
           x == Made(b, v, a)
           y == Made(c, u, x)
           t2 == TreeNode(d, w, y, h)
<1>1. HeightOf(p) = k + 1 /\ RightOf(p) = b /\ LeftOf(p) = c /\ ItemOf(p) = u
  BY NodeParts DEF Made, Higher
<1> HIDE DEF p
<1>2. HeightOf(s) = k + 2 /\ RightOf(s) = a /\ LeftOf(s) = p /\ ItemOf(s) = v /\ DeltaOf(s) = 1
  BY <1>1, NodeParts DEF Made, Higher
<1> HIDE DEF s
<1>3. DeltaOf(t) = -2 /\ RightOf(t) = s /\ LeftOf(t) = d /\ ItemOf(t) = w /\ HeightOf(t) = h
  BY <1>2, NodeParts
<1> HIDE DEF t
<1>4. DownRight(s) = TreeNode(b, v, a, HeightOf(s))
  BY <1>1, <1>2 DEF DownRight
<1>5. Deepest(TreeNode(b, v, a, HeightOf(s))) = x
  BY <1>2, DeepestIs
<1>6. HeightOf(x) = k + 1
  BY NodeParts DEF Made, Higher
<1> HIDE DEF x
<1>7. Deepest(TreeNode(c, u, x, HeightOf(p))) = y
  BY <1>1, <1>6, DeepestIs
<1>8. RotateRight(Deepest, s) = y
  BY <1>1, <1>2, <1>4, <1>5, <1>7 DEF RotateRight
<1>9. HeightOf(y) = k + 2 /\ RightOf(y) = x /\ LeftOf(y) = c /\ ItemOf(y) = u
  BY <1>6, NodeParts DEF Made, Higher
<1> HIDE DEF y
<1>10. BalanceAgain(t) = RotateLeft(Deepest, t2)
  BY <1>2, <1>3, <1>8 DEF BalanceAgain, BalanceBy
<1>11. RightOf(t2) = y /\ LeftOf(t2) = d /\ ItemOf(t2) = w /\ HeightOf(t2) = h
  BY NodeParts
<1> HIDE DEF t2
<1>12. DownLeft(t2) = TreeNode(d, w, c, h)
  BY <1>9, <1>11 DEF DownLeft
<1>13. Deepest(TreeNode(d, w, c, h)) = Made(d, w, c)
  BY DeepestIs
<1>14. HeightOf(Made(d, w, c)) = k + 1
  BY NodeParts DEF Made, Higher
<1>15. RotateLeft(Deepest, t2) = Deepest(TreeNode(Made(d, w, c), u, x, HeightOf(y)))
  BY <1>9, <1>11, <1>12, <1>13 DEF RotateLeft
<1>16. Deepest(TreeNode(Made(d, w, c), u, x, HeightOf(y))) = Made(Made(d, w, c), u, x)
  BY <1>6, <1>14, DeepestIs
<1> QED BY <1>10, <1>15, <1>16 DEF p, s, t, x


\* A rotation makes one tree of the same three ...
LEMMA TurnedLeftwards ==
  ASSUME NEW a, NEW v, NEW b, NEW w, NEW c, NEW h, NEW k \in Nat,
         HeightOf(a) = k, HeightOf(b) \in k .. k + 1, HeightOf(c) = k + 1
  PROVE  Balance(TreeNode(a, v, Made(b, w, c), h)) = Made(Made(a, v, b), w, c)
<1> DEFINE r == Made(b, w, c)
           t == TreeNode(a, v, r, h)
           x == Made(a, v, b)
<1>1. HeightOf(r) = k + 2 /\ LeftOf(r) = b /\ RightOf(r) = c /\ ItemOf(r) = w /\ DeltaOf(r) \in {-1, 0}
  BY NodeParts DEF Made, Higher
<1> HIDE DEF r
<1>2. DeltaOf(t) = -2 /\ LeftOf(t) = a /\ RightOf(t) = r /\ ItemOf(t) = v /\ HeightOf(t) = h
  BY <1>1, NodeParts
<1> HIDE DEF t
<1>3. Balance(t) = RotateLeft(BalanceAgain, TreeNode(a, v, r, h))
  BY <1>1, <1>2 DEF Balance, BalanceBy
<1>4. DownLeft(t) = TreeNode(a, v, b, h)
  BY <1>1, <1>2 DEF DownLeft
<1>5. BalanceAgain(TreeNode(a, v, b, h)) = x
  BY AgainLevel
<1>6. HeightOf(x) \in k + 1 .. k + 2
  BY NodeParts DEF Made, Higher
<1> HIDE DEF x
<1>7. RotateLeft(BalanceAgain, t) = BalanceAgain(TreeNode(x, w, c, HeightOf(r)))
  BY <1>1, <1>2, <1>4, <1>5 DEF RotateLeft
<1>8. BalanceAgain(TreeNode(x, w, c, HeightOf(r))) = Made(x, w, c)
  BY <1>6, AgainLevel
<1> QED BY <1>3, <1>7, <1>8 DEF r, t, x


LEMMA TurnedRightwards ==
  ASSUME NEW a, NEW v, NEW b, NEW w, NEW c, NEW h, NEW k \in Nat,
         HeightOf(a) = k, HeightOf(b) \in k .. k + 1, HeightOf(c) = k + 1
  PROVE  Balance(TreeNode(Made(c, w, b), v, a, h)) = Made(c, w, Made(b, v, a))
<1> DEFINE r == Made(c, w, b)
           t == TreeNode(r, v, a, h)
           x == Made(b, v, a)
<1>1. HeightOf(r) = k + 2 /\ RightOf(r) = b /\ LeftOf(r) = c /\ ItemOf(r) = w /\ DeltaOf(r) \in {1, 0}
  BY NodeParts DEF Made, Higher
<1> HIDE DEF r
<1>2. DeltaOf(t) = 2 /\ RightOf(t) = a /\ LeftOf(t) = r /\ ItemOf(t) = v /\ HeightOf(t) = h
  BY <1>1, NodeParts
<1> HIDE DEF t
<1>3. Balance(t) = RotateRight(BalanceAgain, TreeNode(r, v, a, h))
  BY <1>1, <1>2 DEF Balance, BalanceBy
<1>4. DownRight(t) = TreeNode(b, v, a, h)
  BY <1>1, <1>2 DEF DownRight
<1>5. BalanceAgain(TreeNode(b, v, a, h)) = x
  BY AgainLevel
<1>6. HeightOf(x) \in k + 1 .. k + 2
  BY NodeParts DEF Made, Higher
<1> HIDE DEF x
<1>7. RotateRight(BalanceAgain, t) = BalanceAgain(TreeNode(c, w, x, HeightOf(r)))
  BY <1>1, <1>2, <1>4, <1>5 DEF RotateRight
<1>8. BalanceAgain(TreeNode(c, w, x, HeightOf(r))) = Made(c, w, x)
  BY <1>6, AgainLevel
<1> QED BY <1>3, <1>7, <1>8 DEF r, t, x


\* ... and two make one of the same four.
LEMMA TurnedLeftwardsTwice ==
  ASSUME NEW a, NEW v, NEW b, NEW u, NEW c, NEW w, NEW d, NEW h, NEW k \in Nat,
         HeightOf(a) = k, HeightOf(b) \in Nat, HeightOf(c) \in Nat, HeightOf(d) = k,
         HeightOf(b) - HeightOf(c) \in -1 .. 1, Higher(HeightOf(b), HeightOf(c)) = k
  PROVE  Balance(TreeNode(a, v, Made(Made(b, u, c), w, d), h)) = Made(Made(a, v, b), u, Made(c, w, d))
<1> DEFINE p == Made(b, u, c)
           r == Made(p, w, d)
           t == TreeNode(a, v, r, h)
           x == Made(a, v, b)
           y == Made(c, w, d)
<1>0. HeightOf(b) \in k - 1 .. k /\ HeightOf(c) \in k - 1 .. k /\ (HeightOf(b) = k \/ HeightOf(c) = k)
  BY DEF Higher
<1>1. HeightOf(p) = k + 1 /\ LeftOf(p) = b /\ RightOf(p) = c /\ ItemOf(p) = u
  BY NodeParts DEF Made, Higher
<1>2. HeightOf(r) = k + 2 /\ LeftOf(r) = p /\ RightOf(r) = d /\ ItemOf(r) = w /\ DeltaOf(r) = 1
  BY <1>1, NodeParts DEF Made, Higher
<1>3. DeltaOf(t) = -2 /\ LeftOf(t) = a /\ RightOf(t) = r /\ ItemOf(t) = v /\ HeightOf(t) = h
  BY <1>2, NodeParts
<1>4. Balance(t) = RotateLeft(BalanceAgain, TreeNode(a, v, RotateRight(BalanceAgain, r), h))
  <2> HIDE DEF p, r, t
  <2> QED BY <1>2, <1>3 DEF Balance, BalanceBy
<1>5. HeightOf(y) = k + 1 /\ HeightOf(x) = k + 1
  BY <1>0, NodeParts DEF Made, Higher
<1>6. DownRight(r) = TreeNode(c, w, d, HeightOf(r))
  <2> HIDE DEF p, r
  <2> QED BY <1>1, <1>2 DEF DownRight
<1>7. BalanceAgain(TreeNode(c, w, d, HeightOf(r))) = y
  <2> HIDE DEF r
  <2> QED BY <1>0, AgainLevel
<1>8. RotateRight(BalanceAgain, r) = BalanceAgain(TreeNode(b, u, y, HeightOf(p)))
  <2> HIDE DEF p, r, y
  <2> QED BY <1>1, <1>2, <1>6, <1>7 DEF RotateRight
<1>9. CASE HeightOf(b) = k
  <2> DEFINE q == Made(b, u, y)
             t2 == TreeNode(a, v, q, h)
  <2>1. BalanceAgain(TreeNode(b, u, y, HeightOf(p))) = q
    <3> HIDE DEF p, y
    <3> QED BY <1>5, <1>9, AgainLevel
  <2>2. LeftOf(q) = b /\ RightOf(q) = y /\ ItemOf(q) = u
    BY NodeParts DEF Made
  <2> HIDE DEF q
  <2>3. LeftOf(t2) = a /\ RightOf(t2) = q /\ ItemOf(t2) = v /\ HeightOf(t2) = h
    BY NodeParts
  <2> HIDE DEF t2
  <2>4. DownLeft(t2) = TreeNode(a, v, b, h)
    BY <2>2, <2>3 DEF DownLeft
  <2>5. BalanceAgain(TreeNode(a, v, b, h)) = x
    BY <1>9, AgainLevel
  <2> HIDE DEF x, y
  <2>6. RotateLeft(BalanceAgain, t2) = BalanceAgain(TreeNode(x, u, y, HeightOf(q)))
    BY <2>2, <2>3, <2>4, <2>5 DEF RotateLeft
  <2>7. BalanceAgain(TreeNode(x, u, y, HeightOf(q))) = Made(x, u, y)
    BY <1>5, AgainLevel
  <2> QED BY <1>4, <1>8, <2>1, <2>6, <2>7 DEF t2, t, r, p, x, y
<1>10. CASE HeightOf(b) # k
  <2>1. k \in Nat \ {0} /\ HeightOf(b) = k - 1 /\ HeightOf(c) = k
    BY <1>0, <1>10
  <2>2. BalanceAgain(TreeNode(b, u, Made(c, w, d), HeightOf(p))) = Made(Made(b, u, c), w, d)
    <3> DEFINE j == k - 1
    <3>1. j \in Nat /\ HeightOf(b) = j /\ HeightOf(c) = j + 1 /\ HeightOf(d) = j + 1
      BY <2>1
    <3> HIDE DEF j, p
    <3> QED BY <3>1, AgainLeftwards
  <2>3. RotateRight(BalanceAgain, r) = r
    BY <1>8, <2>2
  <2> DEFINE s == Made(a, v, p)
  <2>4. DownLeft(t) = TreeNode(a, v, p, h)
    <3> HIDE DEF t, r, p
    <3> QED BY <1>2, <1>3 DEF DownLeft
  <2>5. BalanceAgain(TreeNode(a, v, p, h)) = s
    <3> HIDE DEF p
    <3> QED BY <1>1, AgainLevel
  <2>6. RotateLeft(BalanceAgain, t) = BalanceAgain(TreeNode(s, w, d, HeightOf(r)))
    <3> HIDE DEF t, r, p, s
    <3> QED BY <1>2, <1>3, <2>4, <2>5 DEF RotateLeft
  <2>7. BalanceAgain(TreeNode(Made(a, v, Made(b, u, c)), w, d, HeightOf(r))) =
          Made(Made(a, v, b), u, Made(c, w, d))
    <3> HIDE DEF r
    <3> QED BY <2>1, AgainLeftwardsTwice
  <2> QED BY <1>4, <2>3, <2>6, <2>7
<1> QED BY <1>9, <1>10

LEMMA TurnedRightwardsTwice ==
  ASSUME NEW a, NEW v, NEW b, NEW u, NEW c, NEW w, NEW d, NEW h, NEW k \in Nat,
         HeightOf(a) = k, HeightOf(b) \in Nat, HeightOf(c) \in Nat, HeightOf(d) = k,
         HeightOf(b) - HeightOf(c) \in -1 .. 1, Higher(HeightOf(b), HeightOf(c)) = k
  PROVE  Balance(TreeNode(Made(d, w, Made(c, u, b)), v, a, h)) = Made(Made(d, w, c), u, Made(b, v, a))
<1> DEFINE p == Made(c, u, b)
           r == Made(d, w, p)
           t == TreeNode(r, v, a, h)
           x == Made(b, v, a)
           y == Made(d, w, c)
<1>0. HeightOf(b) \in k - 1 .. k /\ HeightOf(c) \in k - 1 .. k /\ (HeightOf(b) = k \/ HeightOf(c) = k)
  BY DEF Higher
<1>1. HeightOf(p) = k + 1 /\ RightOf(p) = b /\ LeftOf(p) = c /\ ItemOf(p) = u
  BY NodeParts DEF Made, Higher
<1>2. HeightOf(r) = k + 2 /\ RightOf(r) = p /\ LeftOf(r) = d /\ ItemOf(r) = w /\ DeltaOf(r) = -1
  BY <1>1, NodeParts DEF Made, Higher
<1>3. DeltaOf(t) = 2 /\ RightOf(t) = a /\ LeftOf(t) = r /\ ItemOf(t) = v /\ HeightOf(t) = h
  BY <1>2, NodeParts
<1>4. Balance(t) = RotateRight(BalanceAgain, TreeNode(RotateLeft(BalanceAgain, r), v, a, h))
  <2> HIDE DEF p, r, t
  <2> QED BY <1>2, <1>3 DEF Balance, BalanceBy
<1>5. HeightOf(y) = k + 1 /\ HeightOf(x) = k + 1
  BY <1>0, NodeParts DEF Made, Higher
<1>6. DownLeft(r) = TreeNode(d, w, c, HeightOf(r))
  <2> HIDE DEF p, r
  <2> QED BY <1>1, <1>2 DEF DownLeft
<1>7. BalanceAgain(TreeNode(d, w, c, HeightOf(r))) = y
  <2> HIDE DEF r
  <2> QED BY <1>0, AgainLevel
<1>8. RotateLeft(BalanceAgain, r) = BalanceAgain(TreeNode(y, u, b, HeightOf(p)))
  <2> HIDE DEF p, r, y
  <2> QED BY <1>1, <1>2, <1>6, <1>7 DEF RotateLeft
<1>9. CASE HeightOf(b) = k
  <2> DEFINE q == Made(y, u, b)
             t2 == TreeNode(q, v, a, h)
  <2>1. BalanceAgain(TreeNode(y, u, b, HeightOf(p))) = q
    <3> HIDE DEF p, y
    <3> QED BY <1>5, <1>9, AgainLevel
  <2>2. RightOf(q) = b /\ LeftOf(q) = y /\ ItemOf(q) = u
    BY NodeParts DEF Made
  <2> HIDE DEF q
  <2>3. RightOf(t2) = a /\ LeftOf(t2) = q /\ ItemOf(t2) = v /\ HeightOf(t2) = h
    BY NodeParts
  <2> HIDE DEF t2
  <2>4. DownRight(t2) = TreeNode(b, v, a, h)
    BY <2>2, <2>3 DEF DownRight
  <2>5. BalanceAgain(TreeNode(b, v, a, h)) = x
    BY <1>9, AgainLevel
  <2> HIDE DEF x, y
  <2>6. RotateRight(BalanceAgain, t2) = BalanceAgain(TreeNode(y, u, x, HeightOf(q)))
    BY <2>2, <2>3, <2>4, <2>5 DEF RotateRight
  <2>7. BalanceAgain(TreeNode(y, u, x, HeightOf(q))) = Made(y, u, x)
    BY <1>5, AgainLevel
  <2> QED BY <1>4, <1>8, <2>1, <2>6, <2>7 DEF t2, t, r, p, x, y
<1>10. CASE HeightOf(b) # k
  <2>1. k \in Nat \ {0} /\ HeightOf(b) = k - 1 /\ HeightOf(c) = k
    BY <1>0, <1>10
  <2>2. BalanceAgain(TreeNode(Made(d, w, c), u, b, HeightOf(p))) = Made(d, w, Made(c, u, b))
    <3> DEFINE j == k - 1
    <3>1. j \in Nat /\ HeightOf(b) = j /\ HeightOf(c) = j + 1 /\ HeightOf(d) = j + 1
      BY <2>1
    <3> HIDE DEF j, p
    <3> QED BY <3>1, AgainRightwards
  <2>3. RotateLeft(BalanceAgain, r) = r
    BY <1>8, <2>2
  <2> DEFINE s == Made(p, v, a)
  <2>4. DownRight(t) = TreeNode(p, v, a, h)
    <3> HIDE DEF t, r, p
    <3> QED BY <1>2, <1>3 DEF DownRight
  <2>5. BalanceAgain(TreeNode(p, v, a, h)) = s
    <3> HIDE DEF p
    <3> QED BY <1>1, AgainLevel
  <2>6. RotateRight(BalanceAgain, t) = BalanceAgain(TreeNode(d, w, s, HeightOf(r)))
    <3> HIDE DEF t, r, p, s
    <3> QED BY <1>2, <1>3, <2>4, <2>5 DEF RotateRight
  <2>7. BalanceAgain(TreeNode(d, w, Made(Made(c, u, b), v, a), HeightOf(r))) =
          Made(Made(d, w, c), u, Made(b, v, a))
    <3> HIDE DEF r
    <3> QED BY <2>1, AgainRightwardsTwice
  <2> QED BY <1>4, <2>3, <2>6, <2>7
<1> QED BY <1>9, <1>10

-----------------------------------------------------------------------------

\* An item between two sequences.
Mid(a, v, b) == a \o <<v>> \o b

(* A node is a leaf that was never balanced, or its height is one more     *)
(* than the higher of two that differ by one at most.  A tree is sound if  *)
(* all its nodes are, and has no more levels than its height tells.        *)
Fine(u) ==
    \/ LeftOf(u) = NoTree /\ RightOf(u) = NoTree /\ HeightOf(u) = 0
    \/ DeltaOf(u) \in -1 .. 1 /\ HeightOf(u) = Higher(HeightOf(LeftOf(u)), HeightOf(RightOf(u))) + 1
Sound(t) ==
    /\ t \in Tree /\ t \in Trees[HeightOf(t) + 1] /\ HeightOf(t) \in Nat
    /\ \A u \in Subtrees[t] : Fine(u)

LEMMA SoundNone == Sound(NoTree) /\ HeightOf(NoTree) = 0 /\ InOrder[NoTree] = <<>>
<1>1. NoTree \in Tree
  BY MaxItemsAssumption, TreesGrow DEF Tree
<1>2. HeightOf(NoTree) = 0
  BY DEF HeightOf
<1>3. 0 + 1 \in Nat /\ NoTree \in Trees[0 + 1]
  BY TreesGrow
<1>4. Subtrees[NoTree] = {} /\ InOrder[NoTree] = <<>>
  BY <1>1, SubtreesIs, InOrderIs
<1>5. NoTree \in Trees[HeightOf(NoTree) + 1] /\ HeightOf(NoTree) \in Nat
  BY <1>2, <1>3
<1> QED BY <1>1, <1>2, <1>4, <1>5 DEF Sound

\* The parts of a sound tree.
LEMMA SoundParts ==
  ASSUME NEW t, Sound(t), t # NoTree
  PROVE  /\ Sound(LeftOf(t)) /\ Sound(RightOf(t)) /\ ItemOf(t) \in TreeItem
         /\ HeightOf(t) \in Nat /\ Fine(t)
         /\ t = TreeNode(LeftOf(t), ItemOf(t), RightOf(t), HeightOf(t))
         /\ InOrder[t] = Mid(InOrder[LeftOf(t)], ItemOf(t), InOrder[RightOf(t)])
<1>1. t \in Tree /\ HeightOf(t) \in Nat /\ \A u \in Subtrees[t] : Fine(u)
  BY DEF Sound
<1>2. /\ LeftOf(t) \in Tree /\ RightOf(t) \in Tree /\ ItemOf(t) \in TreeItem
      /\ t = TreeNode(LeftOf(t), ItemOf(t), RightOf(t), HeightOf(t))
  BY <1>1, PartOf
<1>3. Subtrees[t] = {t} \cup Subtrees[LeftOf(t)] \cup Subtrees[RightOf(t)]
  BY <1>1, SubtreesIs
<1>4. Fine(t)
  BY <1>1, <1>3
<1>5. ASSUME NEW s \in Tree, Subtrees[s] \subseteq Subtrees[t] PROVE Sound(s)
  <2>1. \A u \in Subtrees[s] : Fine(u)
    BY <1>1, <1>5
  <2>2. CASE s = NoTree
    BY <2>2, SoundNone
  <2>3. CASE s # NoTree
    <3>0. MaxItems \in Nat
      BY MaxItemsAssumption
    <3>1. HeightOf(s) \in Nat
      BY <3>0, HeightIn DEF Tree
    <3> DEFINE Shown == {u \in Tree : (\A w \in Subtrees[u] : Fine(w)) => u \in Trees[HeightOf(u) + 1]}
    <3>2. NoTree \in Shown
      BY SoundNone DEF Sound
    <3>3. ASSUME NEW u \in Tree, u # NoTree, LeftOf(u) \in Shown, RightOf(u) \in Shown PROVE u \in Shown
      <4> SUFFICES ASSUME \A w \in Subtrees[u] : Fine(w) PROVE u \in Trees[HeightOf(u) + 1]
        OBVIOUS
      <4>1. /\ Subtrees[u] = {u} \cup Subtrees[LeftOf(u)] \cup Subtrees[RightOf(u)]
            /\ LeftOf(u) \in Tree /\ RightOf(u) \in Tree /\ ItemOf(u) \in TreeItem /\ HeightOf(u) \in Nat
            /\ u = TreeNode(LeftOf(u), ItemOf(u), RightOf(u), HeightOf(u))
        BY <3>3, SubtreesIs, PartOf
      <4>2. /\ LeftOf(u) \in Trees[HeightOf(LeftOf(u)) + 1] /\ RightOf(u) \in Trees[HeightOf(RightOf(u)) + 1]
            /\ Fine(u)
        BY <3>3, <4>1
      <4>3. HeightOf(LeftOf(u)) \in Nat /\ HeightOf(RightOf(u)) \in Nat
        BY <3>0, <4>1, HeightIn DEF Tree
      <4>4. CASE LeftOf(u) = NoTree /\ RightOf(u) = NoTree /\ HeightOf(u) = 0
        <5>1. 0 \in Nat /\ NoTree \in Trees[0]
          BY TreesGrow
        <5> QED BY <4>1, <4>4, <5>1, NodeIn
      <4>5. CASE HeightOf(u) = Higher(HeightOf(LeftOf(u)), HeightOf(RightOf(u))) + 1
        <5>1. /\ HeightOf(LeftOf(u)) + 1 \in 0 .. HeightOf(u) /\ HeightOf(RightOf(u)) + 1 \in 0 .. HeightOf(u)
          BY <4>3, <4>5 DEF Higher
        <5>2. LeftOf(u) \in Trees[HeightOf(u)] /\ RightOf(u) \in Trees[HeightOf(u)]
          BY <4>1, <4>2, <5>1, TreesGrow
        <5> QED BY <4>1, <5>2, NodeIn
      <4> QED BY <4>2, <4>4, <4>5 DEF Fine
    <3> HIDE DEF Shown
    <3>4. Tree \subseteq Shown
      BY <3>2, <3>3, TreeInduction
    <3> QED BY <2>1, <3>1, <3>4 DEF Shown, Sound
  <2> QED BY <2>2, <2>3
<1> QED BY <1>1, <1>2, <1>3, <1>4, <1>5, InOrderIs DEF Mid

\* Two sound trees whose heights differ by one at most make a sound one.
LEMMA Composed ==
  ASSUME NEW l, NEW v \in TreeItem, NEW r, Sound(l), Sound(r),
         HeightOf(l) - HeightOf(r) \in -1 .. 1,
         HeightOf(l) + 2 <= MaxItems, HeightOf(r) + 2 <= MaxItems
  PROVE  /\ Sound(Made(l, v, r))
         /\ HeightOf(Made(l, v, r)) = Higher(HeightOf(l), HeightOf(r)) + 1
         /\ InOrder[Made(l, v, r)] = Mid(InOrder[l], v, InOrder[r])
<1> DEFINE t == Made(l, v, r)
           m == Higher(HeightOf(l), HeightOf(r)) + 1
<1>1. HeightOf(l) \in Nat /\ HeightOf(r) \in Nat /\ MaxItems \in Nat
  BY MaxItemsAssumption DEF Sound
<1>2. /\ m \in Nat /\ m + 1 \in 0 .. MaxItems
      /\ HeightOf(l) + 1 \in 0 .. m /\ HeightOf(r) + 1 \in 0 .. m
  BY <1>1 DEF Higher
<1>3. /\ HeightOf(t) = m /\ t # NoTree /\ LeftOf(t) = l /\ RightOf(t) = r /\ ItemOf(t) = v
      /\ DeltaOf(t) = HeightOf(l) - HeightOf(r)
  BY NodeParts DEF Made
<1>4. l \in Trees[m] /\ r \in Trees[m]
  <2> HIDE DEF m
  <2> QED BY <1>1, <1>2, TreesGrow DEF Sound
<1>5. t \in Trees[m + 1]
  <2> HIDE DEF m
  <2>1. TreeNode(l, v, r, m) \in Trees[m + 1]
    BY <1>2, <1>4, NodeIn
  <2> QED BY <2>1 DEF Made, m
<1> HIDE DEF t
<1>6. t \in Tree
  <2> HIDE DEF m
  <2> QED BY <1>1, <1>2, <1>5, TreesGrow DEF Tree
<1>7. Subtrees[t] = {t} \cup Subtrees[l] \cup Subtrees[r] /\ InOrder[t] = Mid(InOrder[l], v, InOrder[r])
  BY <1>3, <1>6, SubtreesIs, InOrderIs DEF Mid
<1>8. Fine(t)
  BY <1>3 DEF Fine
<1>9. Sound(t)
  <2> HIDE DEF m
  <2> QED BY <1>2, <1>3, <1>5, <1>6, <1>7, <1>8 DEF Sound
<1> QED BY <1>3, <1>7, <1>9 DEF t

\* A tree that is not a new leaf is what its parts make.
LEMMA MadeOf ==
  ASSUME NEW t, Sound(t), HeightOf(t) # 0
  PROVE  /\ t # NoTree /\ t = Made(LeftOf(t), ItemOf(t), RightOf(t))
         /\ HeightOf(LeftOf(t)) \in Nat /\ HeightOf(RightOf(t)) \in Nat
         /\ HeightOf(LeftOf(t)) - HeightOf(RightOf(t)) \in -1 .. 1
         /\ HeightOf(LeftOf(t)) + 1 <= HeightOf(t) /\ HeightOf(RightOf(t)) + 1 <= HeightOf(t)
         /\ HeightOf(LeftOf(t)) + 1 = HeightOf(t) \/ HeightOf(RightOf(t)) + 1 = HeightOf(t)
         /\ Sound(LeftOf(t)) /\ Sound(RightOf(t)) /\ ItemOf(t) \in TreeItem
         /\ InOrder[t] = Mid(InOrder[LeftOf(t)], ItemOf(t), InOrder[RightOf(t)])
<1>1. t # NoTree
  BY SoundNone
<1>2. /\ Sound(LeftOf(t)) /\ Sound(RightOf(t)) /\ ItemOf(t) \in TreeItem /\ Fine(t)
      /\ t = TreeNode(LeftOf(t), ItemOf(t), RightOf(t), HeightOf(t))
      /\ InOrder[t] = Mid(InOrder[LeftOf(t)], ItemOf(t), InOrder[RightOf(t)])
  BY <1>1, SoundParts
<1>3. HeightOf(t) = Higher(HeightOf(LeftOf(t)), HeightOf(RightOf(t))) + 1 /\ DeltaOf(t) \in -1 .. 1
  BY <1>2 DEF Fine
<1>4. HeightOf(LeftOf(t)) \in Nat /\ HeightOf(RightOf(t)) \in Nat
  BY <1>2 DEF Sound
<1> QED BY <1>1, <1>2, <1>3, <1>4 DEF DeltaOf, Made, Higher

LEMMA BalanceLevel ==
  ASSUME NEW l, NEW v, NEW r, NEW h, HeightOf(l) \in Nat, HeightOf(r) \in Nat,
         HeightOf(l) - HeightOf(r) \in -1 .. 1
  PROVE  Balance(TreeNode(l, v, r, h)) = Made(l, v, r)
BY NodeParts DEF Balance, BalanceBy

LEMMA Middle ==
  ASSUME NEW a \in Seq(TreeItem), NEW v \in TreeItem, NEW b \in Seq(TreeItem), NEW w \in TreeItem,
         NEW c \in Seq(TreeItem)
  PROVE  /\ Mid(a, v, b) \in Seq(TreeItem)
         /\ Mid(Mid(a, v, b), w, c) = Mid(a, v, Mid(b, w, c))
<1>1. <<v>> \in Seq(TreeItem) /\ <<w>> \in Seq(TreeItem)
  OBVIOUS
<1>2. \A p, q, s \in Seq(TreeItem) : (p \o q) \o s = p \o (q \o s)
  BY ConcatAssociative
<1>3. \A p, q \in Seq(TreeItem) : p \o q \in Seq(TreeItem)
  BY ConcatProperties
<1>4. (a \o <<v>> \o b) \o <<w>> = (a \o <<v>>) \o (b \o <<w>>)
  BY <1>1, <1>2, <1>3
<1>5. ((a \o <<v>>) \o (b \o <<w>>)) \o c = (a \o <<v>>) \o ((b \o <<w>>) \o c)
  BY <1>1, <1>2, <1>3
<1> QED BY <1>1, <1>3, <1>4, <1>5 DEF Mid

\* A tree two higher than its sibling, as an insertion may leave it.
LEMMA SoundLeftwards ==
  ASSUME NEW l, NEW v \in TreeItem, NEW r, NEW h, Sound(l), Sound(r),
         HeightOf(r) = HeightOf(l) + 2, HeightOf(r) + 2 <= MaxItems
  PROVE  /\ Sound(Balance(TreeNode(l, v, r, h)))
         /\ HeightOf(Balance(TreeNode(l, v, r, h))) \in HeightOf(r) .. HeightOf(r) + 1
         /\ InOrder[Balance(TreeNode(l, v, r, h))] = Mid(InOrder[l], v, InOrder[r])
<1> DEFINE k == HeightOf(l)
           near == LeftOf(r)
           far == RightOf(r)
           w == ItemOf(r)
           t == Balance(TreeNode(l, v, r, h))
<1>1. k \in Nat /\ MaxItems \in Nat /\ HeightOf(r) = k + 2 /\ k + 4 <= MaxItems
  BY MaxItemsAssumption DEF Sound
<1>0. HeightOf(r) # 0 /\ Sound(r)
  BY <1>1
<1>2. /\ r = Made(near, w, far) /\ HeightOf(near) \in Nat /\ HeightOf(far) \in Nat
      /\ HeightOf(near) - HeightOf(far) \in -1 .. 1
      /\ HeightOf(near) <= k + 1 /\ HeightOf(far) <= k + 1
      /\ HeightOf(near) = k + 1 \/ HeightOf(far) = k + 1
      /\ Sound(near) /\ Sound(far) /\ w \in TreeItem
      /\ InOrder[r] = Mid(InOrder[near], w, InOrder[far])
  <2> HIDE DEF t, k
  <2> QED BY <1>0, <1>1, MadeOf
<1>3. /\ InOrder[l] \in Seq(TreeItem) /\ InOrder[r] \in Seq(TreeItem)
      /\ InOrder[near] \in Seq(TreeItem) /\ InOrder[far] \in Seq(TreeItem)
  BY <1>2, InOrderIs DEF Sound
<1> HIDE DEF k, near, far, w
<1>4. CASE HeightOf(far) = k + 1
  <2> DEFINE x == Made(l, v, near)
  <2>1. HeightOf(near) \in k .. k + 1
    BY <1>1, <1>2, <1>4
  <2>2. t = Made(x, w, far)
    BY <1>1, <1>2, <1>4, <2>1, TurnedLeftwards DEF k
  <2>3. /\ HeightOf(near) + 2 <= MaxItems /\ HeightOf(l) + 2 <= MaxItems
        /\ HeightOf(l) - HeightOf(near) \in -1 .. 1 /\ HeightOf(near) - HeightOf(l) \in -1 .. 1
    BY <1>1, <2>1 DEF k
  <2>4. /\ Sound(x) /\ HeightOf(x) = Higher(HeightOf(l), HeightOf(near)) + 1
        /\ InOrder[x] = Mid(InOrder[l], v, InOrder[near])
    BY <1>2, <2>3, Composed
  <2>5. HeightOf(x) \in k + 1 .. k + 2
    BY <1>1, <2>1, <2>4 DEF k, Higher
  <2> HIDE DEF x, t
  <2>6. /\ HeightOf(x) + 2 <= MaxItems /\ HeightOf(far) + 2 <= MaxItems
        /\ HeightOf(x) - HeightOf(far) \in -1 .. 1 /\ HeightOf(far) - HeightOf(x) \in -1 .. 1
    BY <1>1, <1>4, <2>5
  <2>7. /\ Sound(t) /\ HeightOf(t) = Higher(HeightOf(x), HeightOf(far)) + 1
        /\ InOrder[t] = Mid(InOrder[x], w, InOrder[far])
    BY <1>2, <2>2, <2>4, <2>6, Composed
  <2>8. HeightOf(t) \in HeightOf(r) .. HeightOf(r) + 1
    BY <1>1, <1>4, <2>5, <2>7 DEF Higher
  <2>9. InOrder[t] = Mid(InOrder[l], v, InOrder[r])
    <3>1. InOrder[t] = Mid(Mid(InOrder[l], v, InOrder[near]), w, InOrder[far])
      BY <2>4, <2>7
    <3>2. Mid(Mid(InOrder[l], v, InOrder[near]), w, InOrder[far]) =
            Mid(InOrder[l], v, Mid(InOrder[near], w, InOrder[far]))
      <4> DEFINE oo == InOrder[l]
                 on == InOrder[near]
                 of == InOrder[far]
      <4>1. oo \in Seq(TreeItem) /\ on \in Seq(TreeItem) /\ of \in Seq(TreeItem)
        BY <1>3
      <4> HIDE DEF oo, on, of
      <4>2. Mid(Mid(oo, v, on), w, of) = Mid(oo, v, Mid(on, w, of))
        BY <1>2, <4>1, Middle
      <4> QED BY <4>2 DEF oo, on, of
    <3> QED BY <1>2, <3>1, <3>2
  <2> QED BY <2>7, <2>8, <2>9 DEF t
<1>5. CASE HeightOf(far) # k + 1
  <2> DEFINE b == LeftOf(near)
             u == ItemOf(near)
             c == RightOf(near)
             x == Made(l, v, b)
             y == Made(c, w, far)
  <2>1. HeightOf(near) = k + 1 /\ HeightOf(far) = k
    BY <1>1, <1>2, <1>5
  <2>2. /\ near = Made(b, u, c) /\ HeightOf(b) \in Nat /\ HeightOf(c) \in Nat
        /\ HeightOf(b) - HeightOf(c) \in -1 .. 1
        /\ HeightOf(b) <= k /\ HeightOf(c) <= k /\ (HeightOf(b) = k \/ HeightOf(c) = k)
        /\ Sound(b) /\ Sound(c) /\ u \in TreeItem
        /\ InOrder[near] = Mid(InOrder[b], u, InOrder[c])
    <3>1. HeightOf(near) # 0 /\ Sound(near)
      BY <1>1, <1>2, <2>1
    <3> HIDE DEF t, x, y
    <3> QED BY <1>1, <2>1, <3>1, MadeOf
  <2>3. InOrder[b] \in Seq(TreeItem) /\ InOrder[c] \in Seq(TreeItem)
    BY <2>2, InOrderIs DEF Sound
  <2> HIDE DEF b, u, c
  <2>4. t = Made(x, u, y)
    BY <1>1, <1>2, <2>1, <2>2, TurnedLeftwardsTwice DEF k, Higher
  <2>5. HeightOf(b) \in k - 1 .. k /\ HeightOf(c) \in k - 1 .. k
    BY <1>1, <2>2
  <2>6. /\ HeightOf(b) + 2 <= MaxItems /\ HeightOf(c) + 2 <= MaxItems
        /\ HeightOf(far) + 2 <= MaxItems /\ HeightOf(l) + 2 <= MaxItems
        /\ HeightOf(l) - HeightOf(b) \in -1 .. 1 /\ HeightOf(b) - HeightOf(l) \in -1 .. 1
        /\ HeightOf(c) - HeightOf(far) \in -1 .. 1 /\ HeightOf(far) - HeightOf(c) \in -1 .. 1
    BY <1>1, <2>1, <2>5 DEF k
  <2>7. /\ Sound(x) /\ HeightOf(x) = Higher(HeightOf(l), HeightOf(b)) + 1
        /\ InOrder[x] = Mid(InOrder[l], v, InOrder[b])
    BY <2>2, <2>6, Composed
  <2>8. /\ Sound(y) /\ HeightOf(y) = Higher(HeightOf(c), HeightOf(far)) + 1
        /\ InOrder[y] = Mid(InOrder[c], w, InOrder[far])
    BY <1>2, <2>2, <2>6, Composed
  <2>9. HeightOf(x) = k + 1 /\ HeightOf(y) = k + 1
    BY <1>1, <2>1, <2>5, <2>7, <2>8 DEF k, Higher
  <2> HIDE DEF x, y, t
  <2>10. /\ HeightOf(x) + 2 <= MaxItems /\ HeightOf(y) + 2 <= MaxItems
         /\ HeightOf(x) - HeightOf(y) \in -1 .. 1 /\ HeightOf(y) - HeightOf(x) \in -1 .. 1
    BY <1>1, <2>9
  <2>11. /\ Sound(t) /\ HeightOf(t) = Higher(HeightOf(x), HeightOf(y)) + 1
         /\ InOrder[t] = Mid(InOrder[x], u, InOrder[y])
    BY <2>2, <2>4, <2>7, <2>8, <2>10, Composed
  <2>12. HeightOf(t) \in HeightOf(r) .. HeightOf(r) + 1
    BY <1>1, <2>9, <2>11 DEF Higher
  <2> DEFINE ol == InOrder[l]
             or == InOrder[r]
             on == InOrder[near]
             of == InOrder[far]
             ob == InOrder[b]
             oc == InOrder[c]
             ox == InOrder[x]
             oy == InOrder[y]
             ot == InOrder[t]
  <2>13. /\ ol \in Seq(TreeItem) /\ or \in Seq(TreeItem) /\ of \in Seq(TreeItem) /\ ob \in Seq(TreeItem)
         /\ oc \in Seq(TreeItem) /\ or = Mid(on, w, of) /\ on = Mid(ob, u, oc)
         /\ ox = Mid(ol, v, ob) /\ oy = Mid(oc, w, of) /\ ot = Mid(ox, u, oy)
    BY <1>2, <1>3, <2>2, <2>3, <2>7, <2>8, <2>11
  <2> HIDE DEF ol, or, on, of, ob, oc, ox, oy, ot
  <2>14. oy \in Seq(TreeItem) /\ ox \in Seq(TreeItem) /\ on \in Seq(TreeItem)
    BY <1>2, <2>2, <2>13, Middle
  <2>15. or = Mid(ob, u, oy)
    BY <1>2, <2>2, <2>13, <2>14, Middle
  <2>16. ot = Mid(ol, v, Mid(ob, u, oy))
    BY <2>2, <2>13, <2>14, Middle
  <2>17. ot = Mid(ol, v, or)
    BY <2>15, <2>16
  <2> QED BY <2>11, <2>12, <2>17 DEF t, ot, ol, or
<1> QED BY <1>4, <1>5

LEMMA SoundRightwards ==
  ASSUME NEW l, NEW v \in TreeItem, NEW r, NEW h, Sound(l), Sound(r),
         HeightOf(l) = HeightOf(r) + 2, HeightOf(l) + 2 <= MaxItems
  PROVE  /\ Sound(Balance(TreeNode(l, v, r, h)))
         /\ HeightOf(Balance(TreeNode(l, v, r, h))) \in HeightOf(l) .. HeightOf(l) + 1
         /\ InOrder[Balance(TreeNode(l, v, r, h))] = Mid(InOrder[l], v, InOrder[r])
<1> DEFINE k == HeightOf(r)
           near == RightOf(l)
           far == LeftOf(l)
           w == ItemOf(l)
           t == Balance(TreeNode(l, v, r, h))
<1>1. k \in Nat /\ MaxItems \in Nat /\ HeightOf(l) = k + 2 /\ k + 4 <= MaxItems
  BY MaxItemsAssumption DEF Sound
<1>0. HeightOf(l) # 0 /\ Sound(l)
  BY <1>1
<1>2. /\ l = Made(far, w, near) /\ HeightOf(near) \in Nat /\ HeightOf(far) \in Nat
      /\ HeightOf(near) - HeightOf(far) \in -1 .. 1
      /\ HeightOf(near) <= k + 1 /\ HeightOf(far) <= k + 1
      /\ HeightOf(near) = k + 1 \/ HeightOf(far) = k + 1
      /\ Sound(near) /\ Sound(far) /\ w \in TreeItem
      /\ InOrder[l] = Mid(InOrder[far], w, InOrder[near])
  <2> HIDE DEF t, k
  <2> QED BY <1>0, <1>1, MadeOf
<1>3. /\ InOrder[l] \in Seq(TreeItem) /\ InOrder[r] \in Seq(TreeItem)
      /\ InOrder[near] \in Seq(TreeItem) /\ InOrder[far] \in Seq(TreeItem)
  BY <1>2, InOrderIs DEF Sound
<1> HIDE DEF k, near, far, w
<1>4. CASE HeightOf(far) = k + 1
  <2> DEFINE x == Made(near, v, r)
  <2>1. HeightOf(near) \in k .. k + 1
    BY <1>1, <1>2, <1>4
  <2>2. t = Made(far, w, x)
    BY <1>1, <1>2, <1>4, <2>1, TurnedRightwards DEF k
  <2>3. /\ HeightOf(near) + 2 <= MaxItems /\ HeightOf(r) + 2 <= MaxItems
        /\ HeightOf(r) - HeightOf(near) \in -1 .. 1 /\ HeightOf(near) - HeightOf(r) \in -1 .. 1
    BY <1>1, <2>1 DEF k
  <2>4. /\ Sound(x) /\ HeightOf(x) = Higher(HeightOf(near), HeightOf(r)) + 1
        /\ InOrder[x] = Mid(InOrder[near], v, InOrder[r])
    BY <1>2, <2>3, Composed
  <2>5. HeightOf(x) \in k + 1 .. k + 2
    BY <1>1, <2>1, <2>4 DEF k, Higher
  <2> HIDE DEF x, t
  <2>6. /\ HeightOf(x) + 2 <= MaxItems /\ HeightOf(far) + 2 <= MaxItems
        /\ HeightOf(x) - HeightOf(far) \in -1 .. 1 /\ HeightOf(far) - HeightOf(x) \in -1 .. 1
    BY <1>1, <1>4, <2>5
  <2>7. /\ Sound(t) /\ HeightOf(t) = Higher(HeightOf(far), HeightOf(x)) + 1
        /\ InOrder[t] = Mid(InOrder[far], w, InOrder[x])
    BY <1>2, <2>2, <2>4, <2>6, Composed
  <2>8. HeightOf(t) \in HeightOf(l) .. HeightOf(l) + 1
    BY <1>1, <1>4, <2>5, <2>7 DEF Higher
  <2>9. InOrder[t] = Mid(InOrder[l], v, InOrder[r])
    <3>1. InOrder[t] = Mid(InOrder[far], w, Mid(InOrder[near], v, InOrder[r]))
      BY <2>4, <2>7
    <3>2. Mid(InOrder[far], w, Mid(InOrder[near], v, InOrder[r])) =
            Mid(Mid(InOrder[far], w, InOrder[near]), v, InOrder[r])
      <4> DEFINE oo == InOrder[r]
                 on == InOrder[near]
                 of == InOrder[far]
      <4>1. oo \in Seq(TreeItem) /\ on \in Seq(TreeItem) /\ of \in Seq(TreeItem)
        BY <1>3
      <4> HIDE DEF oo, on, of
      <4>2. Mid(of, w, Mid(on, v, oo)) = Mid(Mid(of, w, on), v, oo)
        BY <1>2, <4>1, Middle
      <4> QED BY <4>2 DEF oo, on, of
    <3> QED BY <1>2, <3>1, <3>2
  <2> QED BY <2>7, <2>8, <2>9 DEF t
<1>5. CASE HeightOf(far) # k + 1
  <2> DEFINE b == RightOf(near)
             u == ItemOf(near)
             c == LeftOf(near)
             x == Made(b, v, r)
             y == Made(far, w, c)
  <2>1. HeightOf(near) = k + 1 /\ HeightOf(far) = k
    BY <1>1, <1>2, <1>5
  <2>2. /\ near = Made(c, u, b) /\ HeightOf(b) \in Nat /\ HeightOf(c) \in Nat
        /\ HeightOf(b) - HeightOf(c) \in -1 .. 1
        /\ HeightOf(b) <= k /\ HeightOf(c) <= k /\ (HeightOf(b) = k \/ HeightOf(c) = k)
        /\ Sound(b) /\ Sound(c) /\ u \in TreeItem
        /\ InOrder[near] = Mid(InOrder[c], u, InOrder[b])
    <3>1. HeightOf(near) # 0 /\ Sound(near)
      BY <1>1, <1>2, <2>1
    <3> HIDE DEF t, x, y
    <3> QED BY <1>1, <2>1, <3>1, MadeOf
  <2>3. InOrder[b] \in Seq(TreeItem) /\ InOrder[c] \in Seq(TreeItem)
    BY <2>2, InOrderIs DEF Sound
  <2> HIDE DEF b, u, c
  <2>4. t = Made(y, u, x)
    BY <1>1, <1>2, <2>1, <2>2, TurnedRightwardsTwice DEF k, Higher
  <2>5. HeightOf(b) \in k - 1 .. k /\ HeightOf(c) \in k - 1 .. k
    BY <1>1, <2>2
  <2>6. /\ HeightOf(b) + 2 <= MaxItems /\ HeightOf(c) + 2 <= MaxItems
        /\ HeightOf(far) + 2 <= MaxItems /\ HeightOf(r) + 2 <= MaxItems
        /\ HeightOf(r) - HeightOf(b) \in -1 .. 1 /\ HeightOf(b) - HeightOf(r) \in -1 .. 1
        /\ HeightOf(c) - HeightOf(far) \in -1 .. 1 /\ HeightOf(far) - HeightOf(c) \in -1 .. 1
    BY <1>1, <2>1, <2>5 DEF k
  <2>7. /\ Sound(x) /\ HeightOf(x) = Higher(HeightOf(b), HeightOf(r)) + 1
        /\ InOrder[x] = Mid(InOrder[b], v, InOrder[r])
    BY <2>2, <2>6, Composed
  <2>8. /\ Sound(y) /\ HeightOf(y) = Higher(HeightOf(far), HeightOf(c)) + 1
        /\ InOrder[y] = Mid(InOrder[far], w, InOrder[c])
    BY <1>2, <2>2, <2>6, Composed
  <2>9. HeightOf(x) = k + 1 /\ HeightOf(y) = k + 1
    BY <1>1, <2>1, <2>5, <2>7, <2>8 DEF k, Higher
  <2> HIDE DEF x, y, t
  <2>10. /\ HeightOf(x) + 2 <= MaxItems /\ HeightOf(y) + 2 <= MaxItems
         /\ HeightOf(x) - HeightOf(y) \in -1 .. 1 /\ HeightOf(y) - HeightOf(x) \in -1 .. 1
    BY <1>1, <2>9
  <2>11. /\ Sound(t) /\ HeightOf(t) = Higher(HeightOf(y), HeightOf(x)) + 1
         /\ InOrder[t] = Mid(InOrder[y], u, InOrder[x])
    BY <2>2, <2>4, <2>7, <2>8, <2>10, Composed
  <2>12. HeightOf(t) \in HeightOf(l) .. HeightOf(l) + 1
    BY <1>1, <2>9, <2>11 DEF Higher
  <2> DEFINE ol == InOrder[l]
             or == InOrder[r]
             on == InOrder[near]
             of == InOrder[far]
             ob == InOrder[b]
             oc == InOrder[c]
             ox == InOrder[x]
             oy == InOrder[y]
             ot == InOrder[t]
  <2>13. /\ ol \in Seq(TreeItem) /\ or \in Seq(TreeItem) /\ of \in Seq(TreeItem) /\ ob \in Seq(TreeItem)
         /\ oc \in Seq(TreeItem) /\ ol = Mid(of, w, on) /\ on = Mid(oc, u, ob)
         /\ ox = Mid(ob, v, or) /\ oy = Mid(of, w, oc) /\ ot = Mid(oy, u, ox)
    BY <1>2, <1>3, <2>2, <2>3, <2>7, <2>8, <2>11
  <2> HIDE DEF ol, or, on, of, ob, oc, ox, oy, ot
  <2>14. oy \in Seq(TreeItem) /\ ox \in Seq(TreeItem) /\ on \in Seq(TreeItem)
    BY <1>2, <2>2, <2>13, Middle
  <2>15. ol = Mid(oy, u, ob)
    BY <1>2, <2>2, <2>13, <2>14, Middle
  <2>16. ot = Mid(Mid(oy, u, ob), v, or)
    BY <2>2, <2>13, <2>14, Middle
  <2>17. ot = Mid(ol, v, or)
    BY <2>15, <2>16
  <2> QED BY <2>11, <2>12, <2>17 DEF t, ot, ol, or
<1> QED BY <1>4, <1>5

-----------------------------------------------------------------------------

\* Whatever balance is sent to: its items stay in order.
LEMMA BalanceSound ==
  ASSUME NEW l, NEW v \in TreeItem, NEW r, NEW h, Sound(l), Sound(r),
         HeightOf(l) - HeightOf(r) \in -2 .. 2,
         HeightOf(l) + 2 <= MaxItems, HeightOf(r) + 2 <= MaxItems
  PROVE  LET t == Balance(TreeNode(l, v, r, h))
             m == Higher(HeightOf(l), HeightOf(r))
         IN  /\ Sound(t) /\ InOrder[t] = Mid(InOrder[l], v, InOrder[r])
             /\ HeightOf(t) \in m .. m + 1
             /\ HeightOf(l) - HeightOf(r) \in -1 .. 1 => HeightOf(t) = m + 1
<1> DEFINE t == Balance(TreeNode(l, v, r, h))
           m == Higher(HeightOf(l), HeightOf(r))
<1>1. HeightOf(l) \in Nat /\ HeightOf(r) \in Nat
  BY DEF Sound
<1> SUFFICES /\ Sound(t) /\ InOrder[t] = Mid(InOrder[l], v, InOrder[r])
             /\ HeightOf(t) \in m .. m + 1
             /\ HeightOf(l) - HeightOf(r) \in -1 .. 1 => HeightOf(t) = m + 1
  OBVIOUS
<1>2. CASE HeightOf(l) - HeightOf(r) \in -1 .. 1
  <2>1. t = Made(l, v, r)
    BY <1>1, <1>2, BalanceLevel
  <2>2. Sound(t) /\ HeightOf(t) = m + 1 /\ InOrder[t] = Mid(InOrder[l], v, InOrder[r])
    BY <1>2, <2>1, Composed
  <2>3. m \in Nat
    BY <1>1 DEF Higher
  <2> HIDE DEF t, m
  <2> QED BY <2>2, <2>3
<1>3. CASE HeightOf(r) = HeightOf(l) + 2
  <2>1. /\ Sound(t) /\ InOrder[t] = Mid(InOrder[l], v, InOrder[r])
        /\ HeightOf(t) \in HeightOf(r) .. HeightOf(r) + 1
    BY <1>3, SoundLeftwards
  <2>2. m = HeightOf(r) /\ ~(HeightOf(l) - HeightOf(r) \in -1 .. 1)
    BY <1>1, <1>3 DEF Higher
  <2> HIDE DEF t, m
  <2> QED BY <2>1, <2>2
<1>4. CASE HeightOf(l) = HeightOf(r) + 2
  <2>1. /\ Sound(t) /\ InOrder[t] = Mid(InOrder[l], v, InOrder[r])
        /\ HeightOf(t) \in HeightOf(l) .. HeightOf(l) + 1
    BY <1>4, SoundRightwards
  <2>2. m = HeightOf(l) /\ ~(HeightOf(l) - HeightOf(r) \in -1 .. 1)
    BY <1>1, <1>4 DEF Higher
  <2> HIDE DEF t, m
  <2> QED BY <2>1, <2>2
<1> HIDE DEF t, m
<1> QED BY <1>1, <1>2, <1>3, <1>4

\* An item put at a place of a sequence, and the place where it fits.
WithItem(s, i, x) == [j \in 1 .. Len(s) + 1 |-> IF j < i THEN s[j] ELSE IF j = i THEN x ELSE s[j - 1]]
FitsAt(s, i, x) ==
    /\ i \in 1 .. Len(s) + 1
    /\ \A j \in 1 .. Len(s) : j < i => ~Precedes(order, x, s[j])
    /\ i <= Len(s) => Precedes(order, x, s[i])

\* The items are in the order of their keys.
NotAfter(a, b) == IF order = ">" THEN b[1] <= a[1] ELSE a[1] <= b[1]
InKeyOrder(s) == \A i, j \in 1 .. Len(s) : i < j => NotAfter(s[i], s[j])

LEMMA MidIs ==
  ASSUME NEW a \in Seq(TreeItem), NEW v \in TreeItem, NEW b \in Seq(TreeItem)
  PROVE  /\ Mid(a, v, b) \in Seq(TreeItem) /\ Len(Mid(a, v, b)) = Len(a) + 1 + Len(b)
         /\ \A i \in 1 .. Len(a) + 1 + Len(b) :
               Mid(a, v, b)[i] = IF i <= Len(a) THEN a[i]
                                 ELSE IF i = Len(a) + 1 THEN v ELSE b[i - (Len(a) + 1)]
<1>1. <<v>> \in Seq(TreeItem) /\ Len(<<v>>) = 1 /\ <<v>>[1] = v /\ Len(a) \in Nat /\ Len(b) \in Nat
  OBVIOUS
<1>2. /\ a \o <<v>> \in Seq(TreeItem) /\ Len(a \o <<v>>) = Len(a) + 1
      /\ \A i \in 1 .. Len(a) + 1 : (a \o <<v>>)[i] = IF i <= Len(a) THEN a[i] ELSE v
  BY <1>1, ConcatProperties
<1> DEFINE c == a \o <<v>>
<1> HIDE DEF c
<1>3. /\ c \o b \in Seq(TreeItem) /\ Len(c \o b) = Len(a) + 1 + Len(b)
      /\ \A i \in 1 .. Len(a) + 1 + Len(b) :
            (c \o b)[i] = IF i <= Len(a) + 1 THEN c[i] ELSE b[i - (Len(a) + 1)]
  BY <1>1, <1>2, ConcatProperties DEF c
<1>4. Mid(a, v, b) = c \o b
  BY DEF Mid, c
<1>5. ASSUME NEW i \in 1 .. Len(a) + 1 + Len(b)
      PROVE (c \o b)[i] = IF i <= Len(a) THEN a[i] ELSE IF i = Len(a) + 1 THEN v ELSE b[i - (Len(a) + 1)]
  <2>1. i <= Len(a) + 1 => c[i] = IF i <= Len(a) THEN a[i] ELSE v
    BY <1>1, <1>2 DEF c
  <2> QED BY <1>1, <1>3, <2>1
<1> QED BY <1>3, <1>4, <1>5

HasItem(q, s, i, x) ==
    /\ q \in Seq(TreeItem) /\ Len(q) = Len(s) + 1
    /\ \A j \in 1 .. Len(s) + 1 : q[j] = IF j < i THEN s[j] ELSE IF j = i THEN x ELSE s[j - 1]

LEMMA WithItemHas ==
  ASSUME NEW s \in Seq(TreeItem), NEW i \in 1 .. Len(s) + 1, NEW x \in TreeItem
  PROVE  HasItem(WithItem(s, i, x), s, i, x)
<1>1. Len(s) \in Nat /\ \A j \in 1 .. Len(s) : s[j] \in TreeItem
  OBVIOUS
<1> DEFINE at(j) == IF j < i THEN s[j] ELSE IF j = i THEN x ELSE s[j - 1]
<1>2. \A j \in 1 .. Len(s) + 1 : at(j) \in TreeItem
  BY <1>1
<1> HIDE DEF at
<1>3. /\ [j \in 1 .. Len(s) + 1 |-> at(j)] \in Seq(TreeItem)
      /\ Len([j \in 1 .. Len(s) + 1 |-> at(j)]) = Len(s) + 1
  BY <1>1, <1>2
<1> QED BY <1>3 DEF at, WithItem, HasItem

LEMMA WithItemIs ==
  ASSUME NEW s \in Seq(TreeItem), NEW i \in 1 .. Len(s) + 1, NEW x \in TreeItem
  PROVE  /\ WithItem(s, i, x) \in Seq(TreeItem) /\ Len(WithItem(s, i, x)) = Len(s) + 1
         /\ \A j \in 1 .. Len(s) + 1 :
               WithItem(s, i, x)[j] = IF j < i THEN s[j] ELSE IF j = i THEN x ELSE s[j - 1]
<1>1. HasItem(WithItem(s, i, x), s, i, x)
  BY WithItemHas
<1> QED BY <1>1 DEF HasItem

LEMMA SameItems ==
  ASSUME NEW s \in Seq(TreeItem), NEW t \in Seq(TreeItem), Len(s) = Len(t),
         \A i \in 1 .. Len(s) : s[i] = t[i]
  PROVE  s = t
BY SeqEqual

\* The item fits in the left or in the right of two sequences about another.
LEMMA FitsLeft ==
  ASSUME NEW a \in Seq(TreeItem), NEW v \in TreeItem, NEW b \in Seq(TreeItem), NEW x \in TreeItem,
         NEW i, FitsAt(a, i, x), Precedes(order, x, v)
  PROVE  /\ FitsAt(Mid(a, v, b), i, x)
         /\ Mid(WithItem(a, i, x), v, b) = WithItem(Mid(a, v, b), i, x)
<1> DEFINE s == Mid(a, v, b)
           c == WithItem(a, i, x)
           p == Mid(c, v, b)
           q == WithItem(s, i, x)
<1>1. Len(a) \in Nat /\ Len(b) \in Nat /\ i \in 1 .. Len(a) + 1
  BY DEF FitsAt
<1>2. /\ s \in Seq(TreeItem) /\ Len(s) = Len(a) + 1 + Len(b)
      /\ \A j \in 1 .. Len(a) + 1 + Len(b) :
            s[j] = IF j <= Len(a) THEN a[j] ELSE IF j = Len(a) + 1 THEN v ELSE b[j - (Len(a) + 1)]
  BY MidIs
<1>3. /\ c \in Seq(TreeItem) /\ Len(c) = Len(a) + 1
      /\ \A j \in 1 .. Len(a) + 1 : c[j] = IF j < i THEN a[j] ELSE IF j = i THEN x ELSE a[j - 1]
  BY <1>1, WithItemIs
<1> HIDE DEF s, c
<1>4. /\ p \in Seq(TreeItem) /\ Len(p) = Len(c) + 1 + Len(b)
      /\ \A j \in 1 .. Len(c) + 1 + Len(b) :
            p[j] = IF j <= Len(c) THEN c[j] ELSE IF j = Len(c) + 1 THEN v ELSE b[j - (Len(c) + 1)]
  <2>1. c \in Seq(TreeItem)
    BY <1>3
  <2> QED BY <2>1, MidIs
<1>5. i \in 1 .. Len(s) + 1
  BY <1>1, <1>2
<1>6. /\ q \in Seq(TreeItem) /\ Len(q) = Len(s) + 1
      /\ \A j \in 1 .. Len(s) + 1 : q[j] = IF j < i THEN s[j] ELSE IF j = i THEN x ELSE s[j - 1]
  <2>1. s \in Seq(TreeItem)
    BY <1>2
  <2>2. HasItem(q, s, i, x)
    BY <1>5, <2>1, WithItemHas
  <2> HIDE DEF q
  <2> QED BY <2>2 DEF HasItem
<1> HIDE DEF p, q
<1>7. Len(p) = Len(q) /\ Len(q) = Len(a) + 2 + Len(b)
  BY <1>1, <1>2, <1>3, <1>4, <1>6
<1>8. ASSUME NEW j \in 1 .. Len(p) PROVE p[j] = q[j]
  <2>0. j \in Nat /\ 1 <= j /\ j <= Len(a) + 2 + Len(b)
    BY <1>1, <1>7
  <2>1. CASE j < i
    <3>1. p[j] = c[j] /\ q[j] = s[j]
      BY <1>1, <1>2, <1>3, <1>4, <1>6, <2>0, <2>1
    <3>2. c[j] = a[j] /\ s[j] = a[j]
      BY <1>1, <1>2, <1>3, <2>0, <2>1
    <3> QED BY <3>1, <3>2
  <2>2. CASE j = i
    <3>1. p[j] = c[j] /\ q[j] = x
      BY <1>1, <1>2, <1>3, <1>4, <1>6, <2>0, <2>2
    <3>2. c[j] = x
      BY <1>1, <1>3, <2>0, <2>2
    <3> QED BY <3>1, <3>2
  <2>3. CASE i < j /\ j <= Len(a) + 1
    <3>1. p[j] = c[j] /\ q[j] = s[j - 1]
      BY <1>1, <1>2, <1>3, <1>4, <1>6, <2>0, <2>3
    <3>2. c[j] = a[j - 1] /\ s[j - 1] = a[j - 1]
      BY <1>1, <1>2, <1>3, <2>0, <2>3
    <3> QED BY <3>1, <3>2
  <2>4. CASE j = Len(a) + 2
    <3>1. p[j] = v /\ q[j] = s[j - 1] /\ j - 1 = Len(a) + 1
      BY <1>1, <1>2, <1>3, <1>4, <1>6, <2>0, <2>4
    <3>2. s[Len(a) + 1] = v
      BY <1>1, <1>2
    <3> QED BY <3>1, <3>2
  <2>5. CASE j > Len(a) + 2
    <3>0. /\ j \in 1 .. Len(c) + 1 + Len(b) /\ ~(j <= Len(c)) /\ j # Len(c) + 1
          /\ j \in 1 .. Len(s) + 1 /\ ~(j < i) /\ j # i
          /\ j - 1 \in 1 .. Len(a) + 1 + Len(b) /\ ~(j - 1 <= Len(a)) /\ j - 1 # Len(a) + 1
      BY <1>1, <1>2, <1>3, <2>0, <2>5
    <3>1. p[j] = b[j - (Len(c) + 1)] /\ q[j] = s[j - 1]
      BY <1>4, <1>6, <3>0
    <3>2. s[j - 1] = b[(j - 1) - (Len(a) + 1)]
      BY <1>2, <3>0
    <3>3. j - (Len(c) + 1) = (j - 1) - (Len(a) + 1)
      BY <1>1, <1>3, <2>0
    <3> QED BY <3>1, <3>2, <3>3
  <2> QED BY <1>1, <2>0, <2>1, <2>2, <2>3, <2>4, <2>5
<1>9. p = q
  BY <1>4, <1>6, <1>7, <1>8, SameItems
<1>10. FitsAt(s, i, x)
  <2>1. ASSUME NEW j \in 1 .. Len(s), j < i PROVE ~Precedes(order, x, s[j])
    <3>1. j \in 1 .. Len(a) /\ j \in 1 .. Len(a) + 1 + Len(b) /\ j <= Len(a)
      BY <1>1, <1>2, <2>1
    <3>2. s[j] = a[j]
      BY <1>2, <3>1
    <3> QED BY <2>1, <3>1, <3>2 DEF FitsAt
  <2>2. i <= Len(s) => Precedes(order, x, s[i])
    BY <1>1, <1>2 DEF FitsAt
  <2> QED BY <1>5, <2>1, <2>2 DEF FitsAt
<1> QED BY <1>9, <1>10 DEF p, q, s, c

LEMMA FitsRight ==
  ASSUME NEW a \in Seq(TreeItem), NEW v \in TreeItem, NEW b \in Seq(TreeItem), NEW x \in TreeItem,
         NEW i, FitsAt(b, i, x), ~Precedes(order, x, v),
         \A j \in 1 .. Len(a) : ~Precedes(order, x, a[j])
  PROVE  /\ FitsAt(Mid(a, v, b), Len(a) + 1 + i, x)
         /\ Mid(a, v, WithItem(b, i, x)) = WithItem(Mid(a, v, b), Len(a) + 1 + i, x)
<1> DEFINE s == Mid(a, v, b)
           c == WithItem(b, i, x)
           p == Mid(a, v, c)
           k == Len(a) + 1 + i
           q == WithItem(s, k, x)
<1>1. Len(a) \in Nat /\ Len(b) \in Nat /\ i \in 1 .. Len(b) + 1
  BY DEF FitsAt
<1>2. /\ s \in Seq(TreeItem) /\ Len(s) = Len(a) + 1 + Len(b)
      /\ \A j \in 1 .. Len(a) + 1 + Len(b) :
            s[j] = IF j <= Len(a) THEN a[j] ELSE IF j = Len(a) + 1 THEN v ELSE b[j - (Len(a) + 1)]
  BY MidIs
<1>3. /\ c \in Seq(TreeItem) /\ Len(c) = Len(b) + 1
      /\ \A j \in 1 .. Len(b) + 1 : c[j] = IF j < i THEN b[j] ELSE IF j = i THEN x ELSE b[j - 1]
  BY <1>1, WithItemIs
<1> HIDE DEF s, c
<1>4. /\ p \in Seq(TreeItem) /\ Len(p) = Len(a) + 1 + Len(c)
      /\ \A j \in 1 .. Len(a) + 1 + Len(c) :
            p[j] = IF j <= Len(a) THEN a[j] ELSE IF j = Len(a) + 1 THEN v ELSE c[j - (Len(a) + 1)]
  <2>1. c \in Seq(TreeItem)
    BY <1>3
  <2> QED BY <2>1, MidIs
<1>5. k \in 1 .. Len(s) + 1
  BY <1>1, <1>2
<1>6. /\ q \in Seq(TreeItem) /\ Len(q) = Len(s) + 1
      /\ \A j \in 1 .. Len(s) + 1 : q[j] = IF j < k THEN s[j] ELSE IF j = k THEN x ELSE s[j - 1]
  <2> HIDE DEF k
  <2>1. s \in Seq(TreeItem)
    BY <1>2
  <2>2. HasItem(q, s, k, x)
    BY <1>5, <2>1, WithItemHas
  <2> HIDE DEF q
  <2> QED BY <2>2 DEF HasItem
<1> HIDE DEF p, q
<1>7. Len(p) = Len(q) /\ Len(q) = Len(a) + 2 + Len(b)
  BY <1>1, <1>2, <1>3, <1>4, <1>6
<1>8. ASSUME NEW j \in 1 .. Len(p) PROVE p[j] = q[j]
  <2>0. /\ j \in Nat /\ 1 <= j /\ j <= Len(a) + 2 + Len(b) /\ k \in Nat /\ k = Len(a) + 1 + i
        /\ j \in 1 .. Len(s) + 1 /\ j \in 1 .. Len(a) + 1 + Len(c)
    BY <1>1, <1>2, <1>3, <1>7
  <2> DEFINE f == j - (Len(a) + 1)
  <2> HIDE DEF k, f
  <2>a. f \in Int /\ f = j - (Len(a) + 1) /\ j - 1 - (Len(a) + 1) = f - 1
    BY <1>1, <2>0 DEF f
  <2>b. q[j] = IF j < k THEN s[j] ELSE IF j = k THEN x ELSE s[j - 1]
    BY <1>6, <2>0
  <2>c. p[j] = IF j <= Len(a) THEN a[j] ELSE IF j = Len(a) + 1 THEN v ELSE c[f]
    BY <1>4, <2>0 DEF f
  <2>1. CASE j <= Len(a) + 1
    <3>1. j < k /\ j \in 1 .. Len(a) + 1 + Len(b)
      BY <1>1, <2>0, <2>1
    <3>2. s[j] = IF j <= Len(a) THEN a[j] ELSE v
      <4>1. ~(j <= Len(a)) => j = Len(a) + 1
        BY <1>1, <2>0, <2>1
      <4>2. s[j] = IF j <= Len(a) THEN a[j] ELSE IF j = Len(a) + 1 THEN v ELSE b[j - (Len(a) + 1)]
        BY <1>2, <3>1
      <4> QED BY <4>1, <4>2
    <3>3. p[j] = IF j <= Len(a) THEN a[j] ELSE v
      BY <1>1, <2>0, <2>1, <2>c
    <3>4. q[j] = s[j]
      BY <2>b, <3>1
    <3> QED BY <3>2, <3>3, <3>4
  <2>2. CASE j > Len(a) + 1 /\ j < k
    <3>1. j \in 1 .. Len(a) + 1 + Len(b) /\ f \in 1 .. Len(b) + 1 /\ f < i
      BY <1>1, <2>0, <2>2, <2>a
    <3>2. s[j] = b[f]
      BY <1>1, <1>2, <2>0, <2>2, <3>1 DEF f
    <3>3. p[j] = c[f] /\ q[j] = s[j]
      BY <1>1, <2>0, <2>2, <2>b, <2>c
    <3>4. c[f] = b[f]
      BY <1>3, <3>1
    <3> QED BY <3>2, <3>3, <3>4
  <2>3. CASE j = k
    <3>1. f = i /\ f \in 1 .. Len(b) + 1 /\ j > Len(a) + 1
      BY <1>1, <2>0, <2>3, <2>a
    <3>2. p[j] = c[f] /\ q[j] = x
      BY <1>1, <2>0, <2>3, <2>b, <2>c, <3>1
    <3>3. c[f] = x
      BY <1>1, <1>3, <3>1
    <3> QED BY <3>2, <3>3
  <2>4. CASE j > k
    <3>1. /\ j - 1 \in 1 .. Len(a) + 1 + Len(b) /\ f \in 1 .. Len(b) + 1 /\ f > i
          /\ j - 1 > Len(a) + 1 /\ j > Len(a) + 1
      BY <1>1, <2>0, <2>4, <2>a
    <3>2. s[j - 1] = b[f - 1]
      <4>1. s[j - 1] = b[j - 1 - (Len(a) + 1)]
        <5>1. ~(j - 1 <= Len(a)) /\ j - 1 # Len(a) + 1
          BY <1>1, <2>0, <3>1
        <5> QED BY <1>2, <3>1, <5>1
      <4> QED BY <2>a, <4>1
    <3>3. p[j] = c[f] /\ q[j] = s[j - 1]
      BY <1>1, <2>0, <2>4, <2>b, <2>c, <3>1
    <3>4. c[f] = b[f - 1]
      BY <1>1, <1>3, <2>a, <3>1
    <3> QED BY <3>2, <3>3, <3>4
  <2> QED BY <1>1, <2>0, <2>1, <2>2, <2>3, <2>4
<1>9. p = q
  BY <1>4, <1>6, <1>7, <1>8, SameItems
<1>10. FitsAt(s, k, x)
  <2>1. ASSUME NEW j \in 1 .. Len(s), j < k PROVE ~Precedes(order, x, s[j])
    <3>1. CASE j <= Len(a) + 1
      <4>1. IF j <= Len(a) THEN s[j] = a[j] /\ j \in 1 .. Len(a) ELSE s[j] = v
        BY <1>1, <1>2, <3>1
      <4> HIDE DEF k
      <4> QED BY <4>1
    <3>2. CASE j > Len(a) + 1
      <4>1. j - (Len(a) + 1) \in 1 .. Len(b) /\ j - (Len(a) + 1) < i /\ s[j] = b[j - (Len(a) + 1)]
        BY <1>1, <1>2, <2>1, <3>2
      <4> QED BY <4>1 DEF FitsAt
    <3> QED BY <1>1, <1>2, <3>1, <3>2
  <2>2. ASSUME k <= Len(s) PROVE Precedes(order, x, s[k])
    <3>1. i <= Len(b) /\ s[k] = b[i]
      BY <1>1, <1>2, <2>2
    <3> QED BY <3>1 DEF FitsAt
  <2> HIDE DEF k
  <2> QED BY <1>5, <2>1, <2>2 DEF FitsAt
<1> QED BY <1>9, <1>10 DEF p, q, s, c

LEMMA KeysOfItems == \A x \in TreeItem : x[1] \in Int
BY KeyAssumption DEF TreeItem

LEMMA MidOrdered ==
  ASSUME NEW a \in Seq(TreeItem), NEW v \in TreeItem, NEW b \in Seq(TreeItem), InKeyOrder(Mid(a, v, b))
  PROVE  /\ InKeyOrder(a) /\ InKeyOrder(b)
         /\ \A j \in 1 .. Len(a) : NotAfter(a[j], v)
<1> DEFINE s == Mid(a, v, b)
<1>1. Len(a) \in Nat /\ Len(b) \in Nat
  OBVIOUS
<1>2. /\ Len(s) = Len(a) + 1 + Len(b)
      /\ \A j \in 1 .. Len(a) + 1 + Len(b) :
            s[j] = IF j <= Len(a) THEN a[j] ELSE IF j = Len(a) + 1 THEN v ELSE b[j - (Len(a) + 1)]
  BY MidIs
<1> HIDE DEF s
<1>3. \A i, j \in 1 .. Len(s) : i < j => NotAfter(s[i], s[j])
  BY DEF InKeyOrder, s
<1>4. ASSUME NEW i \in 1 .. Len(a), NEW j \in 1 .. Len(a), i < j PROVE NotAfter(a[i], a[j])
  BY <1>1, <1>2, <1>3, <1>4
<1>5. ASSUME NEW i \in 1 .. Len(b), NEW j \in 1 .. Len(b), i < j PROVE NotAfter(b[i], b[j])
  <2>1. /\ Len(a) + 1 + i \in 1 .. Len(s) /\ Len(a) + 1 + j \in 1 .. Len(s) /\ Len(a) + 1 + i < Len(a) + 1 + j
        /\ s[Len(a) + 1 + i] = b[i] /\ s[Len(a) + 1 + j] = b[j]
    <3>1. ASSUME NEW m \in 1 .. Len(b) PROVE Len(a) + 1 + m \in 1 .. Len(s) /\ s[Len(a) + 1 + m] = b[m]
      <4>1. /\ Len(a) + 1 + m \in 1 .. Len(a) + 1 + Len(b) /\ ~(Len(a) + 1 + m <= Len(a))
            /\ Len(a) + 1 + m # Len(a) + 1 /\ (Len(a) + 1 + m) - (Len(a) + 1) = m
        BY <1>1
      <4> QED BY <1>2, <4>1
    <3>2. Len(a) + 1 + i < Len(a) + 1 + j
      BY <1>1, <1>5
    <3> QED BY <3>1, <3>2
  <2> QED BY <1>3, <2>1
<1>6. ASSUME NEW j \in 1 .. Len(a) PROVE NotAfter(a[j], v)
  <2>1. j \in 1 .. Len(s) /\ Len(a) + 1 \in 1 .. Len(s) /\ j < Len(a) + 1 /\ s[j] = a[j] /\ s[Len(a) + 1] = v
    BY <1>1, <1>2
  <2> QED BY <1>3, <2>1
<1> QED BY <1>4, <1>5, <1>6 DEF InKeyOrder

\* Put where it fits, an item keeps the order.
LEMMA StaysOrdered ==
  ASSUME order \in {"<", "<=", ">"}, NEW s \in Seq(TreeItem), NEW x \in TreeItem, NEW i,
         InKeyOrder(s), FitsAt(s, i, x)
  PROVE  InKeyOrder(WithItem(s, i, x))
<1> DEFINE q == WithItem(s, i, x)
<1>1. Len(s) \in Nat /\ i \in 1 .. Len(s) + 1 /\ \A j \in 1 .. Len(s) : s[j] \in TreeItem
  BY DEF FitsAt
<1>2. /\ Len(q) = Len(s) + 1
      /\ \A j \in 1 .. Len(s) + 1 : q[j] = IF j < i THEN s[j] ELSE IF j = i THEN x ELSE s[j - 1]
  BY <1>1, WithItemIs
<1> HIDE DEF q
<1>3. \A j \in 1 .. Len(s) : s[j][1] \in Int /\ x[1] \in Int
  BY <1>1, KeysOfItems
<1>4. ASSUME NEW j \in 1 .. Len(s), j < i PROVE NotAfter(s[j], x)
  BY <1>3, <1>4 DEF FitsAt, Precedes, NotAfter
<1>5. ASSUME NEW j \in 1 .. Len(s), i <= j PROVE NotAfter(x, s[j])
  <2>1. i \in 1 .. Len(s) /\ Precedes(order, x, s[i])
    BY <1>1, <1>5 DEF FitsAt
  <2>2. i = j \/ NotAfter(s[i], s[j])
    BY <1>1, <1>5, <2>1 DEF InKeyOrder
  <2> QED BY <1>3, <2>1, <2>2 DEF Precedes, NotAfter
<1>6. ASSUME NEW j \in 1 .. Len(q), NEW k \in 1 .. Len(q), j < k PROVE NotAfter(q[j], q[k])
  <2>1. CASE k < i
    BY <1>1, <1>2, <1>6, <2>1 DEF InKeyOrder
  <2>2. CASE k = i
    BY <1>1, <1>2, <1>4, <1>6, <2>2
  <2>3. CASE k > i
    <3>1. k - 1 \in 1 .. Len(s) /\ q[k] = s[k - 1] /\ i <= k - 1
      BY <1>1, <1>2, <2>3
    <3>2. CASE j < i
      <4>1. j \in 1 .. Len(s) /\ j < k - 1 /\ q[j] = s[j]
        BY <1>1, <1>2, <2>3, <3>2
      <4> QED BY <3>1, <4>1 DEF InKeyOrder
    <3>3. CASE j = i
      BY <1>1, <1>2, <1>5, <3>1, <3>3
    <3>4. CASE j > i
      <4>1. j - 1 \in 1 .. Len(s) /\ j - 1 < k - 1 /\ q[j] = s[j - 1]
        BY <1>1, <1>2, <1>6, <3>4
      <4> QED BY <3>1, <4>1 DEF InKeyOrder
    <3> QED BY <1>1, <1>2, <3>2, <3>3, <3>4
  <2> QED BY <1>1, <1>2, <2>1, <2>2, <2>3
<1> QED BY <1>6 DEF InKeyOrder, q

-----------------------------------------------------------------------------

\* The abstract sequence puts the item there as well.
LEMMA InsertAtIs ==
  ASSUME NEW s \in Seq(TreeItem), NEW i \in 1 .. Len(s) + 1, NEW x \in TreeItem
  PROVE  Mid(SubSeq(s, 1, i - 1), x, SubSeq(s, i, Len(s))) = WithItem(s, i, x)
<1> DEFINE a == SubSeq(s, 1, i - 1)
           b == SubSeq(s, i, Len(s))
           p == Mid(a, x, b)
           q == WithItem(s, i, x)
<1>1. Len(s) \in Nat /\ i \in Nat /\ 1 <= i /\ i <= Len(s) + 1 /\ \A j \in 1 .. Len(s) : s[j] \in TreeItem
  OBVIOUS
<1>2. a \in Seq(TreeItem) /\ Len(a) = i - 1 /\ \A j \in 1 .. i - 1 : a[j] = s[j]
  <2>1. 1 \in Int /\ i - 1 \in Int /\ \A j \in 1 .. i - 1 : s[j] \in TreeItem
    BY <1>1
  <2>2. /\ a \in Seq(TreeItem) /\ Len(a) = IF 1 <= i - 1 THEN (i - 1) - 1 + 1 ELSE 0
        /\ \A j \in 1 .. (i - 1) - 1 + 1 : a[j] = s[1 + j - 1]
    BY <2>1, SubSeqProperties
  <2> HIDE DEF a
  <2>3. \A j \in 1 .. i - 1 : j \in 1 .. (i - 1) - 1 + 1 /\ 1 + j - 1 = j
    BY <1>1
  <2> QED BY <1>1, <2>2, <2>3
<1>3. b \in Seq(TreeItem) /\ Len(b) = Len(s) + 1 - i /\ \A j \in 1 .. Len(s) + 1 - i : b[j] = s[(i - 1) + j]
  <2>1. i \in Int /\ Len(s) \in Int /\ \A j \in i .. Len(s) : s[j] \in TreeItem
    BY <1>1
  <2>2. /\ b \in Seq(TreeItem) /\ Len(b) = IF i <= Len(s) THEN Len(s) - i + 1 ELSE 0
        /\ \A j \in 1 .. Len(s) - i + 1 : b[j] = s[i + j - 1]
    BY <2>1, SubSeqProperties
  <2> HIDE DEF b
  <2>3. \A j \in 1 .. Len(s) + 1 - i : j \in 1 .. Len(s) - i + 1 /\ i + j - 1 = (i - 1) + j
    BY <1>1
  <2> QED BY <1>1, <2>2, <2>3
<1> HIDE DEF a, b
<1>4. /\ p \in Seq(TreeItem) /\ Len(p) = Len(a) + 1 + Len(b)
      /\ \A j \in 1 .. Len(a) + 1 + Len(b) :
            p[j] = IF j <= Len(a) THEN a[j] ELSE IF j = Len(a) + 1 THEN x ELSE b[j - (Len(a) + 1)]
  BY <1>2, <1>3, MidIs
<1>5. /\ q \in Seq(TreeItem) /\ Len(q) = Len(s) + 1
      /\ \A j \in 1 .. Len(s) + 1 : q[j] = IF j < i THEN s[j] ELSE IF j = i THEN x ELSE s[j - 1]
  BY WithItemIs
<1> HIDE DEF p, q
<1>6. Len(p) = Len(q) /\ Len(p) = Len(s) + 1 /\ Len(a) + 1 = i
  BY <1>1, <1>2, <1>3, <1>4, <1>5
<1>7. ASSUME NEW j \in 1 .. Len(p) PROVE p[j] = q[j]
  <2>1. /\ p[j] = IF j <= Len(a) THEN a[j] ELSE IF j = Len(a) + 1 THEN x ELSE b[j - (Len(a) + 1)]
        /\ q[j] = IF j < i THEN s[j] ELSE IF j = i THEN x ELSE s[j - 1]
    BY <1>4, <1>5, <1>6
  <2>2. CASE j < i
    <3>1. j <= Len(a) /\ j \in 1 .. i - 1
      BY <1>1, <1>6, <1>2, <2>2
    <3> QED BY <1>2, <2>1, <2>2, <3>1
  <2>3. CASE j = i
    <3>1. ~(j <= Len(a)) /\ j = Len(a) + 1 /\ ~(j < i)
      BY <1>1, <1>2, <1>6, <2>3
    <3> QED BY <2>1, <2>3, <3>1
  <2>4. CASE j > i
    <3>1. /\ ~(j <= Len(a)) /\ j # Len(a) + 1 /\ ~(j < i) /\ j # i
          /\ j - (Len(a) + 1) \in 1 .. Len(s) + 1 - i /\ (i - 1) + (j - (Len(a) + 1)) = j - 1
      BY <1>1, <1>2, <1>6, <2>4
    <3>2. b[j - (Len(a) + 1)] = s[j - 1]
      BY <1>3, <3>1
    <3> QED BY <2>1, <3>1, <3>2
  <2> QED BY <1>1, <1>6, <2>2, <2>3, <2>4
<1> QED BY <1>4, <1>5, <1>6, <1>7, SameItems DEF p, q, a, b

-----------------------------------------------------------------------------
\* The bound on levels has room for one more.
Room(t) == IF t = NoTree THEN 1 <= MaxItems ELSE HeightOf(t) + 2 <= MaxItems
Placed(t, x) == \E i : /\ FitsAt(InOrder[t], i, x)
                       /\ InOrder[Insert(t, x)] = WithItem(InOrder[t], i, x)
Inserts(t, x) ==
    /\ Sound(Insert(t, x))
    /\ HeightOf(Insert(t, x)) \in HeightOf(t) .. HeightOf(t) + 1
    /\ t = NoTree => HeightOf(Insert(t, x)) = 0
    /\ Placed(t, x)

LEMMA LeafSound ==
  ASSUME NEW x \in TreeItem, 1 <= MaxItems
  PROVE  Inserts(NoTree, x)
<1> DEFINE t == TreeNode(NoTree, x, NoTree, 0)
<1>1. Insert(NoTree, x) = t
  BY InsertIs
<1>2. /\ t # NoTree /\ LeftOf(t) = NoTree /\ RightOf(t) = NoTree /\ ItemOf(t) = x /\ HeightOf(t) = 0
  BY NodeParts
<1>3. t \in Trees[0 + 1]
  <2>1. 0 \in Nat /\ NoTree \in Trees[0]
    BY TreesGrow
  <2> QED BY <2>1, NodeIn
<1> HIDE DEF t
<1>4. t \in Tree
  <2>1. MaxItems \in Nat /\ 0 + 1 \in 0 .. MaxItems
    BY MaxItemsAssumption
  <2> QED BY <1>3, <2>1, TreesGrow DEF Tree
<1>5. Subtrees[t] = {t} /\ InOrder[t] = Mid(InOrder[NoTree], x, InOrder[NoTree])
  <2>1. Subtrees[NoTree] = {} /\ NoTree \in Tree
    BY SoundNone, SubtreesIs DEF Sound
  <2> QED BY <1>2, <1>4, <2>1, SubtreesIs, InOrderIs DEF Mid
<1>6. Fine(t)
  BY <1>2 DEF Fine
<1>7. Sound(t)
  BY <1>2, <1>3, <1>4, <1>5, <1>6 DEF Sound
<1>8. HeightOf(NoTree) = 0 /\ InOrder[NoTree] = <<>>
  BY SoundNone
<1>9. FitsAt(<<>>, 1, x) /\ Mid(<<>>, x, <<>>) = WithItem(<<>>, 1, x)
  <2>1. FitsAt(<<>>, 1, x)
    BY DEF FitsAt
  <2>2. Mid(<<>>, x, <<>>) = <<x>>
    BY DEF Mid
  <2>3. WithItem(<<>>, 1, x) = <<x>>
    BY DEF WithItem
  <2> QED BY <2>1, <2>2, <2>3
<1>10. Placed(NoTree, x)
  BY <1>1, <1>5, <1>8, <1>9 DEF Placed
<1> QED BY <1>1, <1>2, <1>7, <1>8, <1>10 DEF Inserts

\* An item goes in its place, at whatever depth, and the tree is sound.
LEMMA InsertSound ==
  ASSUME order \in {"<", "<=", ">"}, NEW x \in TreeItem
  PROVE  \A t \in Tree : Sound(t) /\ Room(t) /\ InKeyOrder(InOrder[t]) => Inserts(t, x)
<1> DEFINE Shown == {t \in Tree : Sound(t) /\ Room(t) /\ InKeyOrder(InOrder[t]) => Inserts(t, x)}
<1>1. NoTree \in Shown
  <2>1. NoTree \in Tree
    BY SoundNone DEF Sound
  <2>2. Room(NoTree) => Inserts(NoTree, x)
    BY LeafSound DEF Room
  <2> QED BY <2>1, <2>2
<1>2. ASSUME NEW t \in Tree, t # NoTree, LeftOf(t) \in Shown, RightOf(t) \in Shown PROVE t \in Shown
  <2> SUFFICES ASSUME Sound(t), Room(t), InKeyOrder(InOrder[t]) PROVE Inserts(t, x)
    OBVIOUS
  <2> DEFINE l == LeftOf(t)
             r == RightOf(t)
             v == ItemOf(t)
             h == HeightOf(t)
             l2 == Insert(l, x)
             r2 == Insert(r, x)
  <2>1. /\ Sound(l) /\ Sound(r) /\ v \in TreeItem /\ h \in Nat /\ Fine(t)
        /\ InOrder[t] = Mid(InOrder[l], v, InOrder[r])
    BY <1>2, SoundParts DEF Mid
  <2>2. /\ Sound(l) /\ Room(l) /\ InKeyOrder(InOrder[l]) => Inserts(l, x)
        /\ Sound(r) /\ Room(r) /\ InKeyOrder(InOrder[r]) => Inserts(r, x)
    BY <1>2
  <2>3. /\ Insert(t, x) = IF Precedes(order, x, v) THEN Balance(TreeNode(l2, v, r, h))
                          ELSE Balance(TreeNode(l, v, r2, h))
    BY <1>2, InsertIs
  <2>4. /\ (l = NoTree /\ r = NoTree /\ h = 0)
           \/ (DeltaOf(t) \in -1 .. 1 /\ h = Higher(HeightOf(l), HeightOf(r)) + 1)
        /\ DeltaOf(t) = HeightOf(l) - HeightOf(r) /\ HeightOf(NoTree) = 0
    BY <2>1, SoundNone DEF Fine, DeltaOf
  <2>5. h + 2 <= MaxItems /\ MaxItems \in Nat
    BY <1>2, MaxItemsAssumption DEF Room
  <2>6. /\ HeightOf(l) \in Nat /\ HeightOf(r) \in Nat
        /\ InOrder[l] \in Seq(TreeItem) /\ InOrder[r] \in Seq(TreeItem)
    BY <2>1, InOrderIs DEF Sound
  <2> HIDE DEF l, r, v, h, l2, r2, Shown
  <2>7. /\ HeightOf(l) - HeightOf(r) \in -1 .. 1
        /\ HeightOf(l) + 1 <= MaxItems /\ HeightOf(r) + 1 <= MaxItems
        /\ \/ l = NoTree /\ r = NoTree /\ HeightOf(l) = 0 /\ HeightOf(r) = 0 /\ h = 0
           \/ h = Higher(HeightOf(l), HeightOf(r)) + 1
    BY <2>4, <2>5, <2>6 DEF Higher
  <2>8. HeightOf(l) + 3 <= MaxItems \/ (l = NoTree /\ HeightOf(l) = 0 /\ h = 0)
    BY <2>5, <2>6, <2>7 DEF Higher
  <2>9. HeightOf(r) + 3 <= MaxItems \/ (r = NoTree /\ HeightOf(r) = 0 /\ h = 0)
    BY <2>5, <2>6, <2>7 DEF Higher
  <2>10. Room(l) /\ Room(r)
    BY <2>5, <2>6, <2>8, <2>9 DEF Room
  <2>11. /\ InKeyOrder(InOrder[l]) /\ InKeyOrder(InOrder[r])
         /\ \A j \in 1 .. Len(InOrder[l]) : NotAfter(InOrder[l][j], v)
    <3>1. InKeyOrder(Mid(InOrder[l], v, InOrder[r]))
      BY <2>1
    <3> QED BY <2>1, <2>6, <3>1, MidOrdered
  <2>12. Inserts(l, x) /\ Inserts(r, x)
    BY <2>1, <2>2, <2>10, <2>11
  <2>13. CASE Precedes(order, x, v)
    <3>1. /\ Sound(l2) /\ HeightOf(l2) \in HeightOf(l) .. HeightOf(l) + 1
          /\ l = NoTree => HeightOf(l2) = 0
      BY <2>12 DEF Inserts, l2
    <3>2. PICK i : FitsAt(InOrder[l], i, x) /\ InOrder[l2] = WithItem(InOrder[l], i, x)
      BY <2>12 DEF Inserts, Placed, l2
    <3> DEFINE b == Balance(TreeNode(l2, v, r, h))
               m == Higher(HeightOf(l2), HeightOf(r))
    <3>3. /\ HeightOf(l2) - HeightOf(r) \in -2 .. 2
          /\ HeightOf(l2) + 2 <= MaxItems /\ HeightOf(r) + 2 <= MaxItems
      <4> HIDE DEF m
      <4>1. HeightOf(l2) + 2 <= MaxItems
        BY <2>5, <2>6, <2>8, <3>1
      <4>2. HeightOf(r) + 2 <= MaxItems
        BY <2>5, <2>6, <2>9
      <4>3. HeightOf(l2) - HeightOf(r) \in -2 .. 2
        <5>1. HeightOf(l) - HeightOf(r) \in -1 .. 1
          BY <2>7
        <5> HIDE DEF b
        <5> QED BY <2>6, <3>1, <5>1
      <4> QED BY <4>1, <4>2, <4>3
    <3>4. /\ Sound(b) /\ InOrder[b] = Mid(InOrder[l2], v, InOrder[r])
          /\ HeightOf(b) \in m .. m + 1
          /\ HeightOf(l2) - HeightOf(r) \in -1 .. 1 => HeightOf(b) = m + 1
      BY <2>1, <3>1, <3>3, BalanceSound
    <3> HIDE DEF b
    <3>5. HeightOf(b) \in h .. h + 1
      <4>0. HeightOf(l2) \in Nat /\ HeightOf(r) \in Nat /\ m \in Nat
        BY <2>6, <3>1 DEF Higher
      <4>1. CASE l = NoTree /\ h = 0 /\ HeightOf(r) = 0
        <5>1. HeightOf(l2) = 0
          BY <3>1, <4>1
        <5>2. m = 0 /\ HeightOf(l2) - HeightOf(r) \in -1 .. 1
          BY <4>1, <5>1 DEF Higher
        <5> HIDE DEF m
        <5> QED BY <3>4, <4>1, <5>2
      <4>2. CASE h = Higher(HeightOf(l), HeightOf(r)) + 1
        <5>0. HeightOf(l) - HeightOf(r) \in -1 .. 1
          BY <2>7
        <5>1. m \in h - 1 .. h /\ h \in Nat
          BY <2>6, <3>1, <4>2 DEF Higher
        <5>2. HeightOf(l2) - HeightOf(r) \in -1 .. 1 \/ m = h
          BY <2>6, <3>1, <4>2, <5>0 DEF Higher
        <5> HIDE DEF m
        <5> QED BY <3>4, <4>0, <5>1, <5>2
      <4> QED BY <2>7, <4>1, <4>2
    <3>6. FitsAt(InOrder[t], i, x) /\ InOrder[b] = WithItem(InOrder[t], i, x)
      <4> DEFINE ol == InOrder[l]
                 or == InOrder[r]
                 ot == InOrder[t]
                 ob == InOrder[b]
      <4>1. /\ ol \in Seq(TreeItem) /\ or \in Seq(TreeItem) /\ ot = Mid(ol, v, or)
            /\ ob = Mid(WithItem(ol, i, x), v, or) /\ FitsAt(ol, i, x)
        BY <2>1, <2>6, <3>2, <3>4
      <4> HIDE DEF ol, or, ot, ob
      <4>2. FitsAt(ot, i, x) /\ ob = WithItem(ot, i, x)
        BY <2>1, <2>13, <4>1, FitsLeft
      <4> QED BY <4>2 DEF ot, ob
    <3>7. Insert(t, x) = b
      BY <2>3, <2>13 DEF b
    <3> QED BY <1>2, <3>4, <3>5, <3>6, <3>7 DEF Inserts, Placed, h
  <2>14. CASE ~Precedes(order, x, v)
    <3>1. /\ Sound(r2) /\ HeightOf(r2) \in HeightOf(r) .. HeightOf(r) + 1
          /\ r = NoTree => HeightOf(r2) = 0
      BY <2>12 DEF Inserts, r2
    <3>2. PICK i : FitsAt(InOrder[r], i, x) /\ InOrder[r2] = WithItem(InOrder[r], i, x)
      BY <2>12 DEF Inserts, Placed, r2
    <3> DEFINE b == Balance(TreeNode(l, v, r2, h))
               m == Higher(HeightOf(l), HeightOf(r2))
    <3>3. /\ HeightOf(l) - HeightOf(r2) \in -2 .. 2
          /\ HeightOf(l) + 2 <= MaxItems /\ HeightOf(r2) + 2 <= MaxItems
      <4> HIDE DEF m
      <4>1. HeightOf(r2) + 2 <= MaxItems
        BY <2>5, <2>6, <2>9, <3>1
      <4>2. HeightOf(l) + 2 <= MaxItems
        BY <2>5, <2>6, <2>8
      <4>3. HeightOf(l) - HeightOf(r2) \in -2 .. 2
        <5>1. HeightOf(l) - HeightOf(r) \in -1 .. 1
          BY <2>7
        <5> HIDE DEF b
        <5> QED BY <2>6, <3>1, <5>1
      <4> QED BY <4>1, <4>2, <4>3
    <3>4. /\ Sound(b) /\ InOrder[b] = Mid(InOrder[l], v, InOrder[r2])
          /\ HeightOf(b) \in m .. m + 1
          /\ HeightOf(l) - HeightOf(r2) \in -1 .. 1 => HeightOf(b) = m + 1
      BY <2>1, <3>1, <3>3, BalanceSound
    <3> HIDE DEF b
    <3>5. HeightOf(b) \in h .. h + 1
      <4>0. HeightOf(r2) \in Nat /\ HeightOf(l) \in Nat /\ m \in Nat
        BY <2>6, <3>1 DEF Higher
      <4>1. CASE r = NoTree /\ h = 0 /\ HeightOf(l) = 0
        <5>1. HeightOf(r2) = 0
          BY <3>1, <4>1
        <5>2. m = 0 /\ HeightOf(l) - HeightOf(r2) \in -1 .. 1
          BY <4>1, <5>1 DEF Higher
        <5> HIDE DEF m
        <5> QED BY <3>4, <4>1, <5>2
      <4>2. CASE h = Higher(HeightOf(l), HeightOf(r)) + 1
        <5>0. HeightOf(l) - HeightOf(r) \in -1 .. 1
          BY <2>7
        <5>1. m \in h - 1 .. h /\ h \in Nat
          BY <2>6, <3>1, <4>2 DEF Higher
        <5>2. HeightOf(l) - HeightOf(r2) \in -1 .. 1 \/ m = h
          BY <2>6, <3>1, <4>2, <5>0 DEF Higher
        <5> HIDE DEF m
        <5> QED BY <3>4, <4>0, <5>1, <5>2
      <4> QED BY <2>7, <4>1, <4>2
    <3>6. \E k : FitsAt(InOrder[t], k, x) /\ InOrder[b] = WithItem(InOrder[t], k, x)
      <4> DEFINE ol == InOrder[l]
                 or == InOrder[r]
                 ot == InOrder[t]
                 ob == InOrder[b]
      <4>1. /\ ol \in Seq(TreeItem) /\ or \in Seq(TreeItem) /\ ot = Mid(ol, v, or)
            /\ ob = Mid(ol, v, WithItem(or, i, x)) /\ FitsAt(or, i, x)
            /\ \A j \in 1 .. Len(ol) : NotAfter(ol[j], v)
        BY <2>1, <2>6, <2>11, <3>2, <3>4
      <4> HIDE DEF ol, or, ot, ob
      <4>2. ASSUME NEW j \in 1 .. Len(ol) PROVE ~Precedes(order, x, ol[j])
        <5>1. ol[j] \in TreeItem /\ NotAfter(ol[j], v)
          BY <4>1
        <5>2. ol[j][1] \in Int /\ v[1] \in Int /\ x[1] \in Int
          BY <2>1, <5>1, KeysOfItems
        <5> QED BY <2>14, <5>1, <5>2 DEF Precedes, NotAfter
      <4>3. FitsAt(ot, Len(ol) + 1 + i, x) /\ ob = WithItem(ot, Len(ol) + 1 + i, x)
        BY <2>1, <2>14, <4>1, <4>2, FitsRight
      <4> QED BY <4>3 DEF ot, ob
    <3>7. Insert(t, x) = b
      BY <2>3, <2>14 DEF b
    <3> QED BY <1>2, <3>4, <3>5, <3>6, <3>7 DEF Inserts, Placed, h
  <2> QED BY <2>13, <2>14
<1> HIDE DEF Shown
<1>3. Tree \subseteq Shown
  BY <1>1, <1>2, TreeInduction
<1> QED BY <1>3 DEF Shown

Close(u) == Depth[u] - HeightOf(u) \in {0, 1} /\ DeltaOf(u) \in -1 .. 1

\* The heights of sound trees are their depths, or one less.
LEMMA DepthsClose ==
  ASSUME NEW t, Sound(t)
  PROVE  \A u \in Subtrees[t] : Close(u)
<1> DEFINE Shown == {u \in Tree : (\A w \in Subtrees[u] : Fine(w)) =>
                    Depth[u] - HeightOf(u) \in {0, 1} /\ \A w \in Subtrees[u] : Close(w)}
<1>1. NoTree \in Shown
  <2>1. NoTree \in Tree /\ HeightOf(NoTree) = 0
    BY SoundNone DEF Sound
  <2>2. Depth[NoTree] = 0 /\ Subtrees[NoTree] = {}
    BY <2>1, DepthIs, SubtreesIs
  <2> QED BY <2>1, <2>2
<1>2. ASSUME NEW u \in Tree, u # NoTree, LeftOf(u) \in Shown, RightOf(u) \in Shown PROVE u \in Shown
  <2> SUFFICES ASSUME \A w \in Subtrees[u] : Fine(w)
               PROVE  Depth[u] - HeightOf(u) \in {0, 1} /\ \A w \in Subtrees[u] : Close(w)
    OBVIOUS
  <2> DEFINE l == LeftOf(u)
             r == RightOf(u)
  <2>1. /\ Subtrees[u] = {u} \cup Subtrees[l] \cup Subtrees[r]
        /\ l \in Tree /\ r \in Tree
        /\ Depth[u] = 1 + Higher(Depth[l], Depth[r])
    BY <1>2, SubtreesIs, DepthIs, PartOf
  <2>2. /\ Depth[l] - HeightOf(l) \in {0, 1} /\ \A w \in Subtrees[l] : Close(w)
        /\ Depth[r] - HeightOf(r) \in {0, 1} /\ \A w \in Subtrees[r] : Close(w)
    BY <1>2, <2>1
  <2>3. /\ Depth[l] \in Nat /\ Depth[r] \in Nat /\ HeightOf(l) \in Nat /\ HeightOf(r) \in Nat
        /\ HeightOf(NoTree) = 0 /\ Depth[NoTree] = 0
    <3>1. MaxItems \in Nat /\ NoTree \in Tree /\ HeightOf(NoTree) = 0
      BY MaxItemsAssumption, SoundNone DEF Sound
    <3> HIDE DEF l, r
    <3> QED BY <2>1, <3>1, HeightIn, DepthIs DEF Tree
  <2>4. Fine(u) /\ DeltaOf(u) = HeightOf(l) - HeightOf(r)
    BY <2>1 DEF DeltaOf
  <2>5. \/ l = NoTree /\ r = NoTree /\ HeightOf(u) = 0
        \/ DeltaOf(u) \in -1 .. 1 /\ HeightOf(u) = Higher(HeightOf(l), HeightOf(r)) + 1
    BY <2>4 DEF Fine
  <2> HIDE DEF l, r, Shown
  <2>a. /\ Depth[l] = HeightOf(l) \/ Depth[l] = HeightOf(l) + 1
        /\ Depth[r] = HeightOf(r) \/ Depth[r] = HeightOf(r) + 1
    BY <2>2, <2>3
  <2>6. Depth[u] - HeightOf(u) \in {0, 1} /\ DeltaOf(u) \in -1 .. 1
    <3>1. CASE l = NoTree /\ r = NoTree /\ HeightOf(u) = 0
      BY <2>1, <2>3, <2>4, <3>1 DEF Higher
    <3>2. CASE DeltaOf(u) \in -1 .. 1 /\ HeightOf(u) = Higher(HeightOf(l), HeightOf(r)) + 1
      BY <2>1, <2>3, <2>a, <3>2 DEF Higher
    <3> QED BY <2>5, <3>1, <3>2
  <2> QED BY <2>1, <2>2, <2>6 DEF Close
<1> HIDE DEF Shown
<1>3. Tree \subseteq Shown
  BY <1>1, <1>2, TreeInduction
<1> QED BY <1>3 DEF Shown, Sound

-----------------------------------------------------------------------------
(* The tree is sound and as many items are in it as were added, in the     *)
(* order of their keys: one more always finds room.                        *)
TreeInv ==
    /\ order \in {"<", "<=", ">"} /\ added \in 0 .. MaxItems
    /\ Sound(root)
    /\ (root = NoTree) <=> (added = 0)
    /\ added > 0 => HeightOf(root) + 1 <= added
    /\ InKeyOrder(InOrder[root]) /\ Len(InOrder[root]) = added

LEMMA TreeInitially == TreeInit => TreeInv /\ Ordered!Init
<1> SUFFICES ASSUME TreeInit PROVE TreeInv /\ Ordered!Init
  OBVIOUS
<1>1. /\ Sound(NoTree) /\ InOrder[NoTree] = <<>> /\ root = NoTree /\ added = 0 /\ order \in {"<", "<=", ">"}
      /\ MaxItems \in Nat
  BY SoundNone, MaxItemsAssumption DEF TreeInit
<1>2. Len(<<>>) = 0 /\ InKeyOrder(<<>>)
  BY DEF InKeyOrder
<1> QED BY <1>1, <1>2 DEF TreeInv, Ordered!Init

LEMMA AddKeeps ==
  ASSUME TreeInv, NEW k \in TreeKey, AddItem(k)
  PROVE  /\ TreeInv'
         /\ \E i : /\ FitsAt(InOrder[root], i, KeyedItem(k, added))
                   /\ InOrder[root'] = WithItem(InOrder[root], i, KeyedItem(k, added))
<1> DEFINE x == KeyedItem(k, added)
<1>1. /\ added < MaxItems /\ MaxItems \in Nat /\ added \in Nat
      /\ root' = Insert(root, x) /\ added' = added + 1 /\ order' = order
  BY MaxItemsAssumption DEF AddItem, TreeInv
<1>2. x \in TreeItem
  BY <1>1 DEF KeyedItem, TreeItem
<1> HIDE DEF x
<1>3. Room(root) /\ Sound(root) /\ root \in Tree /\ HeightOf(root) \in Nat /\ InKeyOrder(InOrder[root])
      /\ order \in {"<", "<=", ">"}
  BY <1>1, SoundNone DEF TreeInv, Sound, Room
<1>4. Inserts(root, x)
  BY <1>2, <1>3, InsertSound
<1>5. Sound(root') /\ HeightOf(root') \in HeightOf(root) .. HeightOf(root) + 1
  BY <1>1, <1>4 DEF Inserts
<1>6. PICK i : FitsAt(InOrder[root], i, x) /\ InOrder[root'] = WithItem(InOrder[root], i, x)
  BY <1>1, <1>4 DEF Inserts, Placed
<1> DEFINE s == InOrder[root]
           q == InOrder[root']
<1>7. s \in Seq(TreeItem) /\ Len(s) = added /\ InKeyOrder(s) /\ FitsAt(s, i, x) /\ q = WithItem(s, i, x)
  BY <1>3, <1>6, InOrderIs DEF TreeInv
<1> HIDE DEF s, q
<1>8. i \in 1 .. Len(s) + 1
  BY <1>7 DEF FitsAt
<1>9. Len(q) = added + 1
  BY <1>2, <1>7, <1>8, WithItemIs
<1>10. InKeyOrder(q)
  BY <1>2, <1>3, <1>7, StaysOrdered
<1>11. root' # NoTree
  <2>1. InOrder[NoTree] = <<>> /\ Len(<<>>) = 0
    BY SoundNone
  <2> QED BY <1>1, <1>9, <2>1 DEF q
<1>12. HeightOf(root') + 1 <= added + 1
  <2>1. HeightOf(NoTree) = 0
    BY SoundNone
  <2>2. CASE added = 0
    <3>1. root = NoTree
      BY <2>2 DEF TreeInv
    <3>2. root' = TreeNode(NoTree, x, NoTree, 0)
      BY <1>1, <3>1, InsertIs
    <3> QED BY <2>2, <3>2, NodeParts
  <2>3. CASE added # 0
    <3>1. HeightOf(root) + 1 <= added
      BY <1>1, <2>3 DEF TreeInv
    <3> QED BY <1>1, <1>3, <1>5, <3>1
  <2> QED BY <2>2, <2>3
<1>13. InKeyOrder(InOrder[root])'
  BY <1>1, <1>10 DEF q, InKeyOrder, NotAfter
<1>14. TreeInv'
  BY <1>1, <1>3, <1>5, <1>9, <1>11, <1>12, <1>13 DEF TreeInv, q
<1> QED BY <1>6, <1>14 DEF x

LEMMA AddPuts ==
  ASSUME TreeInv, NEW k \in TreeKey, AddItem(k)
  PROVE  Ordered!Next
<1> DEFINE x == KeyedItem(k, added)
           s == InOrder[root]
           q == InOrder[root']
<1>1. x = <<k, Len(s)>> /\ x \in TreeItem /\ s \in Seq(TreeItem) /\ Len(s) \in Nat
  <2>1. Len(s) = added /\ added \in Nat /\ s \in Seq(TreeItem)
    BY InOrderIs, MaxItemsAssumption DEF TreeInv, Sound
  <2> QED BY <2>1 DEF KeyedItem, TreeItem
<1>2. PICK i : FitsAt(s, i, x) /\ q = WithItem(s, i, x)
  BY AddKeeps
<1>3. order' = order
  BY DEF AddItem
<1> HIDE DEF x
<1>4. i \in 1 .. Len(s) + 1
  BY <1>2 DEF FitsAt
<1>5. Mid(SubSeq(s, 1, i - 1), x, SubSeq(s, i, Len(s))) = q
  <2> HIDE DEF s
  <2> QED BY <1>1, <1>2, <1>4, InsertAtIs
<1>6. Ordered!Place(x) = i
  <2>1. Ordered!Before(x) = {j \in 1 .. Len(s) : Precedes(order, x, s[j])}
    BY <1>1 DEF Ordered!Before
  <2>2. /\ \A j \in 1 .. Len(s) : j < i => ~Precedes(order, x, s[j])
        /\ i <= Len(s) => Precedes(order, x, s[i])
    BY <1>2 DEF FitsAt
  <2> DEFINE B == {j \in 1 .. Len(s) : Precedes(order, x, s[j])}
  <2>3. Ordered!Place(x) = IF B = {} THEN Len(s) + 1 ELSE CHOOSE j \in B : \A m \in B : j <= m
    BY <2>1 DEF Ordered!Place
  <2>4. CASE i = Len(s) + 1
    <3>1. B = {}
      BY <1>1, <2>2, <2>4
    <3> HIDE DEF B
    <3> QED BY <2>3, <2>4, <3>1
  <2>5. CASE i # Len(s) + 1
    <3>1. i \in B /\ \A m \in B : i <= m
      BY <1>1, <1>4, <2>2, <2>5
    <3>a. B \subseteq Nat
      BY <1>1
    <3> HIDE DEF B
    <3>2. \A j \in B : (\A m \in B : j <= m) => j = i
      <4> SUFFICES ASSUME NEW j \in B, \A m \in B : j <= m PROVE j = i
        OBVIOUS
      <4>1. j <= i /\ i <= j /\ j \in Nat /\ i \in Nat
        BY <3>a, <3>1
      <4> QED BY <4>1
    <3>3. (CHOOSE j \in B : \A m \in B : j <= m) = i
      BY <3>1, <3>2
    <3> QED BY <2>3, <3>1, <3>3
  <2> QED BY <2>4, <2>5
<1>7. q = Ordered!S!InsertAt(s, Ordered!Place(x), x)
  BY <1>5, <1>6 DEF Ordered!S!InsertAt, Mid
<1>8. Ordered!Put(x)
  BY <1>3, <1>7 DEF Ordered!Put
<1> QED BY <1>1, <1>8 DEF Ordered!Next

LEMMA TreeStep == TreeInv /\ [TreeNext]_treeVars => TreeInv' /\ [Ordered!Next]_<<InOrder[root], order>>
<1> SUFFICES ASSUME TreeInv, [TreeNext]_treeVars
             PROVE  TreeInv' /\ [Ordered!Next]_<<InOrder[root], order>>
  OBVIOUS
<1>1. CASE \E k \in TreeKey : AddItem(k)
  BY <1>1, AddKeeps, AddPuts
<1>2. CASE UNCHANGED <<root, order, added>>
  BY <1>2 DEF TreeInv, InKeyOrder, NotAfter
<1>3. UNCHANGED <<root, order, added>> \/ \E k \in TreeKey : AddItem(k)
  BY DEF TreeNext, FindItem, RemoveItem, NotUnderstood, treeVars
<1> QED BY <1>1, <1>2, <1>3

(* Every tree that add: makes, from any keys in any order, records heights *)
(* that balance it and has the items added, sorted.                        *)
THEOREM TreesSound == TreeSpec => []TreeInv
<1>1. TreeInit => TreeInv
  BY TreeInitially
<1>2. TreeInv /\ [TreeNext]_treeVars => TreeInv'
  BY TreeStep
<1> QED BY <1>1, <1>2, PTL DEF TreeSpec

(* The recorded heights are the numbers of levels or one less, and those   *)
(* of siblings differ by one at most: add: and its rotations never lose    *)
(* count, though a new leaf is counted late.                               *)
THEOREM TreesNearlyBalanced == TreeSpec => []NearlyBalanced
<1>1. TreeInv => NearlyBalanced
  BY DepthsClose DEF TreeInv, NearlyBalanced, Close
<1> QED BY <1>1, TreesSound, PTL

(* What do: gives is a sorted sequence into which add: puts each item      *)
(* before the first it precedes: no rotation loses, repeats or moves one.  *)
THEOREM TreesSorted == TreeSpec => OrderedSpec
<1>1. TreeInit => Ordered!Init
  BY TreeInitially
<1>2. TreeInv /\ [TreeNext]_treeVars => [Ordered!Next]_<<InOrder[root], order>>
  BY TreeStep
<1> QED BY <1>1, <1>2, TreesSound, PTL DEF TreeSpec, OrderedSpec, Ordered!Spec
=============================================================================
