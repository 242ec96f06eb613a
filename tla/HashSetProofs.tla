----------------------------- MODULE HashSetProofs -----------------------------
(***************************************************************************)
(* Proofs about HashSet, for any elements, any hash and arrays of any      *)
(* length, and about the dictionaries that inherit its scan and its repair *)
(* of collisions.  Slots are compared by how far they are from one         *)
(* another, going round the end of the array (Gap): a scan reaches the     *)
(* slot of an element because no slot that is nearer to its hash is empty  *)
(* (Orderly).  While fixCollisionsFrom: runs, only the elements it has     *)
(* still to come to may have an empty slot on their way, and only one it   *)
(* has passed (Mending).  A dictionary keeps its keys in that way (Kept);  *)
(* dictionaries share associations, and what lets addAll: read one while   *)
(* it writes another is that an association never has two keys (OneKey).   *)
(***************************************************************************)
EXTENDS Dictionary, FunctionTheorems, FiniteSetTheorems, TLAPS

Cell == Element \cup {Nil}
Array(n) == {a \in Seq(Cell) : Len(a) = n}

\* How many places slot j comes after slot i, of n slots.
Gap(n, i, j) == IF i <= j THEN j - i ELSE j - i + n

\* The slot a scan for x begins at, of n.
Home(n, x) == (Hash[x] % n) + 1

\* A scan for x ends at p.
Ends(a, x, p) ==
  /\ p \in 1 .. Len(a) /\ Matches(a, p, x)
  /\ \A q \in 1 .. Len(a) :
       Gap(Len(a), Home(Len(a), x), q) < Gap(Len(a), Home(Len(a), x), p) => ~Matches(a, q, x)

\* No element is there twice, and no empty slot is on the way to one.
Distinct(a) == \A i, j \in 1 .. Len(a) : a[i] # Nil /\ a[i] = a[j] => i = j
Reached(a) ==
  \A p, q \in 1 .. Len(a) :
    a[p] # Nil /\ Gap(Len(a), Home(Len(a), a[p]), q) < Gap(Len(a), Home(Len(a), a[p]), p) => a[q] # Nil
Orderly(a) == Distinct(a) /\ Reached(a)
Free(a) == \E i \in 1 .. Len(a) : a[i] = Nil
-----------------------------------------------------------------------------
(* Induction along numbers, and functions defined by it.                   *)

LEMMA Least ==
  ASSUME NEW T \in SUBSET Nat, T # {}
  PROVE  \E m \in T : \A n \in T : m <= n
<1> DEFINE R == StrictSubsetOrdering(Nat)
           U == {0 .. n : n \in T}
<1>1. IsWellFoundedOn(R, FiniteSubsetsOf(Nat))
  BY FS_StrictSubsetOrderingWellFounded
<1>2. U \subseteq FiniteSubsetsOf(Nat)
  <2> SUFFICES ASSUME NEW n \in T PROVE 0 .. n \in FiniteSubsetsOf(Nat)
    OBVIOUS
  <2>1. IsFiniteSet(0 .. n)
    BY FS_Interval
  <2> QED BY <2>1 DEF FiniteSubsetsOf
<1>3. U # {}
  OBVIOUS
<1>4. \A s, t \in SUBSET Nat : <<s, t>> \in R <=> s \subseteq t /\ s # t
  BY DEF StrictSubsetOrdering
<1> HIDE DEF R, U
<1>5. PICK x \in U : \A y \in U : ~(<<y, x>> \in R)
  BY <1>1, <1>2, <1>3, WFMin
<1>6. PICK m \in T : x = 0 .. m
  BY DEF U
<1>7. \A n \in T : ~(n < m)
  <2> SUFFICES ASSUME NEW n \in T, n < m PROVE FALSE
    OBVIOUS
  <2> DEFINE A == 0 .. n
             B == 0 .. m
  <2>1. A \in U /\ B = x
    BY <1>6 DEF U
  <2>2. m \in B /\ m \notin A /\ A \subseteq B /\ A \in SUBSET Nat /\ B \in SUBSET Nat
    OBVIOUS
  <2> HIDE DEF A, B
  <2>3. <<A, B>> \in R
    BY <2>2, <1>4
  <2> QED BY <2>1, <2>3, <1>5
<1> QED BY <1>7

LEMMA Steps ==
  ASSUME NEW n \in Nat, NEW T, 0 \in T, \A k \in 1 .. n : k - 1 \in T => k \in T
  PROVE  \A k \in 0 .. n : k \in T
<1> DEFINE bad == {k \in 0 .. n : k \notin T}
<1> SUFFICES ASSUME bad # {} PROVE FALSE
  OBVIOUS
<1>1. PICK m \in bad : \A k \in bad : m <= k
  <2>1. bad \in SUBSET Nat
    OBVIOUS
  <2> HIDE DEF bad
  <2> QED BY <2>1, Least
<1>2. m \in 1 .. n /\ m - 1 \in 0 .. n
  <2>1. m # 0
    OBVIOUS
  <2> QED BY <2>1
<1>3. m - 1 \notin bad
  BY <1>1, <1>2
<1> QED BY <1>2, <1>3

Unfolds(h, S, b, n, F) ==
  h \in [0 .. n -> S] /\ h[0] = b /\ \A k \in 1 .. n : h[k] = F[<<h[k - 1], k>>]
LEMMA Recursion ==
  ASSUME NEW S, NEW b \in S, NEW n \in Nat, NEW F \in [S \X (1 .. n) -> S]
  PROVE  \E h : Unfolds(h, S, b, n, F)
<1> DEFINE Defined(m) == \E h \in [0 .. m -> S] : h[0] = b /\ \A k \in 1 .. m : h[k] = F[<<h[k - 1], k>>]
           T == {m \in 0 .. n : Defined(m)}
<1>1. 0 \in T
  <2> DEFINE h == [k \in 0 .. 0 |-> b]
  <2>1. h \in [0 .. 0 -> S] /\ h[0] = b /\ \A k \in 1 .. 0 : h[k] = F[<<h[k - 1], k>>]
    OBVIOUS
  <2> HIDE DEF h
  <2>2. Defined(0)
    BY <2>1
  <2> HIDE DEF Defined
  <2> QED BY <2>2
<1>2. ASSUME NEW m \in 1 .. n, m - 1 \in T PROVE m \in T
  <2>1. PICK g \in [0 .. m - 1 -> S] :
          g[0] = b /\ \A k \in 1 .. m - 1 : g[k] = F[<<g[k - 1], k>>]
    BY <1>2
  <2> DEFINE h == [k \in 0 .. m |-> IF k = m THEN F[<<g[m - 1], m>>] ELSE g[k]]
  <2>2. m - 1 \in 0 .. m - 1 /\ g[m - 1] \in S /\ <<g[m - 1], m>> \in S \X (1 .. n)
    BY <2>1
  <2>3. F[<<g[m - 1], m>>] \in S
    BY <2>2
  <2>4. \A k \in 0 .. m : k = m \/ k \in 0 .. m - 1
    OBVIOUS
  <2>5. h \in [0 .. m -> S]
    BY <2>1, <2>3, <2>4
  <2>6. h[0] = b /\ h[m] = F[<<g[m - 1], m>>] /\ \A k \in 0 .. m - 1 : h[k] = g[k]
    BY <2>1
  <2> HIDE DEF h
  <2>7. \A k \in 1 .. m : h[k] = F[<<h[k - 1], k>>]
    <3> SUFFICES ASSUME NEW k \in 1 .. m PROVE h[k] = F[<<h[k - 1], k>>]
      OBVIOUS
    <3>1. CASE k = m
      BY <2>2, <2>6, <3>1
    <3>2. CASE k # m
      <4>1. k \in 1 .. m - 1 /\ k \in 0 .. m - 1 /\ k - 1 \in 0 .. m - 1
        BY <3>2
      <4> QED BY <4>1, <2>1, <2>6
    <3> QED BY <3>1, <3>2
  <2>8. Defined(m)
    BY <2>5, <2>6, <2>7
  <2> QED BY <2>8
<1>3. \A k \in 0 .. n : k \in T
  <2> HIDE DEF T
  <2> QED BY <1>1, <1>2, Steps
<1>4. n \in T
  <2> HIDE DEF T
  <2> QED BY <1>3
<1> QED BY <1>4 DEF Unfolds
-----------------------------------------------------------------------------
(* Gaps and scans.                                                         *)

LEMMA GapsApart ==
  ASSUME NEW n \in Nat \ {0}, NEW i \in 1 .. n, NEW j \in 1 .. n, NEW k \in 1 .. n,
         Gap(n, i, j) = Gap(n, i, k)
  PROVE  j = k
BY DEF Gap

\* On the way from h to r, past q: if r does not come between q and z, as
\* seen from p, then z comes before r.
LEMMA Crosses ==
  ASSUME NEW n \in Nat \ {0}, NEW p \in 1 .. n, NEW h \in 1 .. n, NEW q \in 1 .. n, NEW r \in 1 .. n,
         NEW z \in 1 .. n, Gap(n, p, q) < Gap(n, p, z), r # z, Gap(n, h, q) < Gap(n, h, r),
         ~(Gap(n, p, q) < Gap(n, p, r) /\ Gap(n, p, r) < Gap(n, p, z))
  PROVE  Gap(n, h, z) < Gap(n, h, r)
BY DEF Gap

LEMMA HomeThere ==
  ASSUME NEW n \in Nat \ {0}, NEW x \in Element
  PROVE  Home(n, x) \in 1 .. n
<1>1. Hash[x] \in Nat
  BY HashSetAssumption
<1> QED BY <1>1 DEF Home

LEMMA ScanEnds ==
  ASSUME NEW n \in Nat \ {0}, NEW a, Len(a) = n, NEW x \in Element
  PROVE  /\ \A p : Ends(a, x, p) => ScanFor(a, x) = p
         /\ (\E i \in 1 .. n : Matches(a, i, x)) => Ends(a, x, ScanFor(a, x))
<1> DEFINE h == Home(n, x)
           at == {k \in 0 .. (n - 1) : Matches(a, After(a, h, k), x)}
           first == CHOOSE k \in at : \A j \in at : k <= j
<1>1. ScanFor(a, x) = IF at = {} THEN 0 ELSE After(a, h, first)
  BY DEF ScanFor, ScanStart, Home
<1>2. h \in 1 .. n
  BY HomeThere
<1> HIDE DEF h
<1>3. /\ \A k \in 0 .. n - 1 : After(a, h, k) \in 1 .. n /\ Gap(n, h, After(a, h, k)) = k
      /\ \A j \in 1 .. n : Gap(n, h, j) \in 0 .. n - 1 /\ After(a, h, Gap(n, h, j)) = j
  BY <1>2 DEF Gap, After
<1>4. ASSUME NEW p, Ends(a, x, p) PROVE ScanFor(a, x) = p
  <2>1. p \in 1 .. n /\ Matches(a, p, x)
        /\ \A q \in 1 .. n : Gap(n, h, q) < Gap(n, h, p) => ~Matches(a, q, x)
    BY <1>4 DEF Ends, h
  <2> DEFINE k == Gap(n, h, p)
  <2>2. k \in at
    BY <1>3, <2>1
  <2>3. \A j \in at : k <= j
    BY <1>3, <2>1, <2>2
  <2> HIDE DEF at, k
  <2>4. at \subseteq 0 .. (n - 1)
    BY DEF at
  <2>5. first \in at /\ \A j \in at : first <= j
    BY <2>2, <2>3
  <2>6. first \in 0 .. (n - 1) /\ k \in 0 .. (n - 1) /\ first <= k /\ k <= first
    BY <2>2, <2>3, <2>4, <2>5
  <2> HIDE DEF first
  <2>7. first = k
    BY <2>6
  <2> QED BY <1>1, <1>3, <2>1, <2>2, <2>7 DEF k
<1>5. ASSUME NEW i \in 1 .. n, Matches(a, i, x) PROVE Ends(a, x, ScanFor(a, x))
  <2>1. at # {} /\ at \in SUBSET Nat
    BY <1>3, <1>5
  <2>2. first \in at /\ \A j \in at : first <= j
    <3> HIDE DEF at
    <3> QED BY <2>1, Least
  <2> HIDE DEF first
  <2>3. ScanFor(a, x) = After(a, h, first) /\ first \in 0 .. (n - 1) /\ Matches(a, After(a, h, first), x)
    BY <1>1, <2>1, <2>2
  <2>4. ASSUME NEW q \in 1 .. n, Gap(n, h, q) < first PROVE ~Matches(a, q, x)
    BY <1>3, <2>2, <2>3, <2>4
  <2> QED BY <1>3, <2>3, <2>4 DEF Ends, h
<1> QED BY <1>4, <1>5

\* In an orderly array every element is where a scan for it ends; in one with
\* an empty slot a scan for anything else ends at such a slot.
LEMMA Scans ==
  ASSUME NEW n \in Nat \ {0}, NEW a \in Array(n), Orderly(a)
  PROVE  /\ \A i \in 1 .. n : a[i] # Nil => a[i] \in Element /\ ScanFor(a, a[i]) = i
         /\ \A x \in Element : Free(a) =>
              /\ ScanFor(a, x) \in 1 .. n
              /\ x \in Elements(a) => a[ScanFor(a, x)] = x
              /\ x \notin Elements(a) => a[ScanFor(a, x)] = Nil /\ Ends(a, x, ScanFor(a, x))
<1>1. /\ Len(a) = n /\ DOMAIN a = 1 .. n /\ \A i \in 1 .. n : a[i] \in Element \cup {Nil}
      /\ Nil \notin Element
  BY HashSetAssumption DEF Array, Cell
<1>2. ASSUME NEW i \in 1 .. n, a[i] # Nil PROVE a[i] \in Element /\ ScanFor(a, a[i]) = i
  <2>1. a[i] \in Element
    BY <1>1, <1>2
  <2>2. Ends(a, a[i], i)
    <3>1. ASSUME NEW q \in 1 .. n, Gap(n, Home(n, a[i]), q) < Gap(n, Home(n, a[i]), i)
          PROVE  ~Matches(a, q, a[i])
      <4>1. a[q] # Nil
        BY <1>1, <1>2, <3>1 DEF Orderly, Reached
      <4>2. a[q] # a[i]
        <5> SUFFICES ASSUME a[q] = a[i] PROVE FALSE
          OBVIOUS
        <5>1. q = i
          BY <1>1, <1>2 DEF Orderly, Distinct
        <5>2. Gap(n, Home(n, a[i]), i) \in Int
          BY <2>1, HomeThere DEF Gap
        <5> QED BY <3>1, <5>1, <5>2
      <4> QED BY <4>1, <4>2 DEF Matches
    <3> QED BY <1>1, <3>1 DEF Ends, Matches
  <2> QED BY <1>1, <2>1, <2>2, ScanEnds
<1>3. ASSUME NEW x \in Element, Free(a)
      PROVE  /\ ScanFor(a, x) \in 1 .. n
             /\ x \in Elements(a) => a[ScanFor(a, x)] = x
             /\ x \notin Elements(a) => a[ScanFor(a, x)] = Nil /\ Ends(a, x, ScanFor(a, x))
  <2>1. Ends(a, x, ScanFor(a, x))
    <3>1. \E i \in 1 .. n : Matches(a, i, x)
      BY <1>1, <1>3 DEF Free, Matches
    <3> QED BY <1>1, <3>1, ScanEnds
  <2>2. ScanFor(a, x) \in 1 .. n /\ a[ScanFor(a, x)] \in {Nil, x}
    BY <1>1, <2>1 DEF Ends, Matches
  <2>3. x \in Elements(a) => a[ScanFor(a, x)] = x
    BY <1>1, <1>2 DEF Elements
  <2>4. x \notin Elements(a) => a[ScanFor(a, x)] = Nil
    BY <1>1, <2>2 DEF Elements
  <2> QED BY <2>1, <2>2, <2>3, <2>4
<1> QED BY <1>2, <1>3

LEMMA StoredThere ==
  ASSUME NEW n \in Nat \ {0}, NEW a \in Array(n), NEW p \in 1 .. n, NEW c \in Cell
  PROVE  /\ Stored(a, p, c) \in Array(n) /\ Stored(a, p, c)[p] = c
         /\ \A i \in 1 .. n : i # p => Stored(a, p, c)[i] = a[i]
BY DEF Array, Stored

\* An element is put where the scan for it ended.
LEMMA StoredKeeps ==
  ASSUME NEW n \in Nat \ {0}, NEW a \in Array(n), Orderly(a), Free(a),
         NEW x \in Element, x \notin Elements(a)
  PROVE  LET b == Stored(a, ScanFor(a, x), x)
         IN  b \in Array(n) /\ Orderly(b) /\ Elements(b) = Elements(a) \cup {x}
<1> DEFINE p == ScanFor(a, x)
           b == Stored(a, p, x)
<1>1. p \in 1 .. n /\ a[p] = Nil /\ Ends(a, x, p)
  BY Scans
<1>2. /\ Len(a) = n /\ DOMAIN a = 1 .. n /\ x # Nil /\ x \in Cell
  BY HashSetAssumption DEF Array, Cell
<1> HIDE DEF p
<1>3. /\ b \in Array(n) /\ b[p] = x /\ \A i \in 1 .. n : i # p => b[i] = a[i]
  BY <1>1, <1>2, StoredThere
<1> HIDE DEF b
<1>4. Len(b) = n /\ DOMAIN b = 1 .. n
  BY <1>3 DEF Array
<1>5. Elements(b) = Elements(a) \cup {x}
  BY <1>1, <1>2, <1>3, <1>4 DEF Elements
<1>6. \A i \in 1 .. n : a[i] # x
  BY <1>2 DEF Elements
<1>7. Distinct(b)
  BY <1>1, <1>2, <1>3, <1>4, <1>6 DEF Distinct, Orderly
<1>8. Reached(b)
  <2> SUFFICES ASSUME NEW i \in 1 .. n, NEW q \in 1 .. n, b[i] # Nil,
                      Gap(n, Home(n, b[i]), q) < Gap(n, Home(n, b[i]), i)
               PROVE  b[q] # Nil
    BY <1>4 DEF Reached
  <2>1. CASE i = p
    <3>1. ~Matches(a, q, x)
      BY <1>1, <1>2, <1>3, <2>1 DEF Ends
    <3> QED BY <1>2, <1>3, <3>1 DEF Matches
  <2>2. CASE i # p
    <3>1. a[q] # Nil
      BY <1>2, <1>3, <2>2 DEF Reached, Orderly
    <3> QED BY <1>2, <1>3, <3>1
  <2> QED BY <2>1, <2>2
<1> QED BY <1>3, <1>5, <1>7, <1>8 DEF Orderly, b, p
-----------------------------------------------------------------------------
(* How many elements there are.                                            *)

LEMMA Counted ==
  ASSUME NEW n \in Nat, NEW a \in Array(n)
  PROVE  /\ IsFiniteSet(Elements(a)) /\ Cardinality(Elements(a)) \in Nat
         /\ Cardinality(Elements(a)) <= n
         /\ Distinct(a) /\ Cardinality(Elements(a)) < n => Free(a)
<1>1. Len(a) = n /\ DOMAIN a = 1 .. n
  BY DEF Array
<1>2. IsFiniteSet(1 .. n) /\ Cardinality(1 .. n) = n
  BY FS_Interval
<1> DEFINE I == {i \in 1 .. n : a[i] # Nil}
           E == Elements(a)
           f == [i \in I |-> a[i]]
<1>3. E = {a[i] : i \in I}
  BY <1>1 DEF Elements
<1>4. IsFiniteSet(I) /\ Cardinality(I) <= n
  <2> HIDE DEF I
  <2>1. I \in SUBSET (1 .. n)
    BY DEF I
  <2> QED BY <1>2, <2>1, FS_Subset
<1>5. f \in Surjection(I, E)
  BY <1>3 DEF Surjection
<1>6. IsFiniteSet(E) /\ Cardinality(E) <= Cardinality(I)
  <2> HIDE DEF I, E, f
  <2> QED BY <1>4, <1>5, FS_Surjection
<1>7. Cardinality(I) \in Nat /\ Cardinality(E) \in Nat
  <2> HIDE DEF I, E
  <2> QED BY <1>4, <1>6, FS_CardinalityType
<1>8. ASSUME Distinct(a), ~Free(a) PROVE n <= Cardinality(E)
  <2>1. I = 1 .. n
    BY <1>1, <1>8 DEF Free
  <2>2. f \in Injection(1 .. n, E)
    <3>1. \A i, j \in 1 .. n : a[i] = a[j] => i = j
      BY <1>1, <1>8 DEF Distinct, Free
    <3>2. f \in [1 .. n -> E] /\ \A i \in 1 .. n : f[i] = a[i]
      BY <1>3, <2>1
    <3> HIDE DEF f, E, I
    <3> QED BY <3>1, <3>2 DEF Injection, IsInjective
  <2> HIDE DEF I, E, f
  <2> QED BY <1>2, <1>6, <2>2, FS_Injection
<1> HIDE DEF I, f
<1> QED BY <1>4, <1>6, <1>7, <1>8
-----------------------------------------------------------------------------
(* grow: has the same elements, in order, in twice the room.               *)

LEMMA StoredAnywhere ==
  ASSUME NEW n \in Nat, NEW a \in Array(n), NEW p, NEW c \in Cell
  PROVE  Stored(a, p, c) \in Array(n)
<1>1. a \in [1 .. n -> Cell]
  BY DEF Array
<1>2. Stored(a, p, c) \in [1 .. n -> Cell]
  BY <1>1 DEF Stored
<1> HIDE DEF Cell
<1>3. \A f \in [1 .. n -> Cell] : f \in Seq(Cell) /\ Len(f) = n
  OBVIOUS
<1> QED BY <1>2, <1>3 DEF Array

LEMMA EmptyThere ==
  ASSUME NEW n \in Nat
  PROVE  /\ Empty(n) \in Array(n) /\ Orderly(Empty(n)) /\ Elements(Empty(n)) = {}
         /\ n > 0 => Free(Empty(n))
<1>1. Empty(n) \in Array(n) /\ Len(Empty(n)) = n /\ DOMAIN Empty(n) = 1 .. n
      /\ \A i \in 1 .. n : Empty(n)[i] = Nil
  <2>1. Empty(n) \in [1 .. n -> Cell] /\ \A i \in 1 .. n : Empty(n)[i] = Nil
    BY DEF Empty, Cell
  <2> HIDE DEF Cell
  <2>2. \A f \in [1 .. n -> Cell] : f \in Seq(Cell) /\ Len(f) = n /\ DOMAIN f = 1 .. n
    OBVIOUS
  <2> QED BY <2>1, <2>2 DEF Array
<1> QED BY <1>1 DEF Orderly, Distinct, Reached, Free, Elements

LEMMA NoCheckAddKeeps ==
  ASSUME NEW n \in Nat \ {0}, NEW t \in [slots : Array(n), tally : Nat], NEW x \in Cell
  PROVE  /\ NoCheckAdd(t, x) \in [slots : Array(n), tally : Nat]
         /\ Orderly(t.slots) /\ Free(t.slots) /\ x \notin Elements(t.slots)
              /\ t.tally = Cardinality(Elements(t.slots)) =>
            LET u == NoCheckAdd(t, x)
            IN  /\ Orderly(u.slots) /\ Elements(u.slots) = Elements(t.slots) \cup ({x} \ {Nil})
                /\ u.tally = Cardinality(Elements(u.slots))
<1> DEFINE b == Stored(t.slots, ScanFor(t.slots, x), x)
<1>1. CASE x = Nil
  BY <1>1 DEF NoCheckAdd
<1>2. CASE x # Nil
  <2>1. NoCheckAdd(t, x) = [slots |-> b, tally |-> t.tally + 1] /\ b \in Array(n) /\ x \in Element
    BY <1>2, StoredAnywhere DEF NoCheckAdd, Cell
  <2>2. ASSUME Orderly(t.slots), Free(t.slots), x \notin Elements(t.slots)
        PROVE  Orderly(b) /\ Elements(b) = Elements(t.slots) \cup {x}
               /\ Cardinality(Elements(b)) = Cardinality(Elements(t.slots)) + 1
    <3>1. Orderly(b) /\ Elements(b) = Elements(t.slots) \cup {x}
      BY <2>1, <2>2, StoredKeeps
    <3>2. IsFiniteSet(Elements(t.slots))
      BY Counted
    <3> QED BY <2>2, <3>1, <3>2, FS_AddElement
  <2> HIDE DEF b
  <2> QED BY <1>2, <2>1, <2>2
<1> QED BY <1>1, <1>2

LEMMA GrownKeeps ==
  ASSUME NEW n \in Nat \ {0}, NEW a \in Array(n), Distinct(a)
  PROVE  /\ Grown(a).slots \in Array(2 * n) /\ Orderly(Grown(a).slots) /\ Free(Grown(a).slots)
         /\ Elements(Grown(a).slots) = Elements(a)
         /\ Grown(a).tally = Cardinality(Elements(a))
<1> DEFINE T == [slots : Array(2 * n), tally : Nat]
           b == [slots |-> Empty(2 * n), tally |-> 0]
           F == [sk \in T \X (1 .. n) |-> NoCheckAdd(sk[1], a[sk[2]])]
           step(g, k) == IF k = 0 THEN b ELSE NoCheckAdd(g[k - 1], a[k])
           added == CHOOSE g : g = [k \in 0 .. n |-> step(g, k)]
           First(k) == {a[i] : i \in 1 .. k} \ {Nil}
<1>1. Len(a) = n /\ DOMAIN a = 1 .. n /\ 2 * n \in Nat \ {0} /\ \A i \in 1 .. n : a[i] \in Cell
  BY DEF Array
<1>2. Grown(a) = added[n]
  BY <1>1 DEF Grown, Reinserted
<1>3. b \in T /\ F \in [T \X (1 .. n) -> T]
  <2>1. b \in T
    BY <1>1, EmptyThere
  <2>2. ASSUME NEW t \in T, NEW k \in 1 .. n PROVE NoCheckAdd(t, a[k]) \in T
    BY <1>1, NoCheckAddKeeps
  <2> HIDE DEF T
  <2> QED BY <2>1, <2>2
<1>4. added[0] = b /\ \A k \in 1 .. n : added[k] = NoCheckAdd(added[k - 1], a[k])
  <2>1. PICK h \in [0 .. n -> T] : h[0] = b /\ \A k \in 1 .. n : h[k] = F[<<h[k - 1], k>>]
    <3>1. n \in Nat
      OBVIOUS
    <3> HIDE DEF T, b, F
    <3>2. \E h : Unfolds(h, T, b, n, F)
      BY <1>3, <3>1, Recursion
    <3> QED BY <3>2 DEF Unfolds
  <2>2. ASSUME NEW k \in 1 .. n PROVE h[k] = NoCheckAdd(h[k - 1], a[k])
    <3>1. k - 1 \in 0 .. n /\ <<h[k - 1], k>> \in T \X (1 .. n)
      BY <2>1
    <3> QED BY <2>1, <3>1
  <2>3. h = [k \in 0 .. n |-> step(h, k)]
    <3>1. \A k \in 0 .. n : h[k] = step(h, k)
      BY <2>1, <2>2
    <3> HIDE DEF step
    <3> QED BY <2>1, <3>1
  <2>4. added = [k \in 0 .. n |-> step(added, k)]
    <3> HIDE DEF step
    <3> QED BY <2>3
  <2> HIDE DEF added
  <2>5. \A k \in 0 .. n : added[k] = step(added, k)
    <3> HIDE DEF step
    <3> QED BY <2>4
  <2> QED BY <2>5
<1> HIDE DEF added, F
<1> DEFINE Good(k) == /\ added[k] \in T /\ Orderly(added[k].slots)
                      /\ Elements(added[k].slots) = First(k)
                      /\ added[k].tally = Cardinality(Elements(added[k].slots))
           G == {k \in 0 .. n : Good(k)}
<1>5. \A k \in 0 .. n : IsFiniteSet(First(k)) /\ First(k) \subseteq Elements(a)
                        /\ Cardinality(First(k)) \in Nat /\ Cardinality(First(k)) <= n
  <2> SUFFICES ASSUME NEW k \in 0 .. n
               PROVE  IsFiniteSet(First(k)) /\ First(k) \subseteq Elements(a)
                      /\ Cardinality(First(k)) \in Nat /\ Cardinality(First(k)) <= n
    OBVIOUS
  <2>1. First(k) \in SUBSET Elements(a)
    BY <1>1 DEF Elements
  <2> HIDE DEF First
  <2>2. IsFiniteSet(Elements(a)) /\ Cardinality(Elements(a)) <= n /\ Cardinality(Elements(a)) \in Nat
    BY Counted
  <2>3. IsFiniteSet(First(k)) /\ Cardinality(First(k)) <= Cardinality(Elements(a))
    BY <2>1, <2>2, FS_Subset
  <2>4. Cardinality(First(k)) \in Nat
    BY <2>3, FS_CardinalityType
  <2> QED BY <2>1, <2>2, <2>3, <2>4
<1>6. ASSUME NEW k \in 0 .. n, Good(k) PROVE Free(added[k].slots)
  <2>1. Cardinality(Elements(added[k].slots)) < 2 * n
    BY <1>5, <1>6
  <2>2. added[k].slots \in Array(2 * n) /\ Distinct(added[k].slots)
    BY <1>6 DEF Orderly
  <2> QED BY <1>1, <2>1, <2>2, Counted
<1>7. 0 \in G
  <2>1. First(0) = {}
    OBVIOUS
  <2>2. b.tally = Cardinality(Elements(b.slots)) /\ Orderly(b.slots) /\ Elements(b.slots) = {}
    BY <1>1, EmptyThere, FS_EmptySet
  <2> QED BY <1>3, <1>4, <2>1, <2>2
<1>8. ASSUME NEW k \in 1 .. n, k - 1 \in G PROVE k \in G
  <2>1. k - 1 \in 0 .. n /\ k \in 0 .. n /\ Good(k - 1)
    BY <1>8
  <2>2. added[k] = NoCheckAdd(added[k - 1], a[k])
    BY <1>4
  <2>3. Free(added[k - 1].slots) /\ a[k] \in Cell
    BY <1>1, <1>6, <2>1
  <2>4. a[k] \notin First(k - 1)
    <3> SUFFICES ASSUME NEW i \in 1 .. k - 1, a[i] = a[k], a[k] # Nil PROVE FALSE
      OBVIOUS
    <3> QED BY <1>1 DEF Distinct
  <2>5. First(k) = First(k - 1) \cup ({a[k]} \ {Nil})
    <3>1. 1 .. k = (1 .. k - 1) \cup {k}
      OBVIOUS
    <3> QED BY <3>1
  <2> HIDE DEF First
  <2>6. added[k] \in T /\ Orderly(added[k].slots)
        /\ Elements(added[k].slots) = Elements(added[k - 1].slots) \cup ({a[k]} \ {Nil})
        /\ added[k].tally = Cardinality(Elements(added[k].slots))
    <3> DEFINE t == added[k - 1]
               x == a[k]
               m == 2 * n
    <3>1. m \in Nat \ {0} /\ t \in [slots : Array(m), tally : Nat] /\ x \in Cell
          /\ Orderly(t.slots) /\ Free(t.slots) /\ x \notin Elements(t.slots)
          /\ t.tally = Cardinality(Elements(t.slots)) /\ added[k] = NoCheckAdd(t, x)
      <4>1. x \notin Elements(t.slots)
        BY <2>1, <2>4
      <4> QED BY <1>1, <2>1, <2>2, <2>3, <4>1
    <3> HIDE DEF t, x, m
    <3>2. /\ NoCheckAdd(t, x) \in [slots : Array(m), tally : Nat]
          /\ Orderly(NoCheckAdd(t, x).slots)
          /\ Elements(NoCheckAdd(t, x).slots) = Elements(t.slots) \cup ({x} \ {Nil})
          /\ NoCheckAdd(t, x).tally = Cardinality(Elements(NoCheckAdd(t, x).slots))
      BY <3>1, NoCheckAddKeeps
    <3> QED BY <3>1, <3>2 DEF t, x, m
  <2> QED BY <2>1, <2>5, <2>6
<1>9. Good(n)
  <2>1. \A k \in 0 .. n : k \in G
    <3> HIDE DEF G
    <3> QED BY <1>7, <1>8, Steps
  <2>2. n \in G
    <3>1. n \in 0 .. n
      OBVIOUS
    <3> HIDE DEF G
    <3> QED BY <2>1, <3>1
  <2> HIDE DEF Good
  <2> QED BY <2>2
<1>10. First(n) = Elements(a)
  BY <1>1 DEF Elements
<1> HIDE DEF First
<1> QED BY <1>2, <1>6, <1>9, <1>10

\* Putting in what is not there: the count goes up by one, and if the array is
\* not full then, a slot is left.
LEMMA InsertKeeps ==
  ASSUME NEW n \in Nat \ {0}, NEW a \in Array(n), Orderly(a), Free(a),
         NEW x \in Element, x \notin Elements(a), NEW m, m = Cardinality(Elements(a))
  PROVE  LET b == Stored(a, ScanFor(a, x), x)
         IN  /\ b \in Array(n) /\ Orderly(b) /\ Elements(b) = Elements(a) \cup {x}
             /\ m + 1 = Cardinality(Elements(b))
             /\ ~Full(b, m + 1) => Free(b)
             /\ Grown(b).slots \in Array(2 * n) /\ Orderly(Grown(b).slots) /\ Free(Grown(b).slots)
             /\ Elements(Grown(b).slots) = Elements(b)
             /\ Grown(b).tally = m + 1
<1> DEFINE b == Stored(a, ScanFor(a, x), x)
<1>1. b \in Array(n) /\ Orderly(b) /\ Elements(b) = Elements(a) \cup {x}
  BY StoredKeeps
<1>2. m \in Nat /\ m + 1 = Cardinality(Elements(b))
  <2>1. IsFiniteSet(Elements(a)) /\ Cardinality(Elements(a)) \in Nat
    BY Counted
  <2>2. Cardinality(Elements(a) \cup {x}) = Cardinality(Elements(a)) + 1
    BY <2>1, FS_AddElement
  <2> QED BY <1>1, <2>1, <2>2
<1> HIDE DEF b
<1>3. /\ Grown(b).slots \in Array(2 * n) /\ Orderly(Grown(b).slots) /\ Free(Grown(b).slots)
      /\ Elements(Grown(b).slots) = Elements(b) /\ Grown(b).tally = m + 1
  BY <1>1, <1>2, GrownKeeps DEF Orderly
<1>4. ASSUME ~Full(b, m + 1) PROVE Free(b)
  <2>1. \A i \in Int : Larger(1, i) \in Int /\ Larger(1, i) >= 1
    BY DEF Larger
  <2>2. ~(n - (m + 1) < Larger(1, n \div 4)) /\ n \div 4 \in Int
    BY <1>1, <1>4 DEF Full, Array
  <2> HIDE DEF Larger
  <2>3. Cardinality(Elements(b)) < n
    BY <1>2, <2>1, <2>2
  <2>4. Distinct(b) /\ n \in Nat
    BY <1>1 DEF Orderly
  <2> QED BY <1>1, <2>3, <2>4, Counted
<1> QED BY <1>1, <1>2, <1>3, <1>4 DEF b
-----------------------------------------------------------------------------
(***************************************************************************)
(* fixCollisionsFrom:, of n slots: p was emptied, z is the next empty one, *)
(* and s are the slots when all those up to k after p have been passed.    *)
(***************************************************************************)
Mending(s, n, p, z, k) ==
  /\ s \in Array(n) /\ Distinct(s) /\ s[z] = Nil
  /\ \A r \in 1 .. n : k < Gap(n, p, r) /\ Gap(n, p, r) < Gap(n, p, z) => s[r] # Nil
  /\ \A q, r \in 1 .. n :
       s[r] # Nil /\ s[q] = Nil /\ Gap(n, Home(n, s[r]), q) < Gap(n, Home(n, s[r]), r) =>
         Gap(n, p, q) <= k /\ k < Gap(n, p, r) /\ Gap(n, p, r) < Gap(n, p, z)

LEMMA GapNumber ==
  ASSUME NEW n \in Nat \ {0}, NEW i \in 1 .. n, NEW j \in 1 .. n
  PROVE  Gap(n, i, j) \in 0 .. n - 1 /\ (Gap(n, i, j) = 0 <=> i = j)
BY DEF Gap

\* The element y of slot old goes to where a scan for it ends.
LEMMA Relocates ==
  ASSUME NEW n \in Nat \ {0}, NEW p \in 1 .. n, NEW z \in 1 .. n, NEW k \in Nat,
         NEW s, Mending(s, n, p, z, k), NEW old \in 1 .. n,
         Gap(n, p, old) = k + 1, k + 1 < Gap(n, p, z)
  PROVE  LET t == Swapped(s, old, ScanFor(s, s[old]))
         IN  Mending(t, n, p, z, k + 1) /\ Elements(t) = Elements(s)
<1> DEFINE y == s[old]
           new == ScanFor(s, y)
           t == Swapped(s, old, new)
           h == Home(n, y)
<1>1. /\ s \in Array(n) /\ Distinct(s) /\ s[z] = Nil /\ Len(s) = n /\ DOMAIN s = 1 .. n
      /\ \A i \in 1 .. n : s[i] \in Element \cup {Nil}
      /\ Nil \notin Element
  BY HashSetAssumption DEF Mending, Array, Cell
<1>2. \A r \in 1 .. n : k < Gap(n, p, r) /\ Gap(n, p, r) < Gap(n, p, z) => s[r] # Nil
  BY DEF Mending
<1>3. ASSUME NEW q \in 1 .. n, NEW r \in 1 .. n, s[r] # Nil, s[q] = Nil,
             Gap(n, Home(n, s[r]), q) < Gap(n, Home(n, s[r]), r)
      PROVE  Gap(n, p, q) <= k /\ k < Gap(n, p, r) /\ Gap(n, p, r) < Gap(n, p, z)
  BY <1>3 DEF Mending
<1>4. y # Nil /\ y \in Element /\ h \in 1 .. n
  <2>1. y # Nil
    BY <1>2
  <2> QED BY <1>1, <2>1, HomeThere
<1>5. /\ new \in 1 .. n /\ s[new] \in {Nil, y}
      /\ \A q \in 1 .. n : Gap(n, h, q) < Gap(n, h, new) => s[q] # Nil /\ s[q] # y
  <2>1. Matches(s, old, y)
    BY DEF Matches
  <2>2. Ends(s, y, new)
    BY <1>1, <1>4, <2>1, ScanEnds
  <2> QED BY <1>1, <2>2 DEF Ends, Matches
<1> HIDE DEF y, new, h
<1>6. \A i, j \in 1 .. n : /\ Gap(n, i, j) \in 0 .. n - 1
                           /\ \A l \in 1 .. n : Gap(n, i, j) = Gap(n, i, l) => j = l
  BY GapNumber, GapsApart
<1>7. CASE s[new] = y
  <2>1. new = old
    BY <1>1, <1>4, <1>5, <1>7 DEF Distinct, y
  <2>2. t = s
    BY <1>1, <2>1 DEF Swapped, y, Array
  <2>3. ASSUME NEW q \in 1 .. n, NEW r \in 1 .. n, s[r] # Nil, s[q] = Nil,
               Gap(n, Home(n, s[r]), q) < Gap(n, Home(n, s[r]), r)
        PROVE  Gap(n, p, q) <= k + 1 /\ k + 1 < Gap(n, p, r) /\ Gap(n, p, r) < Gap(n, p, z)
    <3>1. Gap(n, p, q) <= k /\ k < Gap(n, p, r) /\ Gap(n, p, r) < Gap(n, p, z)
      BY <1>3, <2>3
    <3>2. r # old
      BY <1>5, <2>1, <2>3 DEF y, h
    <3>3. Gap(n, p, r) # k + 1
      BY <1>6, <3>2
    <3> QED BY <1>6, <3>1, <3>3
  <2>4. \A r \in 1 .. n : k + 1 < Gap(n, p, r) /\ Gap(n, p, r) < Gap(n, p, z) => s[r] # Nil
    BY <1>2, <1>6
  <2>5. Mending(s, n, p, z, k + 1)
    BY <1>1, <2>3, <2>4 DEF Mending
  <2> QED BY <2>2, <2>5 DEF y, new
<1>8. CASE s[new] = Nil
  <2>1. new # old /\ Gap(n, h, new) < Gap(n, h, old)
    BY <1>4, <1>5, <1>6, <1>8 DEF y
  <2>2. Gap(n, p, new) <= k
    BY <1>3, <1>4, <1>5, <1>8, <2>1 DEF y, h
  <2>3. new # z /\ old # z
    <3>1. Gap(n, p, new) \in Int /\ Gap(n, p, z) \in Int
      BY <1>5, <1>6
    <3>2. new # z
      BY <2>2, <3>1
    <3> QED BY <1>1, <1>4, <3>2 DEF y
  <2>4. /\ t \in Array(n) /\ t[new] = y /\ t[old] = Nil
        /\ \A i \in 1 .. n : i # new /\ i # old => t[i] = s[i]
    <3>1. t = [[s EXCEPT ![old] = Nil] EXCEPT ![new] = y]
      BY <1>8 DEF Swapped, y
    <3>2. Nil \in Cell /\ y \in Cell
      BY <1>4 DEF Cell
    <3> HIDE DEF Cell
    <3>3. s \in Seq(Cell) /\ Len(s) = n
      BY <1>1 DEF Array
    <3>4. t \in Seq(Cell) /\ Len(t) = n
      BY <1>5, <3>1, <3>2, <3>3
    <3>5. t[new] = y /\ t[old] = Nil /\ \A i \in 1 .. n : i # new /\ i # old => t[i] = s[i]
      BY <1>1, <1>5, <2>1, <3>1
    <3> QED BY <3>4, <3>5 DEF Array
  <2> HIDE DEF t
  <2>5. Len(t) = n /\ DOMAIN t = 1 .. n
    BY <2>4 DEF Array
  <2>6. Elements(t) = Elements(s)
    <3>1. \A e : e \in Elements(t) <=> e # Nil /\ \E i \in 1 .. n : t[i] = e
      BY <2>5 DEF Elements
    <3>2. \A e : e \in Elements(s) <=> e # Nil /\ \E i \in 1 .. n : s[i] = e
      BY <1>1 DEF Elements
    <3>3. ASSUME NEW e, e # Nil PROVE (\E i \in 1 .. n : t[i] = e) <=> (\E i \in 1 .. n : s[i] = e)
      BY <1>4, <1>5, <1>8, <2>4, <3>3 DEF y
    <3> QED BY <3>1, <3>2, <3>3
  <2>7. Distinct(t)
    BY <1>1, <1>4, <1>5, <1>8, <2>4, <2>5 DEF Distinct, y
  <2>8. t[z] = Nil /\ \A r \in 1 .. n : k + 1 < Gap(n, p, r) /\ Gap(n, p, r) < Gap(n, p, z) => t[r] # Nil
    <3>1. t[z] = Nil
      BY <1>1, <2>3, <2>4
    <3>2. ASSUME NEW r \in 1 .. n, k + 1 < Gap(n, p, r), Gap(n, p, r) < Gap(n, p, z)
          PROVE  t[r] # Nil
      <4>1. Gap(n, p, r) \in Int
        BY <1>6
      <4>2. r # old /\ k < Gap(n, p, r)
        BY <3>2, <4>1
      <4>3. s[r] # Nil
        BY <1>2, <3>2, <4>2
      <4> QED BY <1>4, <2>4, <4>2, <4>3
    <3> QED BY <3>1, <3>2
  <2>9. ASSUME NEW q \in 1 .. n, NEW r \in 1 .. n, t[r] # Nil, t[q] = Nil,
               Gap(n, Home(n, t[r]), q) < Gap(n, Home(n, t[r]), r)
        PROVE  Gap(n, p, q) <= k + 1 /\ k + 1 < Gap(n, p, r) /\ Gap(n, p, r) < Gap(n, p, z)
    <3>1. CASE r = new
      <4>1. Gap(n, h, q) < Gap(n, h, new)
        BY <2>4, <2>9, <3>1 DEF h
      <4>2. q # old /\ q # new
        BY <1>4, <1>5, <1>6, <2>1, <2>4, <2>9, <3>1, <4>1
      <4> QED BY <1>5, <2>4, <2>9, <4>1, <4>2
    <3>2. CASE r # new /\ q = old
      <4>1. r # old /\ s[r] = t[r] /\ s[r] # Nil /\ r # z
        BY <2>4, <2>8, <2>9, <3>2
      <4>2. s[r] \in Element /\ Home(n, s[r]) \in 1 .. n
        BY <1>1, <4>1, HomeThere
      <4>3. k + 1 < Gap(n, p, r) /\ Gap(n, p, r) < Gap(n, p, z)
        <5> SUFFICES ASSUME ~(k + 1 < Gap(n, p, r) /\ Gap(n, p, r) < Gap(n, p, z)) PROVE FALSE
          OBVIOUS
        <5>1. Gap(n, Home(n, s[r]), z) < Gap(n, Home(n, s[r]), r)
          BY <2>9, <3>2, <4>1, <4>2, Crosses
        <5>2. Gap(n, p, z) <= k
          BY <1>1, <1>3, <4>1, <5>1
        <5> QED BY <1>6, <5>2
      <4> QED BY <3>2, <4>3
    <3>3. CASE r # new /\ q # old
      <4>1. r # old /\ q # new /\ s[r] = t[r] /\ s[q] = t[q]
        BY <1>4, <2>4, <2>9, <3>3
      <4>2. Gap(n, p, q) <= k /\ k < Gap(n, p, r) /\ Gap(n, p, r) < Gap(n, p, z)
        BY <1>3, <2>9, <4>1
      <4>3. Gap(n, p, r) # k + 1
        BY <1>6, <4>1
      <4> QED BY <1>6, <4>2, <4>3
    <3> QED BY <3>1, <3>2, <3>3
  <2>10. Mending(t, n, p, z, k + 1)
    BY <2>4, <2>7, <2>8, <2>9 DEF Mending
  <2> QED BY <2>6, <2>10 DEF t, y, new
<1> QED BY <1>5, <1>7, <1>8

\* The slots as they are when an element was taken out of slot p.
LEMMA Emptied ==
  ASSUME NEW n \in Nat \ {0}, NEW a \in Array(n), Orderly(a), NEW p \in 1 .. n, a[p] # Nil,
         NEW z \in 1 .. n, z # p, a[z] = Nil,
         \A r \in 1 .. n : 0 < Gap(n, p, r) /\ Gap(n, p, r) < Gap(n, p, z) => a[r] # Nil
  PROVE  LET b == Stored(a, p, Nil)
         IN  Mending(b, n, p, z, 0) /\ Elements(b) = Elements(a) \ {a[p]}
<1> DEFINE b == Stored(a, p, Nil)
<1>1. /\ Len(a) = n /\ DOMAIN a = 1 .. n /\ \A i \in 1 .. n : a[i] \in Element \cup {Nil}
      /\ Distinct(a) /\ Nil \in Cell
  BY DEF Array, Cell, Orderly
<1>2. b \in Array(n) /\ b[p] = Nil /\ \A i \in 1 .. n : i # p => b[i] = a[i]
  BY <1>1, StoredThere
<1> HIDE DEF b
<1>3. Len(b) = n /\ DOMAIN b = 1 .. n
  BY <1>2 DEF Array
<1>4. Elements(b) = Elements(a) \ {a[p]}
  <2>1. \A e : e \in Elements(b) <=> e # Nil /\ \E i \in 1 .. n : b[i] = e
    BY <1>3 DEF Elements
  <2>2. \A e : e \in Elements(a) <=> e # Nil /\ \E i \in 1 .. n : a[i] = e
    BY <1>1 DEF Elements
  <2>3. ASSUME NEW e, e # Nil
        PROVE  (\E i \in 1 .. n : b[i] = e) <=> (e # a[p] /\ \E i \in 1 .. n : a[i] = e)
    BY <1>1, <1>2, <2>3 DEF Distinct
  <2> QED BY <2>1, <2>2, <2>3
<1>5. Distinct(b) /\ b[z] = Nil
  BY <1>1, <1>2, <1>3 DEF Distinct
<1>6. \A i \in 1 .. n : Gap(n, p, i) \in 0 .. n - 1 /\ (Gap(n, p, i) = 0 <=> p = i)
  BY GapNumber
<1>7. \A r \in 1 .. n : 0 < Gap(n, p, r) /\ Gap(n, p, r) < Gap(n, p, z) => b[r] # Nil
  BY <1>2, <1>6
<1>8. ASSUME NEW q \in 1 .. n, NEW r \in 1 .. n, b[r] # Nil, b[q] = Nil,
             Gap(n, Home(n, b[r]), q) < Gap(n, Home(n, b[r]), r)
      PROVE  Gap(n, p, q) <= 0 /\ 0 < Gap(n, p, r) /\ Gap(n, p, r) < Gap(n, p, z)
  <2>1. r # p /\ a[r] = b[r] /\ a[r] \in Element
    BY <1>1, <1>2, <1>8
  <2>2. \A l \in 1 .. n : Gap(n, Home(n, a[r]), l) < Gap(n, Home(n, a[r]), r) => a[l] # Nil
    BY <1>1, <1>8, <2>1 DEF Orderly, Reached
  <2>3. q = p /\ Gap(n, p, q) = 0
    BY <1>2, <1>6, <1>8, <2>1, <2>2
  <2>4. Home(n, a[r]) \in 1 .. n
    BY <2>1, HomeThere
  <2>5. r # z /\ Gap(n, p, q) < Gap(n, p, z)
    BY <1>5, <1>6, <1>8, <2>3
  <2> SUFFICES ASSUME ~(0 < Gap(n, p, r) /\ Gap(n, p, r) < Gap(n, p, z)) PROVE FALSE
    BY <2>3
  <2>6. Gap(n, Home(n, a[r]), z) < Gap(n, Home(n, a[r]), r)
    BY <1>8, <2>1, <2>3, <2>4, <2>5, Crosses
  <2> QED BY <2>2, <2>6
<1> QED BY <1>2, <1>4, <1>5, <1>7, <1>8 DEF Mending, b

LEMMA Mended ==
  ASSUME NEW n \in Nat \ {0}, NEW p \in 1 .. n, NEW z \in 1 .. n, NEW s,
         Gap(n, p, z) > 0, Mending(s, n, p, z, Gap(n, p, z) - 1)
  PROVE  s \in Array(n) /\ Orderly(s) /\ s[z] = Nil
<1>1. /\ s \in Array(n) /\ Distinct(s) /\ s[z] = Nil /\ Len(s) = n
  BY DEF Mending, Array
<1>2. \A r \in 1 .. n : Gap(n, p, r) \in Int
  BY GapNumber
<1>3. Reached(s)
  <2> SUFFICES ASSUME NEW q \in 1 .. n, NEW r \in 1 .. n, s[r] # Nil, s[q] = Nil,
                      Gap(n, Home(n, s[r]), q) < Gap(n, Home(n, s[r]), r)
               PROVE  FALSE
    BY <1>1 DEF Reached
  <2>1. Gap(n, p, z) - 1 < Gap(n, p, r) /\ Gap(n, p, r) < Gap(n, p, z)
    BY DEF Mending
  <2> QED BY <1>2, <2>1
<1> QED BY <1>1, <1>3 DEF Orderly

\* The nearest empty slot after p, other than p.
LEMMA NextEmpty ==
  ASSUME NEW n \in Nat \ {0}, NEW a \in Array(n), Free(a), NEW p \in 1 .. n, a[p] # Nil
  PROVE  \E z \in 1 .. n :
           /\ z # p /\ a[z] = Nil
           /\ \A r \in 1 .. n : 0 < Gap(n, p, r) /\ Gap(n, p, r) < Gap(n, p, z) => a[r] # Nil
<1> DEFINE T == {Gap(n, p, i) : i \in {j \in 1 .. n : a[j] = Nil}}
<1>1. Len(a) = n
  BY DEF Array
<1>2. \A i \in 1 .. n : Gap(n, p, i) \in Nat
  BY GapNumber
<1>3. PICK m \in T : \A g \in T : m <= g
  <2>1. T # {}
    BY <1>1 DEF Free
  <2>2. T \in SUBSET Nat
    BY <1>2
  <2> HIDE DEF T
  <2> QED BY <2>1, <2>2, Least
<1>4. PICK z \in 1 .. n : a[z] = Nil /\ m = Gap(n, p, z)
  OBVIOUS
<1>5. ASSUME NEW r \in 1 .. n, Gap(n, p, r) < Gap(n, p, z) PROVE a[r] # Nil
  <2> SUFFICES ASSUME a[r] = Nil PROVE FALSE
    OBVIOUS
  <2>1. Gap(n, p, r) \in T
    OBVIOUS
  <2>2. Gap(n, p, z) <= Gap(n, p, r)
    BY <1>3, <1>4, <2>1
  <2> QED BY <1>2, <1>5, <2>2
<1> QED BY <1>4, <1>5

\* fixCollisionsFrom: leaves the others where scans for them end.
LEMMA FixKeeps ==
  ASSUME NEW n \in Nat \ {0}, NEW a \in Array(n), Orderly(a), Free(a), NEW p \in 1 .. n, a[p] # Nil
  PROVE  LET b == FixCollisionsFrom(Stored(a, p, Nil), p)
         IN  /\ b \in Array(n) /\ Orderly(b) /\ Free(b)
             /\ Elements(b) = Elements(a) \ {a[p]}
<1> DEFINE c == Stored(a, p, Nil)
           T == [slots : Array(n), done : BOOLEAN]
           b == [slots |-> c, done |-> FALSE]
           relocated(s, old) ==
             IF s.done \/ s.slots[old] = Nil THEN [s EXCEPT !.done = TRUE]
             ELSE [s EXCEPT !.slots = Swapped(@, old, ScanFor(@, @[old]))]
           F == [sk \in T \X (1 .. n - 1) |-> relocated(sk[1], After(c, p, sk[2]))]
           step(g, k) == IF k = 0 THEN b ELSE relocated(g[k - 1], After(c, p, k))
           fixed == CHOOSE g : g = [k \in 0 .. n - 1 |-> step(g, k)]
<1>1. PICK z \in 1 .. n :
        /\ z # p /\ a[z] = Nil
        /\ \A r \in 1 .. n : 0 < Gap(n, p, r) /\ Gap(n, p, r) < Gap(n, p, z) => a[r] # Nil
  BY NextEmpty
<1>2. c \in Array(n) /\ Mending(c, n, p, z, 0) /\ Elements(c) = Elements(a) \ {a[p]}
  <2>1. Mending(c, n, p, z, 0) /\ Elements(c) = Elements(a) \ {a[p]}
    BY <1>1, Emptied
  <2> QED BY <2>1 DEF Mending
<1> DEFINE m == Gap(n, p, z)
<1>3. m \in 1 .. n - 1
  BY <1>1, GapNumber
<1>4. Len(c) = n
  BY <1>2 DEF Array
<1>5. FixCollisionsFrom(c, p) = fixed[n - 1].slots
  BY <1>4 DEF FixCollisionsFrom
<1>6. \A k \in 1 .. n - 1 : After(c, p, k) \in 1 .. n /\ Gap(n, p, After(c, p, k)) = k
  <2> HIDE DEF c
  <2>1. \A k \in 0 .. n - 1 : After(c, p, k) \in 1 .. n /\ Gap(n, p, After(c, p, k)) = k
    BY <1>4 DEF After, Gap
  <2> QED BY <2>1
<1>7. ASSUME NEW s \in T, NEW old \in 1 .. n PROVE relocated(s, old) \in T
  <2>1. s.slots \in Array(n) /\ s.done \in BOOLEAN /\ s = [slots |-> s.slots, done |-> s.done]
    OBVIOUS
  <2>2. ASSUME NEW d \in Array(n), d[old] # Nil PROVE Swapped(d, old, ScanFor(d, d[old])) \in Array(n)
    <3> DEFINE i == ScanFor(d, d[old])
    <3>1. d \in [1 .. n -> Cell] /\ Len(d) = n /\ d[old] \in Cell /\ d[old] \in Element
      BY <2>2 DEF Array, Cell
    <3>2. Ends(d, d[old], i)
      BY <3>1, ScanEnds DEF Matches
    <3>3. i \in 1 .. n
      BY <3>1, <3>2 DEF Ends
    <3> HIDE DEF i
    <3>4. d[i] \in Cell
      BY <3>1, <3>3
    <3> HIDE DEF Cell
    <3>5. Swapped(d, old, i) \in [1 .. n -> Cell]
      BY <3>1, <3>3, <3>4 DEF Swapped
    <3>6. \A f \in [1 .. n -> Cell] : f \in Seq(Cell) /\ Len(f) = n
      OBVIOUS
    <3> QED BY <3>5, <3>6 DEF Array, i
  <2> QED BY <2>1, <2>2
<1>8. b \in T /\ F \in [T \X (1 .. n - 1) -> T]
  <2>1. b \in T
    BY <1>2
  <2> HIDE DEF T, relocated
  <2> QED BY <1>6, <1>7, <2>1
<1>9. fixed[0] = b /\ \A k \in 1 .. n - 1 : fixed[k] = relocated(fixed[k - 1], After(c, p, k))
  <2>1. PICK h \in [0 .. n - 1 -> T] : h[0] = b /\ \A k \in 1 .. n - 1 : h[k] = F[<<h[k - 1], k>>]
    <3> DEFINE l == n - 1
    <3>1. l \in Nat
      OBVIOUS
    <3>2. F \in [T \X (1 .. l) -> T]
      BY <1>8
    <3> HIDE DEF T, b, F, l
    <3>3. \E h : Unfolds(h, T, b, l, F)
      BY <1>8, <3>1, <3>2, Recursion
    <3> QED BY <3>3 DEF Unfolds, l
  <2>2. ASSUME NEW k \in 1 .. n - 1 PROVE h[k] = relocated(h[k - 1], After(c, p, k))
    <3>1. k - 1 \in 0 .. n - 1 /\ <<h[k - 1], k>> \in T \X (1 .. n - 1)
      BY <2>1
    <3> HIDE DEF T, relocated
    <3> QED BY <2>1, <3>1
  <2> HIDE DEF relocated
  <2>3. h = [k \in 0 .. n - 1 |-> step(h, k)]
    <3>1. \A k \in 0 .. n - 1 : h[k] = step(h, k)
      BY <2>1, <2>2
    <3> HIDE DEF step
    <3> QED BY <2>1, <3>1
  <2>4. fixed = [k \in 0 .. n - 1 |-> step(fixed, k)]
    <3> HIDE DEF step
    <3> QED BY <2>3
  <2> HIDE DEF fixed
  <2>5. \A k \in 0 .. n - 1 : fixed[k] = step(fixed, k)
    <3> HIDE DEF step
    <3> QED BY <2>4
  <2>6. 0 \in 0 .. n - 1 /\ \A k \in 1 .. n - 1 : k \in 0 .. n - 1 /\ k # 0
    OBVIOUS
  <2> HIDE DEF b
  <2> QED BY <2>5, <2>6
<1> HIDE DEF fixed, F, c
<1> DEFINE Good(k) ==
             /\ fixed[k] \in T /\ Elements(fixed[k].slots) = Elements(c)
             /\ k < m => ~fixed[k].done /\ Mending(fixed[k].slots, n, p, z, k)
             /\ k >= m => fixed[k].done
             /\ k >= m - 1 => Orderly(fixed[k].slots) /\ fixed[k].slots[z] = Nil
           G == {k \in 0 .. n - 1 : Good(k)}
<1>10. ASSUME NEW s \in Array(n), NEW k \in Nat, k = m - 1, Mending(s, n, p, z, k)
       PROVE  Orderly(s) /\ s[z] = Nil
  BY <1>3, <1>10, Mended
<1>11. 0 \in G
  <2>1. fixed[0] \in T /\ fixed[0].slots = c /\ ~fixed[0].done
    <3> HIDE DEF T
    <3> QED BY <1>8, <1>9
  <2>2. 0 >= m - 1 => Orderly(c) /\ c[z] = Nil
    <3> HIDE DEF m
    <3> QED BY <1>2, <1>3, <1>10
  <2>3. 0 \in 0 .. n - 1 /\ 0 < m /\ ~(0 >= m)
    BY <1>3
  <2> HIDE DEF T, m
  <2> QED BY <1>2, <2>1, <2>2, <2>3
<1>12. ASSUME NEW k \in 1 .. n - 1, k - 1 \in G PROVE k \in G
  <2> DEFINE t == fixed[k - 1]
             old == After(c, p, k)
  <2>1. Good(k - 1) /\ t \in T /\ k - 1 \in Nat
    BY <1>12
  <2>2. fixed[k] = relocated(t, old)
    BY <1>9
  <2>3. old \in 1 .. n /\ Gap(n, p, old) = k
    BY <1>6
  <2> HIDE DEF old
  <2>4. fixed[k] \in T
    BY <1>7, <2>1, <2>2, <2>3
  <2>5. CASE k < m
    <3>1. ~t.done /\ Mending(t.slots, n, p, z, k - 1) /\ Elements(t.slots) = Elements(c)
      <4>1. k - 1 < m
        BY <1>3, <2>5
      <4> HIDE DEF T, m
      <4> QED BY <2>1, <4>1
    <3>2. t.slots[old] # Nil
      BY <2>3, <2>5, <3>1 DEF Mending
    <3> DEFINE u == Swapped(t.slots, old, ScanFor(t.slots, t.slots[old]))
    <3>3. fixed[k].slots = u /\ ~fixed[k].done
      BY <2>1, <2>2, <3>1, <3>2
    <3>4. Mending(u, n, p, z, k) /\ Elements(u) = Elements(t.slots)
      <4> DEFINE s == t.slots
                 l == k - 1
      <4>1. l \in Nat /\ Mending(s, n, p, z, l) /\ Gap(n, p, old) = l + 1 /\ l + 1 < Gap(n, p, z) /\ l + 1 = k
        BY <2>1, <2>3, <2>5, <3>1
      <4> HIDE DEF s, l
      <4>2. /\ Mending(Swapped(s, old, ScanFor(s, s[old])), n, p, z, l + 1)
            /\ Elements(Swapped(s, old, ScanFor(s, s[old]))) = Elements(s)
        BY <2>3, <4>1, Relocates
      <4> QED BY <4>1, <4>2 DEF s
    <3>5. k >= m - 1 => Orderly(u) /\ u[z] = Nil
      <4>1. u \in Array(n)
        BY <3>4 DEF Mending
      <4> HIDE DEF u
      <4> QED BY <1>3, <1>10, <2>5, <3>4, <4>1
    <3> HIDE DEF u, T
    <3> QED BY <1>3, <2>4, <2>5, <3>1, <3>3, <3>4, <3>5
  <2>6. CASE k >= m
    <3>1. Orderly(t.slots) /\ t.slots[z] = Nil /\ Elements(t.slots) = Elements(c)
      BY <1>3, <2>1, <2>6
    <3>2. t.done \/ t.slots[old] = Nil
      <4>1. CASE k = m
        <5>1. old = z
          BY <2>3, <4>1, GapsApart
        <5> QED BY <3>1, <5>1
      <4>2. CASE k # m
        BY <1>3, <2>1, <2>6, <4>2
      <4> QED BY <4>1, <4>2
    <3>3. fixed[k].slots = t.slots /\ fixed[k].done
      BY <2>1, <2>2, <3>2
    <3> HIDE DEF T
    <3> QED BY <1>3, <2>4, <2>6, <3>1, <3>3
  <2> QED BY <1>3, <2>5, <2>6
<1>13. n - 1 \in G
  <2> DEFINE l == n - 1
  <2> HIDE DEF G
  <2>1. l \in Nat /\ l \in 0 .. l
    OBVIOUS
  <2>2. \A k \in 1 .. l : k - 1 \in G => k \in G
    BY <1>12
  <2> HIDE DEF l
  <2>3. \A k \in 0 .. l : k \in G
    BY <1>11, <2>1, <2>2, Steps
  <2> QED BY <2>1, <2>3 DEF l
<1>14. Good(n - 1) /\ n - 1 >= m - 1
  BY <1>3, <1>13
<1>15. /\ fixed[n - 1].slots \in Array(n) /\ Orderly(fixed[n - 1].slots) /\ fixed[n - 1].slots[z] = Nil
       /\ Elements(fixed[n - 1].slots) = Elements(c)
  BY <1>14
<1>16. Free(fixed[n - 1].slots)
  BY <1>15 DEF Free, Array
<1> QED BY <1>2, <1>5, <1>15, <1>16 DEF c
-----------------------------------------------------------------------------
(***************************************************************************)
(* The invariant.  What is due and seen of the slots walked (Sound) bears  *)
(* an element being put into a slot that was empty, as it is in neither.   *)
(***************************************************************************)
Held ==
  /\ array \in Seq(Cell) /\ Orderly(array)
  /\ array # <<>> => Free(array)
  /\ tally = Cardinality(Elements(array))

Sound(a, w) ==
  /\ Distinct(a) /\ ~w.again /\ w.next > 0
  /\ w.due \subseteq Elements(a) /\ w.seen \subseteq Elements(a)
  /\ \A j \in 1 .. Len(a) : a[j] # Nil =>
       /\ j < w.next /\ a[j] \in w.due => a[j] \in w.seen
       /\ a[j] \in w.seen => j < w.next

HInv ==
  /\ Held
  /\ walk \in Walk
  /\ walk.on /\ ~walk.removed => Sound(Walked, walk)
  /\ aborted \in BOOLEAN
  /\ aborted => array = <<>>

\* What a scan for x ends at.
LEMMA Looked ==
  ASSUME Held, array # <<>>, NEW x \in Element
  PROVE  /\ Len(array) \in Nat \ {0} /\ array \in Array(Len(array))
         /\ Slot(x) \in 1 .. Len(array)
         /\ array[Slot(x)] = x <=> x \in Elements(array)
         /\ array[Slot(x)] = Nil <=> x \notin Elements(array)
<1>1. PICK n \in Nat : n = Len(array)
  BY DEF Held
<1>2. n # 0 /\ array \in Array(n)
  BY <1>1 DEF Held, Array
<1>3. Nil \notin Element
  BY HashSetAssumption
<1>4. /\ ScanFor(array, x) \in 1 .. n
      /\ x \in Elements(array) => array[ScanFor(array, x)] = x
      /\ x \notin Elements(array) => array[ScanFor(array, x)] = Nil
  BY <1>2, Scans DEF Held
<1> QED BY <1>1, <1>2, <1>3, <1>4 DEF Slot

LEMMA SoundStored ==
  ASSUME NEW n \in Nat \ {0}, NEW a \in Array(n), NEW p \in 1 .. n, a[p] = Nil, NEW x \in Element,
         x \notin Elements(a), NEW w, Sound(a, w), Distinct(Stored(a, p, x)),
         Elements(Stored(a, p, x)) = Elements(a) \cup {x}
  PROVE  Sound(Stored(a, p, x), w)
<1> DEFINE b == Stored(a, p, x)
<1>1. Len(a) = n /\ x \in Cell
  BY DEF Array, Cell
<1>2. b \in Array(n) /\ b[p] = x /\ \A i \in 1 .. n : i # p => b[i] = a[i]
  BY <1>1, StoredThere
<1>3. Len(b) = n /\ Distinct(b) /\ Elements(b) = Elements(a) \cup {x}
  BY <1>2 DEF Array
<1> HIDE DEF b
<1>4. x \notin w.due /\ x \notin w.seen
  BY DEF Sound
<1>5. ASSUME NEW j \in 1 .. n, b[j] # Nil
      PROVE  /\ j < w.next /\ b[j] \in w.due => b[j] \in w.seen
             /\ b[j] \in w.seen => j < w.next
  <2>1. CASE j = p
    BY <1>2, <1>4, <2>1
  <2>2. CASE j # p
    BY <1>1, <1>2, <1>5, <2>2 DEF Sound
  <2> QED BY <2>1, <2>2
<1> QED BY <1>3, <1>5 DEF Sound, b

LEMMA AddKeeps ==
  ASSUME Held, array # <<>>, NEW x \in Element, AddNew(x)
  PROVE  /\ Held' /\ array' # <<>> /\ Elements(array') = Elements(array) \cup {x}
         /\ walk \in Walk => walk' \in Walk
         /\ (walk.on /\ ~walk.removed => Sound(Walked, walk)) =>
              (walk.on /\ ~walk.removed => Sound(Walked, walk))'
<1> DEFINE n == Len(array)
           b == Stored(array, Slot(x), x)
<1>1. /\ n \in Nat \ {0} /\ array \in Array(n) /\ Slot(x) \in 1 .. n /\ array[Slot(x)] = Nil
      /\ x \notin Elements(array) /\ x # Nil /\ Orderly(array) /\ Free(array)
  BY Looked, HashSetAssumption DEF AddNew, Held
<1>2. /\ b \in Array(n) /\ Orderly(b) /\ Elements(b) = Elements(array) \cup {x}
      /\ tally + 1 = Cardinality(Elements(b))
      /\ ~Full(b, tally + 1) => Free(b)
      /\ Grown(b).slots \in Array(2 * n) /\ Orderly(Grown(b).slots) /\ Free(Grown(b).slots)
      /\ Elements(Grown(b).slots) = Elements(b) /\ Grown(b).tally = tally + 1
  <2> DEFINE l == n
             a == array
             m == tally
             c == Stored(a, ScanFor(a, x), x)
  <2>1. /\ l \in Nat \ {0} /\ a \in Array(l) /\ Orderly(a) /\ Free(a) /\ x \notin Elements(a)
        /\ m = Cardinality(Elements(a))
    BY <1>1 DEF Held
  <2> HIDE DEF l, a, m
  <2>2. /\ c \in Array(l) /\ Orderly(c) /\ Elements(c) = Elements(a) \cup {x}
        /\ m + 1 = Cardinality(Elements(c))
        /\ ~Full(c, m + 1) => Free(c)
        /\ Grown(c).slots \in Array(2 * l) /\ Orderly(Grown(c).slots) /\ Free(Grown(c).slots)
        /\ Elements(Grown(c).slots) = Elements(c) /\ Grown(c).tally = m + 1
    BY <2>1, InsertKeeps
  <2> QED BY <2>2 DEF l, a, m, Slot
<1>4. Sound(array, walk) => Sound(b, walk)
  <2>1. Distinct(b)
    BY <1>2 DEF Orderly
  <2> DEFINE m == n
             p == Slot(x)
  <2>2. /\ m \in Nat \ {0} /\ array \in Array(m) /\ p \in 1 .. m /\ array[p] = Nil
        /\ b = Stored(array, p, x)
    BY <1>1
  <2> HIDE DEF m, p, b
  <2> QED BY <1>1, <1>2, <2>1, <2>2, SoundStored
<1> HIDE DEF b, n
<1>5. Len(b) = n /\ b \in Seq(Cell)
  BY <1>2 DEF Array
<1>6. CASE Full(b, tally + 1)
  <2>1. array' = Grown(b).slots /\ tally' = Grown(b).tally
        /\ walk' = IF walk.on /\ ~walk.left
                   THEN [walk EXCEPT !.left = TRUE, !.over = b] ELSE walk
    BY <1>6 DEF AddNew, b
  <2>3. Held' /\ array' # <<>>
    <3>1. Len(array') = 2 * n /\ array' \in Seq(Cell)
      BY <1>2, <2>1 DEF Array
    <3>2. Orderly(array') /\ Free(array') /\ tally' = Cardinality(Elements(array'))
      BY <1>2, <2>1
    <3> QED BY <1>1, <3>1, <3>2 DEF Held
  <2>4. ASSUME walk \in Walk PROVE walk' \in Walk
    BY <1>5, <2>1, <2>4 DEF Walk, Cell
  <2>5. ASSUME walk.on /\ ~walk.removed => Sound(Walked, walk), (walk.on /\ ~walk.removed)'
        PROVE  Sound(Walked', walk')
    <3>1. CASE walk.on /\ ~walk.left
      <4>1. Walked = array /\ Walked' = b /\ walk.on /\ ~walk.removed
        BY <2>1, <2>5, <3>1 DEF Walked
      <4>2. Sound(b, walk)
        BY <1>4, <2>5, <4>1
      <4>3. Sound(b, walk')
        BY <2>1, <3>1, <4>2 DEF Sound
      <4> QED BY <4>1, <4>3
    <3>2. CASE ~(walk.on /\ ~walk.left)
      BY <2>1, <2>5, <3>2 DEF Walked
    <3> QED BY <3>1, <3>2
  <2> QED BY <1>2, <2>1, <2>3, <2>4, <2>5
<1>7. CASE ~Full(b, tally + 1)
  <2>1. array' = b /\ tally' = tally + 1 /\ walk' = walk
    BY <1>7 DEF AddNew, b
  <2>2. Free(b)
    BY <1>2, <1>7
  <2>3. Held' /\ array' # <<>>
    BY <1>1, <1>2, <1>5, <2>1, <2>2 DEF Held
  <2>4. ASSUME walk.on /\ ~walk.removed => Sound(Walked, walk), (walk.on /\ ~walk.removed)'
        PROVE  Sound(Walked', walk')
    BY <1>4, <2>1, <2>4 DEF Walked
  <2> QED BY <1>2, <2>1, <2>3, <2>4
<1> QED BY <1>6, <1>7

LEMMA RemoveKeeps ==
  ASSUME Held, array # <<>>, NEW x \in Element, RemovePresent(x)
  PROVE  /\ Held' /\ array' # <<>> /\ Elements(array') = Elements(array) \ {x}
         /\ walk \in Walk => walk' \in Walk /\ ~(walk.on /\ ~walk.removed)'
<1> DEFINE n == Len(array)
           p == Slot(x)
           b == FixCollisionsFrom(Stored(array, p, Nil), p)
<1>1. /\ n \in Nat \ {0} /\ array \in Array(n) /\ p \in 1 .. n /\ array[p] = x
      /\ x \in Elements(array) /\ x # Nil /\ Orderly(array) /\ Free(array)
  BY Looked, HashSetAssumption DEF RemovePresent, Held
<1>2. b \in Array(n) /\ Orderly(b) /\ Free(b) /\ Elements(b) = Elements(array) \ {x}
  <2> DEFINE m == n
             q == p
  <2>1. m \in Nat \ {0} /\ array \in Array(m) /\ q \in 1 .. m /\ array[q] # Nil /\ array[q] = x
    BY <1>1
  <2> HIDE DEF m, q
  <2>2. /\ FixCollisionsFrom(Stored(array, q, Nil), q) \in Array(m)
        /\ Orderly(FixCollisionsFrom(Stored(array, q, Nil), q))
        /\ Free(FixCollisionsFrom(Stored(array, q, Nil), q))
        /\ Elements(FixCollisionsFrom(Stored(array, q, Nil), q)) = Elements(array) \ {array[q]}
    BY <1>1, <2>1, FixKeeps
  <2> QED BY <2>1, <2>2 DEF m, q
<1>3. tally - 1 = Cardinality(Elements(b))
  <2>1. IsFiniteSet(Elements(array)) /\ Cardinality(Elements(array)) \in Nat
    BY <1>1, Counted
  <2>2. Cardinality(Elements(array) \ {x}) = Cardinality(Elements(array)) - 1
    BY <1>1, <2>1, FS_RemoveElement
  <2> QED BY <1>2, <2>1, <2>2 DEF Held
<1>4. array' = b /\ tally' = tally - 1
      /\ walk' = IF ~walk.on THEN walk
                 ELSE [walk EXCEPT !.removed = TRUE, !.due = {}, !.seen = {}, !.again = FALSE]
  BY DEF RemovePresent, TallyLess
<1> HIDE DEF b, n
<1>5. Held' /\ array' # <<>>
  <2>1. b \in Seq(Cell) /\ Len(b) = n
    BY <1>2 DEF Array
  <2> QED BY <1>1, <1>2, <1>3, <1>4, <2>1 DEF Held
<1>6. ASSUME walk \in Walk PROVE walk' \in Walk /\ ~(walk.on /\ ~walk.removed)'
  BY <1>4, <1>6 DEF Walk
<1> QED BY <1>2, <1>4, <1>5, <1>6

LEMMA InitiallyHolds ==
  ASSUME Init
  PROVE  HInv /\ Elements(array) = {}
<1>1. PICK n \in Nat : array = Empty(n)
  BY HashSetAssumption DEF Init
<1>2. array \in Array(n) /\ Orderly(array) /\ Elements(array) = {} /\ (n > 0 => Free(array))
  BY <1>1, EmptyThere
<1>3. array \in Seq(Cell) /\ Len(array) = n
  BY <1>2 DEF Array
<1>4. array # <<>> => n > 0
  BY <1>3
<1>5. tally = Cardinality(Elements(array))
  BY <1>2, FS_EmptySet DEF Init
<1>6. walk \in Walk /\ ~walk.on
  BY DEF Init, NoWalk, Walk
<1> QED BY <1>2, <1>3, <1>4, <1>5, <1>6 DEF Init, HInv, Held

LEMMA WalkBegins ==
  ASSUME HInv, DoBegin
  PROVE  HInv'
<1>1. walk' = [NoWalk EXCEPT !.on = TRUE, !.next = 1, !.due = Elements(array)] /\ UNCHANGED array
  BY DEF DoBegin
<1>2. array \in Seq(Element \cup {Nil}) /\ Elements(array) \subseteq Element
  BY DEF HInv, Held, Cell, Elements
<1>3. /\ walk' \in Walk /\ walk'.on /\ ~walk'.left /\ ~walk'.again /\ walk'.next = 1
      /\ walk'.due = Elements(array) /\ walk'.seen = {}
  <2>1. walk' = [on |-> TRUE, left |-> FALSE, over |-> <<>>, next |-> 1,
                 due |-> Elements(array), seen |-> {}, again |-> FALSE, removed |-> FALSE]
    BY <1>1 DEF NoWalk
  <2>2. <<>> \in Seq(Element \cup {Nil}) /\ Elements(array) \in SUBSET Element /\ {} \in SUBSET Element
    BY <1>2
  <2> HIDE DEF Elements
  <2> QED BY <2>1, <2>2 DEF Walk
<1>4. Walked' = array
  BY <1>1, <1>3 DEF Walked
<1>5. Sound(array, walk')
  BY <1>2, <1>3 DEF Sound, HInv, Held, Orderly
<1>6. Held' /\ aborted' = aborted
  BY DEF DoBegin, HInv, Held
<1> QED BY <1>1, <1>3, <1>4, <1>5, <1>6 DEF HInv

LEMMA WalkGoesOn ==
  ASSUME HInv, DoNext
  PROVE  HInv'
<1> DEFINE x == Walked[walk.next]
<1>1. /\ walk' = IF x = Nil \/ walk.removed THEN [walk EXCEPT !.next = @ + 1]
                 ELSE [walk EXCEPT !.next = @ + 1, !.seen = @ \cup {x},
                                   !.again = @ \/ x \in walk.seen]
      /\ walk.on /\ walk.next <= Len(Walked) /\ UNCHANGED <<array, tally, aborted>>
  BY DEF DoNext
<1>2. walk \in Walk /\ Held' /\ Walked \in Seq(Element \cup {Nil}) /\ walk.next \in Nat
  BY <1>1 DEF HInv, Held, Walk, Walked, Cell
<1>3. Walked' = Walked
  BY <1>1, <1>2 DEF Walked, Walk
<1> DEFINE a == Walked
<1>4. CASE walk.removed
  <2>1. walk' = [walk EXCEPT !.next = @ + 1]
    BY <1>1, <1>4
  <2>2. walk' \in Walk /\ walk'.removed
    BY <1>2, <1>4, <2>1 DEF Walk
  <2> QED BY <1>1, <1>2, <2>2 DEF HInv
<1>5. CASE ~walk.removed
  <2>1. Sound(a, walk)
    BY <1>1, <1>5 DEF HInv
  <2>2. walk.next \in 1 .. Len(a)
    BY <1>1, <1>2, <2>1 DEF Sound
  <2>3. \A j \in 1 .. Len(a) : j \in Int /\ a[j] \in Element \cup {Nil} /\ (a[j] # Nil => a[j] \in Elements(a))
    BY <1>2 DEF Elements
  <2> HIDE DEF a
  <2>4. x = a[walk.next]
    BY DEF a
  <2> HIDE DEF x
  <2>5. CASE x = Nil
    <3>1. walk' = [walk EXCEPT !.next = @ + 1]
      BY <1>1, <2>5
    <3>2. walk' \in Walk
      BY <1>2, <3>1 DEF Walk
    <3>3. /\ walk'.next = walk.next + 1 /\ walk'.due = walk.due /\ walk'.seen = walk.seen
          /\ walk'.again = walk.again
      BY <1>2, <3>1 DEF Walk
    <3>4. ASSUME NEW j \in 1 .. Len(a), a[j] # Nil
          PROVE  /\ j < walk'.next /\ a[j] \in walk'.due => a[j] \in walk'.seen
                 /\ a[j] \in walk'.seen => j < walk'.next
      <4>1. j # walk.next /\ j \in Int
        BY <2>3, <2>4, <2>5, <3>4
      <4> QED BY <1>2, <2>1, <3>3, <3>4, <4>1 DEF Sound
    <3>5. Sound(a, walk')
      BY <1>2, <2>1, <3>3, <3>4 DEF Sound
    <3> QED BY <1>1, <1>2, <1>3, <3>2, <3>5 DEF HInv, a
  <2>6. CASE x # Nil
    <3>1. walk' = [walk EXCEPT !.next = @ + 1, !.seen = @ \cup {x}, !.again = @ \/ x \in walk.seen]
      BY <1>1, <1>5, <2>6
    <3>2. x \in Element /\ x \in Elements(a)
      BY <2>2, <2>3, <2>4, <2>6
    <3>3. x \notin walk.seen
      <4>1. x \in walk.seen => walk.next < walk.next
        BY <2>1, <2>2, <2>4, <2>6 DEF Sound
      <4> QED BY <1>2, <4>1
    <3>4. walk' \in Walk
      <4> DEFINE given == walk.again \/ x \in walk.seen
                 seen == walk.seen \cup {x}
      <4>1. given \in BOOLEAN /\ seen \in SUBSET Element
        BY <1>2, <3>2 DEF Walk
      <4> DEFINE w == [[walk EXCEPT !.next = @ + 1] EXCEPT !.seen = seen]
      <4>2. walk' = [w EXCEPT !.again = given]
        BY <3>1
      <4> HIDE DEF given, seen
      <4>3. w \in Walk
        <5> DEFINE v == [walk EXCEPT !.next = @ + 1]
        <5>1. v \in Walk
          BY <1>2 DEF Walk
        <5> HIDE DEF v
        <5>2. [v EXCEPT !.seen = seen] \in Walk
          BY <4>1, <5>1 DEF Walk
        <5> QED BY <5>2 DEF v
      <4> HIDE DEF w
      <4>4. [w EXCEPT !.again = given] \in Walk
        BY <4>1, <4>3 DEF Walk
      <4> QED BY <4>2, <4>4
    <3>5. /\ walk'.next = walk.next + 1 /\ walk'.due = walk.due /\ walk'.seen = walk.seen \cup {x}
          /\ ~walk'.again
      BY <1>2, <2>1, <3>1, <3>3 DEF Walk, Sound
    <3>6. ASSUME NEW j \in 1 .. Len(a), a[j] # Nil
          PROVE  /\ j < walk'.next /\ a[j] \in walk'.due => a[j] \in walk'.seen
                 /\ a[j] \in walk'.seen => j < walk'.next
      <4>1. CASE j = walk.next
        BY <1>2, <2>4, <3>5, <4>1
      <4>2. CASE j # walk.next
        <5>1. a[j] # x /\ j \in Int
          BY <2>1, <2>2, <2>4, <3>6, <4>2 DEF Sound, Distinct
        <5> QED BY <1>2, <2>1, <3>5, <3>6, <4>2, <5>1 DEF Sound
      <4> QED BY <4>1, <4>2
    <3>7. Sound(a, walk')
      BY <1>2, <2>1, <3>2, <3>5, <3>6 DEF Sound
    <3> QED BY <1>1, <1>2, <1>3, <3>4, <3>7 DEF HInv, a
  <2> QED BY <2>5, <2>6
<1> QED BY <1>4, <1>5

LEMMA Preserved ==
  ASSUME HInv, [Next]_vars
  PROVE  HInv'
<1>1. /\ Held /\ walk \in Walk /\ (walk.on /\ ~walk.removed => Sound(Walked, walk))
      /\ aborted \in BOOLEAN /\ (aborted => array = <<>>)
  BY DEF HInv
<1>2. ASSUME UNCHANGED <<array, tally, walk>>, aborted' \in BOOLEAN, aborted' => array = <<>> PROVE HInv'
  BY <1>1, <1>2 DEF HInv, Held, Walked
<1>3. ASSUME NoSlots PROVE HInv'
  BY <1>2, <1>3 DEF NoSlots
<1>4. ASSUME NEW x \in Element, Add(x) PROVE HInv'
  <2>1. CASE AddPresent(x)
    BY <1>1, <1>2, <2>1 DEF AddPresent, Answer
  <2>2. CASE array # <<>> /\ AddNew(x)
    <3>1. aborted' = aborted /\ ~aborted
      BY <1>4, <2>2 DEF Add, AddNew, Answer
    <3>2. /\ Held' /\ walk' \in Walk
          /\ (walk.on /\ ~walk.removed => Sound(Walked, walk))'
      BY <1>1, <2>2, AddKeeps
    <3> QED BY <1>1, <3>1, <3>2 DEF HInv
  <2> QED BY <1>3, <1>4, <2>1, <2>2 DEF Add
<1>5. ASSUME NEW x \in Element, Remove(x) PROVE HInv'
  <2>1. CASE RemoveAbsent(x)
    BY <1>1, <1>2, <2>1 DEF RemoveAbsent, Answer
  <2>2. CASE array # <<>> /\ RemovePresent(x)
    <3>1. aborted' = aborted /\ ~aborted
      BY <1>5, <2>2 DEF Remove, RemovePresent, Answer
    <3>2. Held' /\ walk' \in Walk /\ ~(walk.on /\ ~walk.removed)'
      BY <1>1, <2>2, RemoveKeeps
    <3> QED BY <1>1, <3>1, <3>2 DEF HInv
  <2> QED BY <1>3, <1>5, <2>1, <2>2 DEF Remove
<1>6. ASSUME NEW x \in Element, Like(x) PROVE HInv'
  BY <1>1, <1>2, <1>3, <1>6 DEF Like, Answer
<1>7. CASE Size
  BY <1>1, <1>2, <1>7 DEF Size, Answer
<1>8. CASE DoEnd
  <2>1. UNCHANGED <<array, tally, aborted>> /\ walk' = NoWalk
    BY <1>8 DEF DoEnd
  <2>2. walk' \in Walk /\ ~walk'.on
    BY <2>1 DEF Walk, NoWalk
  <2> QED BY <1>1, <2>1, <2>2 DEF HInv, Held
<1>9. CASE UNCHANGED vars
  BY <1>1, <1>2, <1>9 DEF vars
<1> QED BY <1>4, <1>5, <1>6, <1>7, <1>8, <1>9, WalkBegins, WalkGoesOn DEF Next

\* The invariant of HashSet holds in every reachable state.
THEOREM SetInvariance == Spec => []HInv
<1>1. Init => HInv
  BY InitiallyHolds
<1>2. HInv /\ [Next]_vars => HInv'
  BY Preserved
<1> QED BY <1>1, <1>2, PTL DEF Spec

\* The slots hold elements or nil, and no more of them than the tally says.
THEOREM SetTyped == Spec => []TypeOK
<1>1. HInv => TypeOK
  <2> SUFFICES ASSUME HInv PROVE TypeOK
    OBVIOUS
  <2>1. PICK n \in Nat : n = Len(array)
    BY DEF HInv, Held
  <2>2. array \in Array(n)
    BY <2>1 DEF HInv, Held, Array
  <2>3. tally \in 0 .. n
    BY <2>2, Counted DEF HInv, Held
  <2> QED BY <2>1, <2>3 DEF HInv, Held, TypeOK, Cell
<1> QED BY <1>1, SetInvariance, PTL

(***************************************************************************)
(* A scan for an element ends at its slot, and one for anything else at an *)
(* empty slot, whatever was added, removed, relocated and grown before: so *)
(* findElementOrNil: never answers 0, and only a set without slots aborts. *)
(***************************************************************************)
THEOREM ScansAlwaysArrive == Spec => []ScansArrive
<1>1. HInv => ScansArrive
  <2> SUFFICES ASSUME HInv PROVE ScansArrive
    OBVIOUS
  <2>1. PICK n \in Nat : n = Len(array)
    BY DEF HInv, Held
  <2>2. array \in Array(n) /\ DOMAIN array = 1 .. n /\ Orderly(array)
    BY <2>1 DEF HInv, Held, Array
  <2>3. ASSUME NEW i \in 1 .. n, array[i] # Nil PROVE ScanFor(array, array[i]) = i
    <3>1. n # 0
      OBVIOUS
    <3> QED BY <2>2, <2>3, <3>1, Scans
  <2>4. array # <<>> => \E i \in 1 .. n : array[i] = Nil
    BY <2>1 DEF HInv, Held, Free
  <2> QED BY <2>2, <2>3, <2>4 DEF HInv, ScansArrive
<1> QED BY <1>1, SetInvariance, PTL

\* A do: whose block may add elements, and let the set grow, gives the block
\* each element that the set held when it began, and none twice.
THEOREM WalksGiveOnce == Spec => []GivenOnce
<1>1. HInv => GivenOnce
  <2> SUFFICES ASSUME HInv, walk.on, ~walk.removed
               PROVE  ~walk.again /\ (walk.next > Len(Walked) => walk.due \subseteq walk.seen)
    BY DEF GivenOnce
  <2>1. Sound(Walked, walk) /\ Walked \in Seq(Element \cup {Nil}) /\ walk.next \in Nat
    BY DEF HInv, Held, Walked, Walk, Cell
  <2>2. ASSUME walk.next > Len(Walked), NEW x \in walk.due PROVE x \in walk.seen
    <3>1. PICK j \in 1 .. Len(Walked) : Walked[j] = x /\ x # Nil
      BY <2>1 DEF Sound, Elements
    <3>2. j < walk.next
      BY <2>1, <2>2
    <3> QED BY <2>1, <3>1, <3>2 DEF Sound
  <2> QED BY <2>1, <2>2 DEF Sound
<1> QED BY <1>1, SetInvariance, PTL

\* A step of the set is one of the collection of its elements, or none.
LEMMA StepsImplement ==
  ASSUME HInv, [Next]_vars
  PROVE  [Abstract!Next]_(Abstract!vars)
<1>1. Held /\ (aborted => array = <<>>)
  BY DEF HInv
<1>2. \A x \in Element : array # <<>> =>
        /\ array[Slot(x)] = x <=> x \in Elements(array)
        /\ array[Slot(x)] = Nil <=> x \notin Elements(array)
  BY <1>1, Looked
<1>3. ASSUME NoSlots PROVE Abstract!MayAbort
  <2>1. Elements(array) = {} /\ Elements(array') = {}
    BY <1>3 DEF NoSlots, Elements
  <2> QED BY <1>3, <2>1 DEF NoSlots, Abstract!MayAbort
<1>4. ASSUME NEW x \in Element, Add(x) PROVE Abstract!Add(x) /\ ~aborted
  <2>1. CASE NoSlots
    BY <1>3, <1>4, <2>1 DEF Add, Abstract!Add
  <2>2. CASE array # <<>> /\ AddPresent(x)
    <3>1. Elements(array') = Elements(array) \cup {x}
      BY <1>2, <2>2 DEF AddPresent
    <3> QED BY <1>4, <2>2, <3>1 DEF Add, AddPresent, Answer, Abstract!Add, Abstract!Becomes
  <2>3. CASE array # <<>> /\ AddNew(x)
    <3>1. Elements(array') = Elements(array) \cup {x}
      BY <1>1, <2>3, AddKeeps
    <3> QED BY <1>4, <2>3, <3>1 DEF Add, AddNew, Answer, Abstract!Add, Abstract!Becomes
  <2> QED BY <1>4, <2>1, <2>2, <2>3 DEF Add
<1>5. ASSUME NEW x \in Element, Remove(x) PROVE Abstract!Remove(x) /\ ~aborted
  <2>1. CASE NoSlots
    BY <1>3, <1>5, <2>1 DEF Remove, Abstract!Remove
  <2>2. CASE array # <<>> /\ RemoveAbsent(x)
    <3>1. x \notin Elements(array) /\ Elements(array') = Elements(array) \ {x}
      BY <1>2, <2>2 DEF RemoveAbsent
    <3> QED BY <1>5, <2>2, <3>1 DEF Remove, RemoveAbsent, Answer, Abstract!Remove, Abstract!Becomes, Abstract!Found
  <2>3. CASE array # <<>> /\ RemovePresent(x)
    <3>1. x \in Elements(array) /\ Elements(array') = Elements(array) \ {x}
      BY <1>1, <1>2, <2>3, RemoveKeeps DEF RemovePresent
    <3> QED BY <1>5, <2>3, <3>1 DEF Remove, RemovePresent, Answer, Abstract!Remove, Abstract!Becomes, Abstract!Found
  <2> QED BY <1>5, <2>1, <2>2, <2>3 DEF Remove
<1>6. ASSUME NEW x \in Element, Like(x) PROVE Abstract!Like(x) /\ ~aborted
  <2>1. CASE NoSlots
    BY <1>3, <1>6, <2>1 DEF Like, Abstract!Like
  <2>2. CASE ~NoSlots
    <3>1. /\ array # <<>> /\ Answer(IF array[Slot(x)] = x THEN <<x>> ELSE <<>>)
          /\ UNCHANGED array /\ ~aborted /\ call' = <<"like:", x>>
      BY <1>6, <2>2 DEF Like
    <3>2. array[Slot(x)] = x <=> x \in Elements(array)
      BY <1>2, <3>1
    <3> QED BY <3>1, <3>2 DEF Answer, Abstract!Like, Abstract!Becomes, Abstract!Found
  <2> QED BY <2>1, <2>2
<1>7. ASSUME Size PROVE Abstract!Size /\ ~aborted
  <2>1. tally = Cardinality(Elements(array))
    BY <1>1 DEF Held
  <2>2. UNCHANGED <<array, aborted>> /\ answer' = <<tally>> /\ call' = <<"size">> /\ ~aborted
    BY <1>7 DEF Size, Answer
  <2>3. Cardinality(Elements(array)) = Abstract!Cardinality(Elements(array))
    BY DEF Cardinality, Abstract!Cardinality
  <2> QED BY <2>1, <2>2, <2>3 DEF Abstract!Size, Abstract!Becomes
<1>8. ASSUME UNCHANGED <<array, call, answer, aborted>> PROVE UNCHANGED Abstract!vars
  BY <1>8 DEF Abstract!vars
<1>9. CASE DoBegin \/ DoNext \/ DoEnd \/ UNCHANGED vars
  BY <1>8, <1>9 DEF DoBegin, DoNext, DoEnd, vars
<1> QED BY <1>4, <1>5, <1>6, <1>7, <1>9 DEF Next, Abstract!Next

\* What the messages answer is what a collection of unequal elements answers.
THEOREM SetImplements == Spec => Implements
<1>1. Init => Abstract!Init
  <2> SUFFICES ASSUME Init PROVE Abstract!Init
    OBVIOUS
  <2>1. Elements(array) = {}
    BY InitiallyHolds
  <2> QED BY <2>1 DEF Init, Abstract!Init
<1>2. HInv /\ [Next]_vars => [Abstract!Next]_(Abstract!vars)
  BY StepsImplement
<1> QED BY <1>1, <1>2, SetInvariance, PTL DEF Spec, Implements, Abstract!Spec
-----------------------------------------------------------------------------
(***************************************************************************)
(* Dictionaries.  Each is kept as a set of its keys is (Kept), and an      *)
(* association has one key, in whatever dictionaries it is (OneKey): so    *)
(* what addAll: stores in one association is not read for another key.     *)
(***************************************************************************)
Bindings == UNION {[D -> Number] : D \in SUBSET DictKey}
Tables == [keys : Seq(Cell), of : Bindings, tally : Nat]

Kept(t) ==
  /\ t \in Tables /\ t.keys # <<>> /\ Orderly(t.keys) /\ Free(t.keys)
  /\ DOMAIN t.of = Elements(t.keys)
  /\ t.tally = Cardinality(Elements(t.keys))

Contents == [Number -> DictValue \cup {Nil}]
Of(d) == dictionaries[d].of
Used(a) == \E d \in Dict : \E k \in DOMAIN Of(d) : Of(d)[k] = a
OneKey == \A d, e \in Dict : \A j \in DOMAIN Of(d), k \in DOMAIN Of(e) : Of(d)[j] = Of(e)[k] => j = k

DInv ==
  /\ dictionaries \in [Dict -> Tables] /\ \A d \in Dict : Kept(dictionaries[d])
  /\ contents \in Contents
  /\ \A a \in Number : contents[a] # Nil <=> Used(a)
  /\ OneKey

LEMMA KeptOf ==
  ASSUME NEW t, Kept(t)
  PROVE  /\ Len(t.keys) \in Nat \ {0} /\ t.keys \in Array(Len(t.keys))
         /\ t.of \in [DOMAIN t.of -> Number] /\ DOMAIN t.of \subseteq DictKey
         /\ \A k \in Element : /\ Finds(t, k) <=> k \in DOMAIN t.of
                               /\ ScanFor(t.keys, k) \in 1 .. Len(t.keys)
         /\ t.keys \in Seq(Cell) /\ t.tally \in Nat
         /\ t = [keys |-> t.keys, of |-> t.of, tally |-> t.tally]
<1>1. t.keys \in Seq(Cell) /\ t.tally \in Nat /\ t = [keys |-> t.keys, of |-> t.of, tally |-> t.tally]
  BY DEF Kept, Tables
<1>2. t.of \in Bindings
  BY DEF Kept, Tables
<1>3. t.of \in [DOMAIN t.of -> Number] /\ DOMAIN t.of \subseteq DictKey
  <2>1. PICK D \in SUBSET DictKey : t.of \in [D -> Number]
    BY <1>2 DEF Bindings
  <2>2. D = DOMAIN t.of
    BY <2>1
  <2> QED BY <2>1, <2>2
<1>4. PICK n \in Nat : n = Len(t.keys)
  BY <1>1
<1>5. n # 0 /\ t.keys \in Array(n)
  BY <1>1, <1>4 DEF Kept, Array
<1>6. ASSUME NEW k \in Element
      PROVE  (Finds(t, k) <=> k \in DOMAIN t.of) /\ ScanFor(t.keys, k) \in 1 .. n
  <2> DEFINE a == t.keys
  <2>1. Orderly(a) /\ Free(a) /\ a \in Array(n) /\ DOMAIN t.of = Elements(a) /\ k # Nil
    BY <1>5, HashSetAssumption DEF Kept
  <2> HIDE DEF a
  <2>2. /\ ScanFor(a, k) \in 1 .. n
        /\ k \in Elements(a) => a[ScanFor(a, k)] = k
        /\ k \notin Elements(a) => a[ScanFor(a, k)] = Nil
    BY <1>5, <2>1, Scans
  <2> QED BY <2>1, <2>2 DEF Finds, a
<1> QED BY <1>1, <1>3, <1>4, <1>5, <1>6

LEMMA BoundTyped ==
  ASSUME NEW f, f \in [DOMAIN f -> Number], DOMAIN f \subseteq DictKey, NEW k \in DictKey, NEW a \in Number
  PROVE  /\ Bound(f, k, a) \in Bindings
         /\ DOMAIN Bound(f, k, a) = DOMAIN f \cup {k}
         /\ Bound(f, k, a)[k] = a /\ \A j \in DOMAIN f : j # k => Bound(f, k, a)[j] = f[j]
<1> DEFINE D == DOMAIN f \cup {k}
<1>1. Bound(f, k, a) \in [D -> Number] /\ D \in SUBSET DictKey
  BY DEF Bound
<1>2. /\ DOMAIN Bound(f, k, a) = D /\ Bound(f, k, a)[k] = a
      /\ \A j \in DOMAIN f : j # k => Bound(f, k, a)[j] = f[j]
  BY DEF Bound
<1> HIDE DEF D
<1>3. Bound(f, k, a) \in Bindings
  BY <1>1 DEF Bindings
<1> QED BY <1>2, <1>3 DEF D

\* atNewIndex:put: of a key that is not there.
LEMMA NewIndexKeeps ==
  ASSUME NEW t, Kept(t), NEW k \in DictKey, k \notin DOMAIN t.of, NEW a \in Number
  PROVE  Kept(AtNewIndex(t, k, a)) /\ AtNewIndex(t, k, a).of = Bound(t.of, k, a)
<1> DEFINE n == Len(t.keys)
           c == t.keys
           m == t.tally
           b == Stored(c, ScanFor(c, k), k)
           g == Grown(b)
           f == Bound(t.of, k, a)
<1>1. /\ n \in Nat \ {0} /\ c \in Array(n) /\ Orderly(c) /\ Free(c) /\ k \in Element
      /\ k \notin Elements(c) /\ m = Cardinality(Elements(c)) /\ m \in Nat
  BY KeptOf, DictionaryAssumption DEF Kept
<1>2. /\ f \in Bindings
      /\ DOMAIN f = Elements(c) \cup {k}
  <2> DEFINE h == t.of
  <2>1. h \in [DOMAIN h -> Number] /\ DOMAIN h \subseteq DictKey /\ DOMAIN h = Elements(c)
    BY KeptOf DEF Kept
  <2> HIDE DEF h, c
  <2>2. Bound(h, k, a) \in Bindings /\ DOMAIN Bound(h, k, a) = DOMAIN h \cup {k}
    BY <2>1, BoundTyped
  <2> QED BY <2>1, <2>2 DEF h
<1>3. AtNewIndex(t, k, a) = IF Full(b, m + 1) THEN [keys |-> g.slots, of |-> f, tally |-> g.tally]
                            ELSE [keys |-> b, of |-> f, tally |-> m + 1]
  BY DEF AtNewIndex
<1> HIDE DEF n, c, m, f
<1>4. /\ b \in Array(n) /\ Orderly(b) /\ Elements(b) = Elements(c) \cup {k}
      /\ m + 1 = Cardinality(Elements(b))
      /\ ~Full(b, m + 1) => Free(b)
      /\ Grown(b).slots \in Array(2 * n) /\ Orderly(Grown(b).slots) /\ Free(Grown(b).slots)
      /\ Elements(Grown(b).slots) = Elements(b)
      /\ Grown(b).tally = m + 1
  BY <1>1, InsertKeeps
<1> HIDE DEF b, g
<1>5. \A l \in Nat \ {0} : \A s \in Array(l) : s \in Seq(Cell) /\ s # <<>>
  BY DEF Array
<1>6. b \in Seq(Cell) /\ b # <<>> /\ g.slots \in Seq(Cell) /\ g.slots # <<>>
  <2>1. n \in Nat \ {0} /\ 2 * n \in Nat \ {0}
    BY <1>1
  <2> QED BY <1>4, <1>5, <2>1 DEF g
<1>7. CASE Full(b, m + 1)
  <2> DEFINE u == [keys |-> g.slots, of |-> f, tally |-> m + 1]
  <2>1. AtNewIndex(t, k, a) = u
    BY <1>3, <1>4, <1>7 DEF g
  <2>2. u \in Tables
    BY <1>1, <1>2, <1>6 DEF Tables
  <2>3. Kept(u)
    BY <1>2, <1>4, <1>6, <2>2 DEF Kept, g
  <2> QED BY <2>1, <2>3 DEF f
<1>8. CASE ~Full(b, m + 1)
  <2> DEFINE u == [keys |-> b, of |-> f, tally |-> m + 1]
  <2>1. AtNewIndex(t, k, a) = u
    BY <1>3, <1>8
  <2>2. u \in Tables
    BY <1>1, <1>2, <1>6 DEF Tables
  <2>3. Kept(u)
    BY <1>2, <1>4, <1>6, <1>8, <2>2 DEF Kept
  <2> QED BY <2>1, <2>3 DEF f
<1> QED BY <1>7, <1>8

LEMMA RemoveKeyKeeps ==
  ASSUME NEW t, Kept(t), NEW k \in DOMAIN t.of
  PROVE  LET i == ScanFor(t.keys, k)
             u == [keys |-> FixCollisionsFrom(Stored(t.keys, i, Nil), i),
                   of |-> [j \in DOMAIN t.of \ {k} |-> t.of[j]], tally |-> t.tally - 1]
         IN  Kept(u)
<1> DEFINE n == Len(t.keys)
           c == t.keys
           i == ScanFor(c, k)
           b == FixCollisionsFrom(Stored(c, i, Nil), i)
           f == [j \in DOMAIN t.of \ {k} |-> t.of[j]]
           m == t.tally - 1
           u == [keys |-> b, of |-> f, tally |-> m]
<1>1. /\ n \in Nat \ {0} /\ c \in Array(n) /\ Orderly(c) /\ Free(c) /\ k \in Element /\ k # Nil
      /\ k \in Elements(c) /\ t.tally = Cardinality(Elements(c)) /\ DOMAIN t.of = Elements(c)
      /\ t.of \in [DOMAIN t.of -> Number] /\ DOMAIN t.of \subseteq DictKey
  BY KeptOf, DictionaryAssumption, HashSetAssumption DEF Kept
<1>2. i \in 1 .. n /\ c[i] = k
  BY <1>1, KeptOf DEF Finds
<1>3. /\ f \in Bindings
      /\ DOMAIN f = Elements(c) \ {k}
  <2> DEFINE D == DOMAIN t.of \ {k}
  <2>1. f \in [D -> Number] /\ D \in SUBSET DictKey /\ D = Elements(c) \ {k}
    BY <1>1
  <2> HIDE DEF D, f
  <2> QED BY <2>1 DEF Bindings
<1> HIDE DEF n, c, i, f
<1>4. b \in Array(n) /\ Orderly(b) /\ Free(b) /\ Elements(b) = Elements(c) \ {k}
  BY <1>1, <1>2, FixKeeps
<1> HIDE DEF b
<1>5. m = Cardinality(Elements(b)) /\ m \in Nat
  <2>1. IsFiniteSet(Elements(c)) /\ Cardinality(Elements(c)) \in Nat
    BY <1>1, Counted
  <2>2. Cardinality(Elements(c) \ {k}) = Cardinality(Elements(c)) - 1
    BY <1>1, <2>1, FS_RemoveElement
  <2>3. Cardinality(Elements(b)) \in Nat
    BY <1>1, <1>4, Counted
  <2> QED BY <1>1, <1>4, <2>1, <2>2, <2>3
<1>6. b \in Seq(Cell) /\ b # <<>>
  BY <1>1, <1>4 DEF Array
<1> HIDE DEF m
<1>7. u \in Tables
  BY <1>3, <1>5, <1>6 DEF Tables
<1>8. Kept(u)
  BY <1>3, <1>4, <1>5, <1>6, <1>7 DEF Kept
<1> QED BY <1>8 DEF u, m, f, b, i, c

\* What the invariant asks of a dictionary that is stored.
Fits(d, s) ==
  /\ Kept(s.dict) /\ s.contents \in Contents
  /\ \A j, k \in DOMAIN s.dict.of : s.dict.of[j] = s.dict.of[k] => j = k
  /\ \A k \in DOMAIN s.dict.of : \A e \in Dict \ {d} : \A l \in DOMAIN Of(e) :
       s.dict.of[k] = Of(e)[l] => k = l
  /\ \A k \in DOMAIN s.dict.of : s.contents[s.dict.of[k]] # Nil
  /\ \A a \in Number : contents[a] # Nil => s.contents[a] # Nil

LEMMA BecomesKeeps ==
  ASSUME DInv, NEW d \in Dict, NEW s, Fits(d, s), Becomes(d, s)
  PROVE  /\ DInv'
         /\ dictionaries' = [dictionaries EXCEPT ![d] = s.dict]
         /\ \A a \in Number : contents'[a] = IF Used(a)' THEN s.contents[a] ELSE Nil
<1>1. /\ Kept(s.dict) /\ s.contents \in Contents
      /\ \A j, k \in DOMAIN s.dict.of : s.dict.of[j] = s.dict.of[k] => j = k
      /\ \A k \in DOMAIN s.dict.of : \A e \in Dict \ {d} : \A l \in DOMAIN Of(e) :
           s.dict.of[k] = Of(e)[l] => k = l
      /\ \A k \in DOMAIN s.dict.of : s.contents[s.dict.of[k]] # Nil
      /\ \A a \in Number : contents[a] # Nil => s.contents[a] # Nil
  BY DEF Fits
<1>2. /\ dictionaries \in [Dict -> Tables] /\ \A e \in Dict : Kept(dictionaries[e])
      /\ \A a \in Number : contents[a] # Nil <=> Used(a)
      /\ OneKey
  BY DEF DInv
<1> DEFINE used == UNION {{Of(e)'[k] : k \in DOMAIN Of(e)'} : e \in Dict}
<1>3. /\ dictionaries' = [dictionaries EXCEPT ![d] = s.dict]
      /\ contents' = [a \in Number |-> IF a \in used THEN s.contents[a] ELSE Nil]
  BY DEF Becomes, Of
<1>4. \A a : a \in used <=> Used(a)'
  BY DEF Used
<1> HIDE DEF used
<1>5. s.dict \in Tables
  BY <1>1 DEF Kept
<1>6. dictionaries' \in [Dict -> Tables] /\ dictionaries'[d] = s.dict
      /\ \A e \in Dict \ {d} : dictionaries'[e] = dictionaries[e]
  <2> HIDE DEF Tables
  <2> QED BY <1>2, <1>3, <1>5
<1>7. \A e \in Dict : Kept(dictionaries'[e])
  BY <1>1, <1>2, <1>6
<1>8. \A a \in Number : contents'[a] = IF Used(a)' THEN s.contents[a] ELSE Nil
  BY <1>3, <1>4
<1>9. contents' \in Contents
  BY <1>1, <1>3 DEF Contents
<1>10. Of(d)' = s.dict.of /\ \A e \in Dict \ {d} : Of(e)' = Of(e)
  BY <1>6 DEF Of
<1>11. \A a \in Number : Used(a)' => s.contents[a] # Nil
  <2> SUFFICES ASSUME NEW e \in Dict, NEW k \in DOMAIN Of(e)', Of(e)'[k] \in Number
               PROVE  s.contents[Of(e)'[k]] # Nil
    BY DEF Used
  <2>1. CASE e = d
    BY <1>1, <1>10, <2>1
  <2>2. CASE e # d
    <3>1. Used(Of(e)[k]) /\ Of(e)'[k] = Of(e)[k]
      BY <1>10, <2>2 DEF Used
    <3> QED BY <1>1, <1>2, <3>1
  <2> QED BY <2>1, <2>2
<1>12. OneKey'
  <2> SUFFICES ASSUME NEW b \in Dict, NEW e \in Dict, NEW j \in DOMAIN Of(b)', NEW k \in DOMAIN Of(e)',
                      Of(b)'[j] = Of(e)'[k]
               PROVE  j = k
    BY DEF OneKey
  <2>1. CASE b = d /\ e = d
    BY <1>1, <1>10, <2>1
  <2>2. CASE b = d /\ e # d
    BY <1>1, <1>10, <2>2
  <2>3. CASE b # d /\ e = d
    BY <1>1, <1>10, <2>3
  <2>4. CASE b # d /\ e # d
    BY <1>2, <1>10, <2>4 DEF OneKey
  <2> QED BY <2>1, <2>2, <2>3, <2>4
<1>13. \A a \in Number : contents'[a] # Nil <=> Used(a)'
  BY <1>8, <1>11
<1>14. DInv'
  BY <1>6, <1>7, <1>9, <1>12, <1>13 DEF DInv
<1> QED BY <1>3, <1>8, <1>14

\* What is so of every dictionary.
LEMMA Bindings1 ==
  ASSUME DInv, NEW d \in Dict
  PROVE  /\ Kept(dictionaries[d]) /\ Of(d) \in [DOMAIN Of(d) -> Number] /\ DOMAIN Of(d) \subseteq DictKey
         /\ \A k \in DOMAIN Of(d) : Of(d)[k] \in Number /\ contents[Of(d)[k]] # Nil
         /\ \A k \in Element : Finds(dictionaries[d], k) <=> k \in DOMAIN Of(d)
<1>1. Kept(dictionaries[d])
  BY DEF DInv
<1>2. /\ Of(d) \in [DOMAIN Of(d) -> Number] /\ DOMAIN Of(d) \subseteq DictKey
      /\ \A k \in Element : Finds(dictionaries[d], k) <=> k \in DOMAIN Of(d)
  BY <1>1, KeptOf DEF Of
<1>3. \A k \in DOMAIN Of(d) : Of(d)[k] \in Number /\ Used(Of(d)[k])
  BY <1>2 DEF Used
<1> QED BY <1>1, <1>2, <1>3 DEF DInv

\* The cells of the abstract maps, and what is in them.
Cells == {a \in Number : contents[a] # Nil}
Inside == [a \in Cells |-> contents[a]]

\* at:put: changes the association there is, or puts a new one in.
LEMMA PutImplements ==
  ASSUME DInv, NEW d \in Dict, NEW k \in DictKey, NEW v \in DictValue, DictAtPut(d, k, v)
  PROVE  DInv' /\ Shared!Put(d, k, v)
<1> DEFINE t == dictionaries[d]
           B == [e \in Dict |-> Of(e)]
<1>1. /\ Kept(t) /\ Of(d) \in [DOMAIN Of(d) -> Number]
      /\ \A j \in DOMAIN Of(d) : Of(d)[j] \in Number /\ contents[Of(d)[j]] # Nil
      /\ Finds(t, k) <=> k \in DOMAIN Of(d)
      /\ t.of = Of(d) /\ v # Nil /\ contents \in Contents
  BY Bindings1, DictionaryAssumption DEF Of, DInv
<1>2. /\ dictionaries \in [Dict -> Tables] /\ \A a \in Number : contents[a] # Nil <=> Used(a)
      /\ OneKey
  BY DEF DInv
<1> HIDE DEF t
<1>3. Shared!Put(d, k, v) <=>
        \/ /\ k \in DOMAIN B[d]
           /\ Inside' = [Inside EXCEPT ![B[d][k]] = v]
           /\ B' = B
        \/ /\ k \notin DOMAIN B[d]
           /\ \E c \in Number \ DOMAIN Inside :
                 /\ B' = [B EXCEPT ![d] = Shared!Joined(@, [j \in {k} |-> c])]
                 /\ Inside' = Shared!Joined(Inside, [a \in {c} |-> v])
  BY DEF Shared!Put, Inside, Cells, Of
<1>4. B[d] = Of(d)
  OBVIOUS
<1>5. CASE Finds(t, k) /\ Becomes(d, [dict |-> t, contents |-> [contents EXCEPT ![t.of[k]] = v]])
  <2> DEFINE c == Of(d)[k]
             m == [contents EXCEPT ![c] = v]
             s == [dict |-> t, contents |-> m]
  <2>1. c \in Number /\ Becomes(d, s) /\ k \in DOMAIN Of(d) /\ contents[c] # Nil
    BY <1>1, <1>5
  <2>2. m \in Contents /\ m[c] = v /\ \A a \in Number : a # c => m[a] = contents[a]
    BY <1>1, <2>1 DEF Contents
  <2> HIDE DEF m, c
  <2>3. s.dict = t /\ s.contents = m
    OBVIOUS
  <2> HIDE DEF s
  <2>4. Fits(d, s)
    <3>1. \A j \in DOMAIN Of(d) : m[Of(d)[j]] # Nil
      BY <1>1, <2>2
    <3>2. \A a \in Number : contents[a] # Nil => m[a] # Nil
      BY <1>1, <2>2
    <3> QED BY <1>1, <1>2, <2>2, <2>3, <3>1, <3>2 DEF Fits, OneKey
  <2>5. /\ DInv' /\ dictionaries' = [dictionaries EXCEPT ![d] = t]
        /\ \A a \in Number : contents'[a] = IF Used(a)' THEN m[a] ELSE Nil
    BY <2>1, <2>3, <2>4, BecomesKeeps
  <2>6. dictionaries' = dictionaries
    BY <1>2, <2>5 DEF t
  <2>7. B' = B /\ \A a : Used(a)' <=> Used(a)
    BY <2>6 DEF Used, Of
  <2>8. \A a \in Number : contents'[a] = m[a]
    BY <1>2, <2>1, <2>2, <2>5, <2>7
  <2>9. Inside' = [Inside EXCEPT ![c] = v]
    <3>1. Cells' = Cells /\ c \in Cells
      BY <1>1, <2>1, <2>2, <2>8 DEF Cells
    <3>2. \A a \in Cells : a \in Number /\ contents'[a] = IF a = c THEN v ELSE contents[a]
      BY <2>2, <2>8 DEF Cells
    <3>3. Inside' = [a \in Cells |-> contents'[a]]
      BY <3>1 DEF Inside
    <3> HIDE DEF Cells
    <3> QED BY <3>1, <3>2, <3>3 DEF Inside
  <2> HIDE DEF B
  <2> QED BY <1>3, <1>4, <2>1, <2>5, <2>7, <2>9 DEF c
<1>6. CASE ~Finds(t, k) /\ WithKeyValue(v, LAMBDA a, c :
             Becomes(d, [dict |-> AtNewIndex(t, k, a), contents |-> c]))
  <2>2. PICK c \in Number : /\ contents[c] = Nil
                            /\ Becomes(d, [dict |-> AtNewIndex(t, k, c), contents |-> [contents EXCEPT ![c] = v]])
    <3> DEFINE unused == {a \in Number : contents[a] = Nil}
               least == CHOOSE a \in unused : \A b \in unused : a <= b
    <3>1. unused # {} /\ Becomes(d, [dict |-> AtNewIndex(t, k, least),
                                     contents |-> [contents EXCEPT ![least] = v]])
      BY <1>6 DEF WithKeyValue
    <3>2. unused \in SUBSET Nat /\ unused \subseteq Number /\ \A a \in unused : contents[a] = Nil
      BY DictionaryAssumption DEF Number
    <3> HIDE DEF unused
    <3>3. least \in unused
      BY <3>1, <3>2, Least
    <3> HIDE DEF least
    <3> QED BY <3>1, <3>2, <3>3
  <2> DEFINE m == [contents EXCEPT ![c] = v]
             u == AtNewIndex(t, k, c)
             s == [dict |-> u, contents |-> m]
  <2>1. Becomes(d, s)
    BY <2>2
  <2>3. m \in Contents /\ m[c] = v /\ \A a \in Number : a # c => m[a] = contents[a]
    BY <1>1, <2>2 DEF Contents
  <2>4. k \notin DOMAIN Of(d)
    BY <1>1, <1>6
  <2>5. /\ Kept(u) /\ DOMAIN u.of = DOMAIN Of(d) \cup {k} /\ u.of[k] = c
        /\ \A j \in DOMAIN Of(d) : u.of[j] = Of(d)[j]
    <3>1. Kept(u) /\ u.of = Bound(t.of, k, c)
      BY <1>1, <2>2, <2>4, NewIndexKeeps
    <3>2. /\ DOMAIN Bound(Of(d), k, c) = DOMAIN Of(d) \cup {k} /\ Bound(Of(d), k, c)[k] = c
          /\ \A j \in DOMAIN Of(d) : j # k => Bound(Of(d), k, c)[j] = Of(d)[j]
      BY DEF Bound
    <3> QED BY <1>1, <2>4, <3>1, <3>2
  <2> HIDE DEF m, u
  <2>6. s.dict = u /\ s.contents = m
    OBVIOUS
  <2> HIDE DEF s
  <2>7. \A e \in Dict : \A l \in DOMAIN Of(e) : Of(e)[l] # c
    BY <2>2, Bindings1
  <2>8. Fits(d, s)
    <3>1. \A j \in DOMAIN u.of : m[u.of[j]] # Nil
      BY <1>1, <2>3, <2>5
    <3>2. \A a \in Number : contents[a] # Nil => m[a] # Nil
      BY <1>1, <2>3
    <3>3. \A i, j \in DOMAIN u.of : u.of[i] = u.of[j] => i = j
      BY <1>2, <2>5, <2>7 DEF OneKey
    <3>4. \A j \in DOMAIN u.of : \A e \in Dict \ {d} : \A l \in DOMAIN Of(e) : u.of[j] = Of(e)[l] => j = l
      BY <1>2, <2>5, <2>7 DEF OneKey
    <3> QED BY <2>3, <2>5, <2>6, <3>1, <3>2, <3>3, <3>4 DEF Fits
  <2>9. /\ DInv' /\ dictionaries' = [dictionaries EXCEPT ![d] = u]
        /\ \A a \in Number : contents'[a] = IF Used(a)' THEN m[a] ELSE Nil
    BY <2>1, <2>6, <2>8, BecomesKeeps
  <2>10. Of(d)' = u.of /\ \A e \in Dict \ {d} : Of(e)' = Of(e)
    BY <1>2, <2>9 DEF Of
  <2>11. \A a : Used(a)' <=> Used(a) \/ a = c
    <3>1. \A a : Used(a)' => Used(a) \/ a = c
      BY <2>5, <2>10 DEF Used
    <3>2. Used(c)'
      BY <2>5, <2>10 DEF Used
    <3>3. ASSUME NEW a, Used(a) PROVE Used(a)'
      <4>1. PICK e \in Dict : \E l \in DOMAIN Of(e) : Of(e)[l] = a
        BY <3>3 DEF Used
      <4>2. PICK l \in DOMAIN Of(e) : Of(e)[l] = a
        BY <4>1
      <4>3. l \in DOMAIN Of(e)' /\ Of(e)'[l] = a
        BY <2>5, <2>10, <4>2
      <4> QED BY <4>3 DEF Used
    <3> QED BY <3>1, <3>2, <3>3
  <2>12. \A a \in Number : contents'[a] = m[a]
    BY <1>2, <2>3, <2>9, <2>11
  <2>13. B' = [B EXCEPT ![d] = Shared!Joined(@, [j \in {k} |-> c])]
    <3> DEFINE J == Shared!Joined(Of(d), [j \in {k} |-> c])
    <3>1. J = [j \in DOMAIN Of(d) \cup {k} |-> IF j \in DOMAIN Of(d) THEN Of(d)[j] ELSE c]
      BY DEF Shared!Joined
    <3>2. u.of = [j \in DOMAIN u.of |-> u.of[j]]
      BY <2>5, KeptOf
    <3>3. u.of = J
      BY <2>4, <2>5, <3>1, <3>2
    <3> HIDE DEF J
    <3>4. B' = [e \in Dict |-> IF e = d THEN J ELSE Of(e)]
      BY <2>10, <3>3
    <3> QED BY <3>4 DEF J
  <2>14. Inside' = Shared!Joined(Inside, [a \in {c} |-> v])
    <3>1. Cells' = Cells \cup {c} /\ c \notin Cells
      BY <1>1, <2>2, <2>3, <2>12 DEF Cells
    <3>2. \A a \in Cells : a \in Number /\ contents'[a] = contents[a]
      BY <2>2, <2>3, <2>12 DEF Cells
    <3>3. Inside' = [a \in Cells' |-> contents'[a]] /\ contents'[c] = v /\ DOMAIN Inside = Cells
          /\ \A a \in Cells : Inside[a] = contents[a]
      BY <2>2, <2>3, <2>12 DEF Inside
    <3>4. Shared!Joined(Inside, [a \in {c} |-> v]) = [a \in Cells \cup {c} |-> IF a \in Cells THEN Inside[a] ELSE v]
      BY <3>3 DEF Shared!Joined
    <3> HIDE DEF Cells
    <3> QED BY <3>1, <3>2, <3>3, <3>4
  <2>15. c \in Number \ DOMAIN Inside
    BY <2>2 DEF Inside, Cells
  <2> HIDE DEF B
  <2> QED BY <1>3, <1>4, <2>4, <2>9, <2>13, <2>14, <2>15
<1> QED BY <1>5, <1>6 DEF DictAtPut, t

\* add: of an association, to a dictionary and associations as they are on the way.
States == {s \in [dict : Tables, contents : Contents] : Kept(s.dict)}

LEMMA AssociationKeeps ==
  ASSUME NEW s \in States, NEW k \in DictKey, NEW a \in Number
  PROVE  LET r == AddAssociation(s, k, a)
         IN  /\ r \in States
             /\ k \in DOMAIN s.dict.of =>
                  r.dict = s.dict /\ r.contents = [s.contents EXCEPT ![s.dict.of[k]] = s.contents[a]]
             /\ k \notin DOMAIN s.dict.of =>
                  r.contents = s.contents /\ r.dict.of = Bound(s.dict.of, k, a)
<1> DEFINE t == s.dict
           m == s.contents
           c == [m EXCEPT ![t.of[k]] = m[a]]
           u == AtNewIndex(t, k, a)
<1>1. /\ Kept(t) /\ t \in Tables /\ m \in Contents /\ s = [dict |-> t, contents |-> m]
      /\ k \in Element
  <2>1. s \in [dict : Tables, contents : Contents] /\ Kept(s.dict)
    BY DEF States
  <2> HIDE DEF Tables, Contents
  <2> QED BY <2>1, DictionaryAssumption
<1>2. Finds(t, k) <=> k \in DOMAIN t.of
  <2> HIDE DEF t
  <2> QED BY <1>1, KeptOf
<1>3. AddAssociation(s, k, a) = IF Finds(t, k) THEN [dict |-> t, contents |-> c]
                                ELSE [dict |-> u, contents |-> m]
  <2> HIDE DEF u
  <2>1. AddAssociation(s, k, a) = IF Finds(t, k) THEN [s EXCEPT !.contents = c] ELSE [s EXCEPT !.dict = u]
    BY DEF AddAssociation, u
  <2> HIDE DEF t, m, c
  <2> QED BY <1>1, <2>1
<1>4. c \in Contents
  BY <1>1 DEF Contents
<1>5. ASSUME k \notin DOMAIN t.of PROVE Kept(u) /\ u.of = Bound(t.of, k, a) /\ u \in Tables
  <2> HIDE DEF t
  <2>1. Kept(u) /\ u.of = Bound(t.of, k, a)
    BY <1>1, <1>5, NewIndexKeeps
  <2> HIDE DEF u
  <2> QED BY <2>1 DEF Kept
<1> HIDE DEF u, c, m, t
<1>6. CASE Finds(t, k)
  <2>1. AddAssociation(s, k, a) = [dict |-> t, contents |-> c]
    BY <1>3, <1>6
  <2>2. [dict |-> t, contents |-> c] \in States
    BY <1>1, <1>4 DEF States
  <2> QED BY <1>2, <1>6, <2>1, <2>2 DEF t, c, m
<1>7. CASE ~Finds(t, k)
  <2>1. AddAssociation(s, k, a) = [dict |-> u, contents |-> m]
    BY <1>3, <1>7
  <2>2. Kept(u) /\ u.of = Bound(t.of, k, a) /\ u \in Tables
    BY <1>2, <1>5, <1>7
  <2>3. [dict |-> u, contents |-> m] \in States
    BY <1>1, <2>2 DEF States
  <2> QED BY <1>2, <1>7, <2>1, <2>2, <2>3 DEF t, m
<1> QED BY <1>6, <1>7

\* When the associations of the keys ks have come from e to d.
Included(s, d, e, ks) ==
  /\ s \in States
  /\ DOMAIN s.dict.of = DOMAIN Of(d) \cup ks
  /\ \A k \in DOMAIN Of(d) : s.dict.of[k] = Of(d)[k]
  /\ \A k \in ks \ DOMAIN Of(d) : s.dict.of[k] = Of(e)[k]
  /\ \A k \in ks \cap DOMAIN Of(d) : s.contents[Of(d)[k]] = contents[Of(e)[k]]
  /\ \A c \in Number : (\A k \in ks \cap DOMAIN Of(d) : Of(d)[k] # c) => s.contents[c] = contents[c]

LEMMA IncludedNone ==
  ASSUME DInv, NEW d \in Dict, NEW e \in Dict
  PROVE  Included(State(d), d, e, {})
<1>1. dictionaries[d] \in Tables /\ Kept(dictionaries[d]) /\ contents \in Contents
  BY DEF DInv
<1>2. State(d) \in States /\ State(d).dict.of = Of(d) /\ State(d).contents = contents
  BY <1>1 DEF States, State, Of
<1> QED BY <1>2 DEF Included

LEMMA IncludedOneMore ==
  ASSUME DInv, NEW d \in Dict, NEW e \in Dict, NEW ks, ks \subseteq DOMAIN Of(e), NEW s,
         Included(s, d, e, ks), NEW k \in DOMAIN Of(e) \ ks
  PROVE  Included(AddAssociation(s, k, Of(e)[k]), d, e, ks \cup {k})
<1> DEFINE a == Of(e)[k]
           r == AddAssociation(s, k, a)
<1>1. /\ s \in States
      /\ DOMAIN s.dict.of = DOMAIN Of(d) \cup ks
      /\ \A j \in DOMAIN Of(d) : s.dict.of[j] = Of(d)[j]
      /\ \A j \in ks \ DOMAIN Of(d) : s.dict.of[j] = Of(e)[j]
      /\ \A j \in ks \cap DOMAIN Of(d) : s.contents[Of(d)[j]] = contents[Of(e)[j]]
      /\ \A c \in Number : (\A j \in ks \cap DOMAIN Of(d) : Of(d)[j] # c) => s.contents[c] = contents[c]
  BY DEF Included
<1>2. k \in DictKey /\ a \in Number /\ \A j \in DOMAIN Of(d) : Of(d)[j] \in Number
  BY Bindings1
<1>3. \A j \in DOMAIN Of(d) : \A l \in DOMAIN Of(e) : Of(d)[j] = Of(e)[l] => j = l
  BY DEF DInv, OneKey
<1>4. \A j, l \in DOMAIN Of(d) : Of(d)[j] = Of(d)[l] => j = l
  BY DEF DInv, OneKey
<1> HIDE DEF a
<1>5. /\ r \in States
      /\ k \in DOMAIN s.dict.of =>
           r.dict = s.dict /\ r.contents = [s.contents EXCEPT ![s.dict.of[k]] = s.contents[a]]
      /\ k \notin DOMAIN s.dict.of =>
           r.contents = s.contents /\ r.dict.of = Bound(s.dict.of, k, a)
  BY <1>1, <1>2, AssociationKeeps
<1> HIDE DEF r
<1>6. CASE k \in DOMAIN Of(d)
  <2> DEFINE b == Of(d)[k]
             m == s.contents
  <2>1. r.dict = s.dict /\ r.contents = [m EXCEPT ![b] = m[a]]
    BY <1>1, <1>5, <1>6
  <2>2. m[a] = contents[a]
    BY <1>1, <1>2, <1>3 DEF a
  <2>3. m \in Contents /\ b \in Number
    BY <1>1, <1>2, <1>6 DEF States
  <2> HIDE DEF m
  <2>4. r.contents[b] = contents[a] /\ \A c \in Number : c # b => r.contents[c] = m[c]
    BY <2>1, <2>2, <2>3 DEF Contents
  <2>5. DOMAIN r.dict.of = DOMAIN Of(d) \cup (ks \cup {k})
    BY <1>1, <1>6, <2>1
  <2>6. \A j \in (ks \cup {k}) \cap DOMAIN Of(d) : r.contents[Of(d)[j]] = contents[Of(e)[j]]
    <3> SUFFICES ASSUME NEW j \in (ks \cup {k}) \cap DOMAIN Of(d)
                 PROVE  r.contents[Of(d)[j]] = contents[Of(e)[j]]
      OBVIOUS
    <3>1. CASE j = k
      BY <2>4, <3>1 DEF a
    <3>2. CASE j # k
      BY <1>1, <1>2, <1>4, <1>6, <2>4, <3>2 DEF m
    <3> QED BY <3>1, <3>2
  <2>7. ASSUME NEW c \in Number, \A j \in (ks \cup {k}) \cap DOMAIN Of(d) : Of(d)[j] # c
        PROVE  r.contents[c] = contents[c]
    BY <1>1, <1>6, <2>4, <2>7 DEF m
  <2> QED BY <1>1, <1>5, <1>6, <2>1, <2>5, <2>6, <2>7 DEF Included, r, a
<1>7. CASE k \notin DOMAIN Of(d)
  <2> DEFINE f == s.dict.of
  <2>1. r.contents = s.contents /\ r.dict.of = Bound(f, k, a)
    BY <1>1, <1>5, <1>7
  <2>2. /\ DOMAIN Bound(f, k, a) = DOMAIN f \cup {k} /\ Bound(f, k, a)[k] = a
        /\ \A j \in DOMAIN f : j # k => Bound(f, k, a)[j] = f[j]
    BY DEF Bound
  <2>3. \A j \in DOMAIN Of(d) : r.dict.of[j] = Of(d)[j]
    BY <1>1, <1>7, <2>1, <2>2
  <2>4. \A j \in (ks \cup {k}) \ DOMAIN Of(d) : r.dict.of[j] = Of(e)[j]
    BY <1>1, <1>7, <2>1, <2>2 DEF a
  <2>5. DOMAIN r.dict.of = DOMAIN Of(d) \cup (ks \cup {k})
    BY <1>1, <2>1, <2>2
  <2>6. (ks \cup {k}) \cap DOMAIN Of(d) = ks \cap DOMAIN Of(d)
    BY <1>7
  <2> QED BY <1>1, <1>5, <2>1, <2>3, <2>4, <2>5, <2>6 DEF Included, r, a
<1> QED BY <1>6, <1>7

LEMMA IncludeImplements ==
  ASSUME DInv, NEW d \in Dict, NEW e \in Dict, NEW ks, ks \subseteq DOMAIN Of(e), NEW s,
         Included(s, d, e, ks), Becomes(d, s)
  PROVE  DInv' /\ Shared!Include(d, e, ks)
<1> DEFINE B == [b \in Dict |-> Of(b)]
           G == {k \in ks : k \in DOMAIN Of(d)}
           taker(c) == CHOOSE k \in G : Of(d)[k] = c
           new == [c \in Cells |-> IF \E k \in G : Of(d)[k] = c THEN Inside[Of(e)[taker(c)]] ELSE Inside[c]]
           J == Shared!Joined(Of(d), Shared!Restrict(Of(e), ks))
<1>1. /\ Kept(s.dict) /\ s.contents \in Contents
      /\ DOMAIN s.dict.of = DOMAIN Of(d) \cup ks
      /\ \A k \in DOMAIN Of(d) : s.dict.of[k] = Of(d)[k]
      /\ \A k \in ks \ DOMAIN Of(d) : s.dict.of[k] = Of(e)[k]
      /\ \A k \in ks \cap DOMAIN Of(d) : s.contents[Of(d)[k]] = contents[Of(e)[k]]
      /\ \A c \in Number : (\A k \in ks \cap DOMAIN Of(d) : Of(d)[k] # c) => s.contents[c] = contents[c]
  BY DEF Included, States
<1>2. /\ dictionaries \in [Dict -> Tables] /\ \A a \in Number : contents[a] # Nil <=> Used(a)
      /\ \A b, c \in Dict : \A j \in DOMAIN Of(b), k \in DOMAIN Of(c) : Of(b)[j] = Of(c)[k] => j = k
      /\ \A b \in Dict : \A k \in DOMAIN Of(b) : Of(b)[k] \in Number /\ contents[Of(b)[k]] # Nil
  BY Bindings1 DEF DInv, OneKey
<1>3. Shared!Include(d, e, ks) <=> B' = [B EXCEPT ![d] = J] /\ Inside' = new
  BY DEF Shared!Include, Inside, Cells, Of
<1>4. \A a \in Number : contents[a] # Nil => s.contents[a] # Nil
  <2> SUFFICES ASSUME NEW a \in Number, contents[a] # Nil PROVE s.contents[a] # Nil
    OBVIOUS
  <2>1. CASE \E k \in ks \cap DOMAIN Of(d) : Of(d)[k] = a
    BY <1>1, <1>2, <2>1
  <2>2. CASE \A k \in ks \cap DOMAIN Of(d) : Of(d)[k] # a
    BY <1>1, <2>2
  <2> QED BY <2>1, <2>2
<1>5. \A k \in DOMAIN s.dict.of :
        \/ k \in DOMAIN Of(d) /\ s.dict.of[k] = Of(d)[k]
        \/ k \in DOMAIN Of(e) /\ s.dict.of[k] = Of(e)[k]
  BY <1>1
<1> HIDE DEF B, new, J
<1>6. Fits(d, s)
  <2>1. \A i, j \in DOMAIN s.dict.of : s.dict.of[i] = s.dict.of[j] => i = j
    BY <1>2, <1>5
  <2>2. \A j \in DOMAIN s.dict.of : \A b \in Dict \ {d} : \A l \in DOMAIN Of(b) :
          s.dict.of[j] = Of(b)[l] => j = l
    BY <1>2, <1>5
  <2>3. \A j \in DOMAIN s.dict.of : s.contents[s.dict.of[j]] # Nil
    BY <1>2, <1>4, <1>5
  <2> QED BY <1>1, <1>4, <2>1, <2>2, <2>3 DEF Fits
<1>7. /\ DInv' /\ dictionaries' = [dictionaries EXCEPT ![d] = s.dict]
      /\ \A a \in Number : contents'[a] = IF Used(a)' THEN s.contents[a] ELSE Nil
  BY <1>6, BecomesKeeps
<1>8. Of(d)' = s.dict.of /\ \A b \in Dict \ {d} : Of(b)' = Of(b)
  BY <1>2, <1>7 DEF Of
<1>9. \A a : Used(a)' <=> Used(a)
  <2>1. \A a : Used(a)' => Used(a)
    BY <1>5, <1>8 DEF Used
  <2>2. ASSUME NEW a, Used(a) PROVE Used(a)'
    <3>1. PICK b \in Dict : \E l \in DOMAIN Of(b) : Of(b)[l] = a
      BY <2>2 DEF Used
    <3>2. PICK l \in DOMAIN Of(b) : Of(b)[l] = a
      BY <3>1
    <3>3. l \in DOMAIN Of(b)' /\ Of(b)'[l] = a
      BY <1>1, <1>8, <3>2
    <3> QED BY <3>3 DEF Used
  <2> QED BY <2>1, <2>2
<1>10. B' = [B EXCEPT ![d] = J]
  <2>1. J = [j \in DOMAIN Of(d) \cup ks |-> IF j \in DOMAIN Of(d) THEN Of(d)[j] ELSE Of(e)[j]]
    BY DEF J, Shared!Joined, Shared!Restrict
  <2>2. s.dict.of = [j \in DOMAIN s.dict.of |-> s.dict.of[j]]
    BY <1>1, KeptOf
  <2>3. s.dict.of = J
    BY <1>1, <2>1, <2>2
  <2>4. B' = [b \in Dict |-> IF b = d THEN J ELSE Of(b)]
    BY <1>8, <2>3 DEF B
  <2> QED BY <2>4 DEF B
<1>11. Inside' = new
  <2>1. \A a \in Number : contents'[a] = IF Used(a) THEN s.contents[a] ELSE Nil
    BY <1>7, <1>9
  <2>2. Cells' = Cells
    BY <1>2, <1>4, <2>1 DEF Cells
  <2>3. \A a \in Cells : a \in Number /\ contents'[a] = s.contents[a] /\ Inside[a] = contents[a]
    BY <1>2, <2>1 DEF Cells, Inside
  <2>4. Inside' = [c \in Cells |-> contents'[c]]
    BY <2>2 DEF Inside
  <2>5. ASSUME NEW c \in Cells
        PROVE  contents'[c] = IF \E k \in G : Of(d)[k] = c THEN Inside[Of(e)[taker(c)]] ELSE Inside[c]
    <3>1. CASE \E k \in G : Of(d)[k] = c
      <4>1. PICK k \in G : Of(d)[k] = c
        BY <3>1
      <4>2. taker(c) = k
        BY <1>2, <4>1
      <4> HIDE DEF taker
      <4>3. k \in ks \cap DOMAIN Of(d) /\ k \in DOMAIN Of(e)
        BY <4>1
      <4>4. Of(e)[k] \in Cells
        BY <1>2, <4>3 DEF Cells
      <4> QED BY <1>1, <2>3, <3>1, <4>1, <4>2, <4>3, <4>4
    <3>2. CASE ~\E k \in G : Of(d)[k] = c
      BY <1>1, <2>3, <3>2
    <3> QED BY <3>1, <3>2
  <2> HIDE DEF taker, G
  <2> QED BY <2>4, <2>5 DEF new
<1> QED BY <1>3, <1>7, <1>10, <1>11

\* removeKey:ifAbsent:
LEMMA RemoveImplements ==
  ASSUME DInv, NEW d \in Dict, NEW k \in DictKey, DictRemoveKey(d, k)
  PROVE  DInv' /\ k \in DOMAIN Of(d) /\ Shared!Drop(d, k)
<1> DEFINE t == dictionaries[d]
           i == ScanFor(t.keys, k)
           u == [keys |-> FixCollisionsFrom(Stored(t.keys, i, Nil), i),
                 of |-> [j \in DOMAIN t.of \ {k} |-> t.of[j]], tally |-> t.tally - 1]
           s == [State(d) EXCEPT !.dict = u]
           B == [b \in Dict |-> Of(b)]
           C == [B EXCEPT ![d] = Shared!Restrict(@, DOMAIN @ \ {k})]
<1>1. Becomes(d, s) /\ Kept(t) /\ Of(d) = t.of /\ k \in DOMAIN Of(d)
  BY Bindings1, DictionaryAssumption DEF DictRemoveKey, Of
<1>2. Kept(u)
  <2> HIDE DEF t
  <2> QED BY <1>1, RemoveKeyKeeps
<1>3. /\ dictionaries \in [Dict -> Tables] /\ \A a \in Number : contents[a] # Nil <=> Used(a)
      /\ \A b, c \in Dict : \A j \in DOMAIN Of(b), l \in DOMAIN Of(c) : Of(b)[j] = Of(c)[l] => j = l
      /\ \A b \in Dict : \A l \in DOMAIN Of(b) : Of(b)[l] \in Number /\ contents[Of(b)[l]] # Nil
      /\ contents \in Contents
  BY Bindings1 DEF DInv, OneKey
<1>4. u.of = [j \in DOMAIN Of(d) \ {k} |-> Of(d)[j]]
  BY <1>1
<1> HIDE DEF u
<1>5. s.dict = u /\ s.contents = contents
  BY DEF State
<1> HIDE DEF s, B, C
<1>6. Fits(d, s)
  BY <1>2, <1>3, <1>4, <1>5 DEF Fits
<1>7. /\ DInv' /\ dictionaries' = [dictionaries EXCEPT ![d] = u]
      /\ \A a \in Number : contents'[a] = IF Used(a)' THEN contents[a] ELSE Nil
  BY <1>1, <1>5, <1>6, BecomesKeeps
<1>8. Of(d)' = u.of /\ \A b \in Dict \ {d} : Of(b)' = Of(b)
  BY <1>3, <1>7 DEF Of
<1>9. B' = C
  <2>1. B[d] = Of(d) /\ Shared!Restrict(Of(d), DOMAIN Of(d) \ {k}) = u.of
    BY <1>4 DEF B, Shared!Restrict
  <2>2. B' = [b \in Dict |-> IF b = d THEN u.of ELSE Of(b)]
    BY <1>8 DEF B
  <2>3. C = [B EXCEPT ![d] = u.of]
    BY <2>1 DEF C
  <2> QED BY <2>2, <2>3 DEF B
<1>10. Shared!Drop(d, k) <=> B' = C /\ Inside' = Shared!Restrict(Inside, Shared!CellsOf(C))
  BY DEF Shared!Drop, Shared!Without, Inside, Cells, Of, B, C
<1>11. \A a : a \in Shared!CellsOf(C) <=> Used(a)'
  <2>1. \A a : a \in Shared!CellsOf(C) <=> \E b \in Dict : \E l \in DOMAIN C[b] : C[b][l] = a
    BY DEF Shared!CellsOf
  <2>2. \A b \in Dict : C[b] = Of(b)'
    BY <1>9 DEF B
  <2> QED BY <2>1, <2>2 DEF Used
<1>12. Inside' = Shared!Restrict(Inside, Shared!CellsOf(C))
  <2>1. \A a : Used(a)' => a \in Number /\ a \in Cells
    BY <1>3, <1>4, <1>8 DEF Used, Cells
  <2>2. Cells' = Shared!CellsOf(C)
    BY <1>7, <1>11, <2>1 DEF Cells
  <2>3. \A a \in Shared!CellsOf(C) : contents'[a] = contents[a] /\ Inside[a] = contents[a]
    BY <1>7, <1>11, <2>1 DEF Inside
  <2>4. Inside' = [a \in Shared!CellsOf(C) |-> contents'[a]]
    BY <2>2 DEF Inside
  <2> QED BY <2>3, <2>4 DEF Shared!Restrict
<1> QED BY <1>1, <1>7, <1>9, <1>10, <1>12

\* add: of an association of e.
LEMMA AddImplements ==
  ASSUME DInv, NEW d \in Dict, NEW e \in Dict, NEW k \in DictKey, DictAdd(d, e, k)
  PROVE  DInv' /\ k \in DOMAIN Of(e) /\ Shared!Include(d, e, {k})
<1> DEFINE s == AddAssociation(State(d), k, Of(e)[k])
<1>1. k \in DOMAIN Of(e) /\ Becomes(d, s)
  BY Bindings1, DictionaryAssumption DEF DictAdd, Of
<1>2. Included(s, d, e, {} \cup {k})
  <2> DEFINE none == {}
             r == State(d)
  <2>1. none \subseteq DOMAIN Of(e) /\ k \in DOMAIN Of(e) \ none /\ Included(r, d, e, none)
    BY <1>1, IncludedNone
  <2> HIDE DEF none, r
  <2>2. Included(AddAssociation(r, k, Of(e)[k]), d, e, none \cup {k})
    BY <2>1, IncludedOneMore
  <2> QED BY <2>2 DEF none, r
<1> HIDE DEF s
<1>3. Included(s, d, e, {k}) /\ {k} \subseteq DOMAIN Of(e)
  BY <1>1, <1>2
<1> QED BY <1>1, <1>3, IncludeImplements

\* addAll: goes through the slots of e, and so through its keys.
LEMMA AddAllImplements ==
  ASSUME DInv, NEW d \in Dict, NEW e \in Dict, DictAddAll(d, e)
  PROVE  DInv' /\ \E ks : ks = DOMAIN Of(e) /\ Shared!Include(d, e, ks)
<1> DEFINE t == dictionaries[e]
           a == t.keys
           n == Len(a)
           with(s, i) == IF a[i] = Nil THEN s ELSE AddAssociation(s, a[i], t.of[a[i]])
           step(g, i) == IF i = 0 THEN State(d)
                         ELSE IF a[i] = Nil THEN g[i - 1]
                         ELSE AddAssociation(g[i - 1], a[i], t.of[a[i]])
           added == CHOOSE g : g = [i \in 0 .. n |-> step(g, i)]
           F == [si \in States \X (1 .. n) |-> with(si[1], si[2])]
           First(i) == {a[j] : j \in 1 .. i} \ {Nil}
<1>1. Becomes(d, added[n])
  BY DEF DictAddAll
<1>2. /\ n \in Nat /\ DOMAIN a = 1 .. n /\ t.of = Of(e) /\ DOMAIN Of(e) = Elements(a) /\ Distinct(a)
      /\ \A i \in 1 .. n : a[i] # Nil =>
           a[i] \in DOMAIN Of(e) /\ a[i] \in DictKey /\ Of(e)[a[i]] \in Number
  <2>1. Kept(t) /\ t.of = Of(e) /\ DOMAIN Of(e) \subseteq DictKey /\ \A k \in DOMAIN Of(e) : Of(e)[k] \in Number
    BY Bindings1 DEF Of
  <2>2. n \in Nat /\ DOMAIN a = 1 .. n /\ DOMAIN Of(e) = Elements(a) /\ Distinct(a)
    BY <2>1, KeptOf DEF Kept, Orderly
  <2>3. \A i \in 1 .. n : a[i] # Nil => a[i] \in Elements(a)
    BY <2>2 DEF Elements
  <2> QED BY <2>1, <2>2, <2>3
<1> HIDE DEF a, n, t
<1>3. State(d) \in States /\ Included(State(d), d, e, {})
  BY IncludedNone DEF Included
<1>4. ASSUME NEW s \in States, NEW i \in 1 .. n PROVE with(s, i) \in States
  BY <1>2, AssociationKeeps
<1>5. F \in [States \X (1 .. n) -> States]
  <2> HIDE DEF States, with
  <2> QED BY <1>4
<1>6. added[0] = State(d) /\ \A i \in 1 .. n : added[i] = with(added[i - 1], i)
  <2>1. PICK h \in [0 .. n -> States] : h[0] = State(d) /\ \A i \in 1 .. n : h[i] = F[<<h[i - 1], i>>]
    <3> DEFINE b == State(d)
    <3>1. b \in States
      BY <1>3
    <3> HIDE DEF b, F
    <3>2. \E h : Unfolds(h, States, b, n, F)
      BY <1>2, <1>5, <3>1, Recursion
    <3> QED BY <3>2 DEF Unfolds, b
  <2>2. ASSUME NEW i \in 1 .. n PROVE h[i] = with(h[i - 1], i)
    <3>1. i - 1 \in 0 .. n /\ <<h[i - 1], i>> \in States \X (1 .. n)
      BY <1>2, <2>1
    <3> HIDE DEF States, with
    <3> QED BY <2>1, <3>1
  <2>3. \A g, i : step(g, i) = IF i = 0 THEN State(d) ELSE with(g[i - 1], i)
    OBVIOUS
  <2> HIDE DEF with, step
  <2>4. h = [i \in 0 .. n |-> step(h, i)]
    <3>1. \A i \in 0 .. n : h[i] = step(h, i)
      BY <1>2, <2>1, <2>2, <2>3
    <3> QED BY <2>1, <3>1
  <2>5. added = [i \in 0 .. n |-> step(added, i)]
    BY <2>4
  <2> HIDE DEF added
  <2>6. \A i \in 0 .. n : added[i] = step(added, i)
    BY <2>5
  <2>7. 0 \in 0 .. n /\ \A i \in 1 .. n : i \in 0 .. n /\ i # 0
    BY <1>2
  <2> QED BY <2>3, <2>6, <2>7
<1> HIDE DEF added, F, step
<1> DEFINE T == {i \in 0 .. n : Included(added[i], d, e, First(i))}
<1>7. 0 \in T
  <2>1. First(0) = {} /\ 0 \in 0 .. n
    BY <1>2
  <2> HIDE DEF First
  <2> QED BY <1>3, <1>6, <2>1
<1>8. ASSUME NEW i \in 1 .. n, i - 1 \in T PROVE i \in T
  <2> DEFINE s == added[i - 1]
             ks == First(i - 1)
             k == a[i]
  <2>1. i - 1 \in 0 .. n /\ i \in 0 .. n /\ Included(s, d, e, ks) /\ added[i] = with(s, i)
    BY <1>2, <1>6, <1>8
  <2>2. First(i) = ks \cup ({k} \ {Nil})
    <3>1. 1 .. i = (1 .. i - 1) \cup {i}
      BY <1>2
    <3> QED BY <3>1
  <2>3. ks \subseteq DOMAIN Of(e)
    BY <1>2
  <2>4. k # Nil => k \in DOMAIN Of(e) \ ks
    <3> SUFFICES ASSUME NEW j \in 1 .. i - 1, a[j] = a[i], a[i] # Nil PROVE FALSE
      BY <1>2
    <3>1. j \in 1 .. n /\ j # i
      BY <1>2
    <3> QED BY <1>2, <3>1 DEF Distinct
  <2> HIDE DEF First
  <2>5. CASE k = Nil
    BY <2>1, <2>2, <2>5
  <2>6. CASE k # Nil
    <3>1. added[i] = AddAssociation(s, k, Of(e)[k]) /\ First(i) = ks \cup {k}
      BY <1>2, <2>1, <2>2, <2>6
    <3> HIDE DEF s, ks, k
    <3>2. Included(AddAssociation(s, k, Of(e)[k]), d, e, ks \cup {k})
      BY <2>1, <2>3, <2>4, <2>6, IncludedOneMore
    <3> QED BY <2>1, <3>1, <3>2
  <2> QED BY <2>5, <2>6
<1>9. Included(added[n], d, e, First(n))
  <2> HIDE DEF T
  <2>1. \A i \in 0 .. n : i \in T
    BY <1>2, <1>7, <1>8, Steps
  <2>2. n \in T
    BY <1>2, <2>1
  <2> QED BY <2>2 DEF T
<1>10. First(n) = DOMAIN Of(e)
  BY <1>2 DEF Elements
<1> HIDE DEF First
<1>11. PICK s, ks : s = added[n] /\ ks = DOMAIN Of(e)
  OBVIOUS
<1>12. Included(s, d, e, ks) /\ Becomes(d, s) /\ ks \subseteq DOMAIN Of(e)
  BY <1>1, <1>9, <1>10, <1>11
<1>13. DInv' /\ Shared!Include(d, e, ks)
  BY <1>12, IncludeImplements
<1> QED BY <1>11, <1>13

LEMMA DictStep ==
  ASSUME DInv, [DictNext]_dictVars
  PROVE  DInv' /\ [Shared!Next]_(Shared!vars)
<1>1. ASSUME NEW d \in Dict, NEW k \in DictKey, NEW v \in DictValue, DictAtPut(d, k, v)
      PROVE  DInv' /\ Shared!Next
  BY <1>1, PutImplements DEF Shared!Next
<1>2. ASSUME NEW d \in Dict, NEW e \in Dict, NEW k \in DictKey, DictAdd(d, e, k)
      PROVE  DInv' /\ Shared!Next
  <2>1. PICK ks : ks = {k} /\ k \in DOMAIN Of(e) /\ Shared!Include(d, e, ks)
    BY <1>2, AddImplements
  <2>2. DInv' /\ [b \in Dict |-> dictionaries[b].of][e] = Of(e)
    BY <1>2, AddImplements DEF Of
  <2> QED BY <2>1, <2>2 DEF Shared!Next
<1>3. ASSUME NEW d \in Dict, NEW e \in Dict, DictAddAll(d, e)
      PROVE  DInv' /\ Shared!Next
  <2>1. PICK ks : ks = DOMAIN Of(e) /\ Shared!Include(d, e, ks)
    BY <1>3, AddAllImplements
  <2>2. DInv' /\ [b \in Dict |-> dictionaries[b].of][e] = Of(e)
    BY <1>3, AddAllImplements DEF Of
  <2> QED BY <2>1, <2>2 DEF Shared!Next
<1>4. ASSUME NEW d \in Dict, NEW k \in DictKey, DictRemoveKey(d, k)
      PROVE  DInv' /\ Shared!Next
  <2>1. DInv' /\ k \in DOMAIN Of(d) /\ Shared!Drop(d, k)
    BY <1>4, RemoveImplements
  <2>2. [b \in Dict |-> dictionaries[b].of][d] = Of(d)
    BY DEF Of
  <2> QED BY <2>1, <2>2 DEF Shared!Next
<1>5. CASE UNCHANGED dictVars
  <2>1. dictionaries' = dictionaries /\ contents' = contents
    BY <1>5 DEF dictVars
  <2> QED BY <2>1 DEF DInv, OneKey, Used, Of, Shared!vars
<1> QED BY <1>1, <1>2, <1>3, <1>4, <1>5 DEF DictNext

LEMMA DictInitially ==
  ASSUME DictInit
  PROVE  DInv /\ Shared!Init
<1> DEFINE t == [keys |-> Empty(2), of |-> <<>>, tally |-> 0]
<1>1. dictionaries = [d \in Dict |-> t] /\ contents = [a \in Number |-> Nil]
  BY DEF DictInit
<1>2. Empty(2) \in Array(2) /\ Orderly(Empty(2)) /\ Elements(Empty(2)) = {} /\ Free(Empty(2))
  BY EmptyThere
<1>3. Empty(2) \in Seq(Cell) /\ Empty(2) # <<>>
  BY <1>2 DEF Array
<1>4. <<>> \in Bindings /\ DOMAIN <<>> = {}
  <2>1. <<>> \in [{} -> Number] /\ {} \in SUBSET DictKey
    OBVIOUS
  <2> QED BY <2>1 DEF Bindings
<1>5. Kept(t)
  <2>1. t \in Tables
    BY <1>3, <1>4 DEF Tables
  <2> QED BY <1>2, <1>3, <1>4, <2>1, FS_EmptySet DEF Kept
<1> HIDE DEF t
<1>6. \A d \in Dict : Of(d) = <<>>
  BY <1>1 DEF Of, t
<1>7. \A a : ~Used(a)
  BY <1>4, <1>6 DEF Used
<1>8. DInv
  <2>1. dictionaries \in [Dict -> Tables] /\ \A d \in Dict : Kept(dictionaries[d])
    BY <1>1, <1>5 DEF Kept
  <2>2. OneKey
    BY <1>4, <1>6 DEF OneKey
  <2> QED BY <1>1, <1>7, <2>1, <2>2 DEF DInv, Contents
<1>9. [d \in Dict |-> dictionaries[d].of] = [d \in Dict |-> <<>>]
  BY <1>6 DEF Of
<1>10. [a \in {b \in Number : contents[b] # Nil} |-> contents[a]] = <<>>
  BY <1>1
<1> QED BY <1>8, <1>9, <1>10 DEF Shared!Init

\* The invariant of Dictionary holds in every reachable state.
THEOREM DictionariesInvariance == DictSpec => []DInv
<1>1. DictInit => DInv
  BY DictInitially
<1>2. DInv /\ [DictNext]_dictVars => DInv'
  BY DictStep
<1> QED BY <1>1, <1>2, PTL DEF DictSpec

\* Every association of a dictionary is where a scan for its key ends, and the
\* tally is their number.
THEOREM DictionariesTyped == DictSpec => []DictTypeOK
<1>1. DInv => DictTypeOK
  <2> SUFFICES ASSUME DInv, NEW d \in Dict
               PROVE  LET t == dictionaries[d]
                      IN  /\ t.of \in [{k \in DictKey : Finds(t, k)} -> {a \in Number : contents[a] # Nil}]
                          /\ DOMAIN t.of = Elements(t.keys)
                          /\ t.tally = Cardinality({i \in DOMAIN t.keys : t.keys[i] # Nil})
                          /\ t.tally = Cardinality(DOMAIN t.of)
    BY DEF DictTypeOK
  <2> DEFINE t == dictionaries[d]
             a == t.keys
             I == {i \in DOMAIN a : a[i] # Nil}
             E == Elements(a)
  <2>1. /\ Kept(t) /\ t.of \in [DOMAIN t.of -> Number] /\ DOMAIN t.of \subseteq DictKey
        /\ \A k \in DOMAIN t.of : t.of[k] \in Number /\ contents[t.of[k]] # Nil
        /\ \A k \in Element : Finds(t, k) <=> k \in DOMAIN t.of
    BY Bindings1 DEF Of
  <2> HIDE DEF t
  <2>2. {k \in DictKey : Finds(t, k)} = DOMAIN t.of
    BY <2>1, DictionaryAssumption
  <2>3. t.of \in [DOMAIN t.of -> {b \in Number : contents[b] # Nil}]
    BY <2>1
  <2>4. Len(a) \in Nat /\ a \in Array(Len(a)) /\ Distinct(a) /\ DOMAIN a = 1 .. Len(a)
    BY <2>1, KeptOf DEF Kept, Orderly
  <2> HIDE DEF a
  <2>5. IsFiniteSet(E)
    BY <2>4, Counted
  <2>6. Cardinality(I) = Cardinality(E)
    <3> DEFINE f == [i \in I |-> a[i]]
    <3>1. f \in [I -> E] /\ \A i \in I : f[i] = a[i]
      BY DEF Elements
    <3>2. \A i, j \in I : a[i] = a[j] => i = j
      BY <2>4 DEF Distinct
    <3>3. \A x \in E : \E i \in I : a[i] = x
      BY DEF Elements
    <3>4. IsFiniteSet(I)
      <4>1. IsFiniteSet(DOMAIN a)
        BY <2>4, FS_Interval
      <4>2. I \in SUBSET DOMAIN a
        OBVIOUS
      <4> HIDE DEF I
      <4> QED BY <4>1, <4>2, FS_Subset
    <3> HIDE DEF f, I, E
    <3>5. f \in Bijection(I, E)
      BY <3>1, <3>2, <3>3 DEF Bijection, Injection, Surjection, IsInjective
    <3>6. ExistsBijection(I, E)
      BY <3>5 DEF ExistsBijection
    <3> QED BY <3>4, <3>6, FS_Bijection
  <2> HIDE DEF I
  <2>7. DOMAIN t.of = E /\ t.tally = Cardinality(E)
    BY <2>1 DEF Kept, a
  <2> QED BY <2>2, <2>3, <2>6, <2>7 DEF t, a, I
<1> QED BY <1>1, DictionariesInvariance, PTL

\* Dictionaries are maps that share the cells they were both given.
THEOREM DictionariesShare == DictSpec => MapsSpec
<1>1. DictInit => Shared!Init
  BY DictInitially
<1>2. DInv /\ [DictNext]_dictVars => [Shared!Next]_(Shared!vars)
  BY DictStep
<1> QED BY <1>1, <1>2, DictionariesInvariance, PTL DEF DictSpec, MapsSpec, Shared!Spec
=============================================================================
